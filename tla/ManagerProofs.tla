--------------------------- MODULE ManagerProofs ---------------------------
(***************************************************************************)
(* Proofs about Manager, for any actors, clients, names and bounds.        *)
(*                                                                         *)
(* ManagerInv, about the lists alone, is inductive and makes every step of *)
(* the manager a step of ActorRuntime.  Books relates the lists to the     *)
(* threads: who is in which list follows from where its thread is, and no  *)
(* runtime is in a list twice, or it would be spawned twice.  StartInv     *)
(* adds that threads begin in the order of registration, so that what is   *)
(* ahead of a Start in a mailbox comes from a client or from an actor      *)
(* that was registered before.                                             *)
(***************************************************************************)
EXTENDS Manager, ActorRuntimeProofs

USE DEF Procs

\* init() has taken all runtimes, and has announced only someone it still has
\* to spawn.
ManagerInv ==
  /\ ManagerTypeOK
  /\ at = "init" => runtimes = <<>>
  /\ announced => at = "init" /\ todo # <<>>

NoRepeats(s) == \A i, j \in DOMAIN s : s[i] = s[j] => i = j

-----------------------------------------------------------------------------
\* What Append adds to the elements of a sequence.
LEMMA AppendElements ==
  ASSUME NEW S, NEW s \in Seq(S), NEW x \in S
  PROVE  /\ Append(s, x) \in Seq(S)
         /\ Elements(Append(s, x)) = Elements(s) \cup {x}
         /\ NoRepeats(s) /\ x \notin Elements(s) => NoRepeats(Append(s, x))
<1>1. /\ Append(s, x) \in Seq(S) /\ Len(s) \in Nat
      /\ DOMAIN s = 1 .. Len(s) /\ DOMAIN Append(s, x) = 1 .. Len(s) + 1
      /\ \A i \in 1 .. Len(s) : Append(s, x)[i] = s[i]
      /\ Append(s, x)[Len(s) + 1] = x
  OBVIOUS
<1>2. DOMAIN Append(s, x) = DOMAIN s \cup {Len(s) + 1} /\ Len(s) + 1 \notin DOMAIN s
  BY <1>1
<1>3. Elements(Append(s, x)) = Elements(s) \cup {x}
  BY <1>1, <1>2 DEF Elements
<1>4. NoRepeats(s) /\ x \notin Elements(s) => NoRepeats(Append(s, x))
  BY <1>1, <1>2 DEF Elements, NoRepeats
<1>5. QED
  BY <1>1, <1>3, <1>4

\* A sequence is its head and its tail.
LEMMA TailElements ==
  ASSUME NEW S, NEW s \in Seq(S), s # <<>>
  PROVE  /\ Head(s) \in S /\ Tail(s) \in Seq(S)
         /\ Elements(s) = {Head(s)} \cup Elements(Tail(s))
         /\ NoRepeats(s) => NoRepeats(Tail(s)) /\ Head(s) \notin Elements(Tail(s))
<1>1. /\ Tail(s) \in Seq(S) /\ Len(s) \in Nat \ {0} /\ Head(s) = s[1] /\ Head(s) \in S
      /\ DOMAIN s = 1 .. Len(s) /\ DOMAIN Tail(s) = 1 .. Len(s) - 1
      /\ \A i \in 1 .. Len(s) - 1 : Tail(s)[i] = s[i + 1]
  OBVIOUS
<1>2. \A j \in 2 .. Len(s) : j - 1 \in DOMAIN Tail(s) /\ s[j] = Tail(s)[j - 1]
  BY <1>1
<1>3. Elements(s) = {Head(s)} \cup Elements(Tail(s))
  <2>1. ASSUME NEW j \in DOMAIN s PROVE s[j] \in {Head(s)} \cup Elements(Tail(s))
    <3>1. CASE j = 1
      BY <1>1, <3>1
    <3>2. CASE j # 1
      <4>1. j \in 2 .. Len(s)
        BY <1>1, <3>2
      <4>2. QED
        BY <1>2, <4>1 DEF Elements
    <3>3. QED
      BY <3>1, <3>2
  <2>2. ASSUME NEW i \in DOMAIN Tail(s) PROVE i + 1 \in DOMAIN s /\ Tail(s)[i] = s[i + 1]
    BY <1>1
  <2>3. 1 \in DOMAIN s
    BY <1>1
  <2>4. QED
    BY <1>1, <2>1, <2>2, <2>3 DEF Elements
<1>4. ASSUME NoRepeats(s) PROVE NoRepeats(Tail(s)) /\ Head(s) \notin Elements(Tail(s))
  <2>1. \A i \in DOMAIN Tail(s) : i + 1 \in DOMAIN s /\ i + 1 # 1 /\ Tail(s)[i] = s[i + 1]
    BY <1>1
  <2>2. 1 \in DOMAIN s
    BY <1>1
  <2>3. NoRepeats(Tail(s))
    <3>1. ASSUME NEW i \in DOMAIN Tail(s), NEW j \in DOMAIN Tail(s), Tail(s)[i] = Tail(s)[j]
          PROVE  i = j
      <4>1. i + 1 = j + 1
        BY <1>4, <2>1, <3>1 DEF NoRepeats
      <4>2. QED
        BY <1>1, <4>1
    <3>2. QED
      BY <3>1 DEF NoRepeats
  <2>4. Head(s) \notin Elements(Tail(s))
    BY <1>1, <1>4, <2>1, <2>2 DEF Elements, NoRepeats
  <2>5. QED
    BY <2>3, <2>4
<1>5. QED
  BY <1>1, <1>3, <1>4

\* The empty sequence has no elements.
LEMMA NoElements == Elements(<<>>) = {} /\ NoRepeats(<<>>)
BY DEF Elements, NoRepeats
-----------------------------------------------------------------------------
\* The lists are well formed to begin with.
LEMMA InitManagerInv == ManagerInit => ManagerInv
<1> SUFFICES ASSUME ManagerInit PROVE ManagerInv
  OBVIOUS
<1>1. calls \in 0 .. MaxCalls
  BY ManagerAssumption DEF ManagerInit
<1>2. <<>> \in Seq(Actors)
  OBVIOUS
<1>3. {actor_refs, runtimes, threads, todo} \subseteq Seq(Actors)
  BY <1>2 DEF ManagerInit
<1>4. QED
  BY <1>1, <1>3 DEF ManagerInit, ManagerInv, ManagerTypeOK, Places

\* Every step leaves the lists well formed.
LEMMA NextManagerInv == ManagerInv /\ [ManagerNext]_vars => ManagerInv'
<1> SUFFICES ASSUME ManagerInv, [ManagerNext]_vars PROVE ManagerInv'
  OBVIOUS
<1> USE DEF ManagerInv, ManagerTypeOK, Places
<1>0. Elements(<<>>) = {}
  BY NoElements
<1>1. ASSUME NEW a \in Actors, NEW n \in Names, Manage(a, n) PROVE ManagerInv'
  <2>1. Append(actor_refs, a) \in Seq(Actors) /\ Append(runtimes, a) \in Seq(Actors)
    BY AppendElements
  <2>2. registry' \in [Names -> Actors \cup {None}]
    BY <1>1 DEF Manage
  <2>3. QED
    BY <1>1, <2>1, <2>2 DEF Manage
<1>2. ASSUME NEW m \in Places \ {"user"}, NEW list \in Seq(Actors), Enter(m, list)
      PROVE  calls' \in 0 .. MaxCalls
  BY <1>2, ManagerAssumption DEF Enter
<1>3. CASE InitEnter
  BY <1>0, <1>2, <1>3 DEF InitEnter, Enter, RuntimesAfterTake
<1>4. CASE ShutdownEnter
  BY <1>2, <1>4 DEF ShutdownEnter, Enter
<1>5. CASE WaitEnter
  BY <1>2, <1>5 DEF WaitEnter, Enter, ToJoin
<1>6. CASE RunEnter
  BY <1>2, <1>6 DEF RunEnter, Enter
<1>7. CASE SendStart
  BY <1>7 DEF SendStart
<1>8. CASE SpawnThread
  <2>1. Head(todo) \in Actors /\ Tail(todo) \in Seq(Actors)
    BY <1>8, TailElements DEF SpawnThread
  <2>2. Append(threads, Head(todo)) \in Seq(Actors)
    BY <2>1, AppendElements
  <2>3. QED
    BY <1>0, <1>8, <2>1, <2>2 DEF SpawnThread
<1>9. CASE SendShutdown
  <2>1. Tail(todo) \in Seq(Actors)
    BY <1>9, TailElements DEF SendShutdown
  <2>2. QED
    BY <1>9, <2>1 DEF SendShutdown
<1>10. CASE Join
  <2>1. Tail(todo) \in Seq(Actors)
    BY <1>10, TailElements DEF Join
  <2>2. QED
    BY <1>10, <2>1 DEF Join
<1>11. CASE Return
  BY <1>11 DEF Return
<1>12. ASSUME NEW p \in Procs, Terminate(p) PROVE ManagerInv'
  BY <1>12 DEF Terminate
<1>13. CASE UNCHANGED managerVars
  BY <1>13 DEF managerVars
<1>14. QED
  BY <1>1, <1>3, <1>4, <1>5, <1>6, <1>7, <1>8, <1>9, <1>10, <1>11, <1>12, <1>13
     DEF ManagerNext, InMethod, MainSends, vars
-----------------------------------------------------------------------------
\* Whatever the manager does to an actor is a step of the runtime.
LEMMA ManagerStepsAreRuntimeSteps ==
  ManagerInv /\ [ManagerNext]_vars => [Next]_runtimeVars
<1> SUFFICES ASSUME ManagerInv, [ManagerNext]_vars PROVE [Next]_runtimeVars
  OBVIOUS
<1>1. ASSUME NEW a \in Actors, NEW n \in Names, Manage(a, n) PROVE Next
  BY <1>1 DEF Manage, Next
<1>2. ASSUME NEW k \in {"Start", "Shutdown"}, todo # <<>>, Send(Main, Head(todo), k, None)
      PROVE  Next
  <2>1. Head(todo) \in Actors
    BY <1>2, TailElements DEF ManagerInv, ManagerTypeOK
  <2>2. Main \in Clients /\ k \in ClientKinds
    BY ManagerAssumption
  <2>3. Sends(Main, ClientKinds)
    BY <1>2, <2>1, <2>2, SendersAreReferences DEF Sends, Procs
  <2>4. QED
    BY <2>2, <2>3 DEF Next, ClientThread
<1>3. CASE SpawnThread
  <2>1. Head(todo) \in Actors
    BY <1>3, TailElements DEF ManagerInv, ManagerTypeOK, SpawnThread
  <2>2. QED
    BY <1>3, <2>1 DEF SpawnThread, Next
<1>4. CASE MainSends
  <2>1. Main \in Clients /\ {"User"} \subseteq ClientKinds
    BY ManagerAssumption
  <2>2. ClientThread(Main)
    BY <1>4, <2>1 DEF MainSends, ClientThread, Sends
  <2>3. QED
    BY <2>1, <2>2 DEF Next
<1>5. QED
  BY <1>1, <1>2, <1>3, <1>4
     DEF ManagerNext, InMethod, InitEnter, ShutdownEnter, WaitEnter, RunEnter, Enter,
         SendStart, SendShutdown, Join, Return, Terminate, Next, vars

\* Managed actors are actors: whatever is proved of ActorRuntime, such as
\* CallsAreNeverForgotten, holds of actors that a Manager starts and joins.
THEOREM ManagedActorsAreActors == ManagerSpec => Spec
<1>1. ManagerInit => Init
  BY DEF ManagerInit
<1>2. QED
  BY <1>1, InitManagerInv, NextManagerInv, ManagerStepsAreRuntimeSteps, PTL
     DEF ManagerSpec, Spec

\* The manager's variables keep their types, and init() owns the runtimes it
\* goes through.
THEOREM ManagerTypeCorrect == ManagerSpec => []ManagerTypeOK
<1>1. ManagerInv => ManagerTypeOK
  BY DEF ManagerInv
<1>2. QED
  BY <1>1, InitManagerInv, NextManagerInv, PTL DEF ManagerSpec
-----------------------------------------------------------------------------
\* Who is in which list agrees with the threads.
Books == /\ NoActorIsLost /\ StartedOnce
         /\ NoRepeats(runtimes)
         /\ at = "init" => NoRepeats(todo)

\* Threads that run stay spawned, and those that are over stay over.
LEMMA ThreadsStaySpawned ==
  ASSUME TypeOK, NEW b \in Actors,
         \/ \E a \in Actors : ActorThread(a)
         \/ \E c \in Clients : ClientThread(c)
  PROVE  /\ pc'[b] = "absent" <=> pc[b] = "absent"
         /\ pc'[b] = "new" <=> pc[b] = "new"
         /\ pc'[b] \notin Dead => pc[b] \notin Dead
<1> USE DEF TypeOK, PC, UserCode, Dead
<1>1. CASE \E c \in Clients : ClientThread(c)
  BY <1>1 DEF ClientThread, Sends, Send, FastSend, FastSendReturns
<1>2. ASSUME NEW a \in Actors, ActorThread(a)
      PROVE  pc' = pc \/ \E q \in PC \ {"absent", "new"} :
                            /\ pc' = [pc EXCEPT ![a] = q]
                            /\ pc[a] \notin {"absent", "new"} \cup Dead
  BY <1>2 DEF ActorThread, InitReturns, CheckRunning, AfterCheck, Dispatch, EndReturns, Sends,
              Send, FastSend, FastSendReturns, ReplyOnChannel, ReplyToSender, HandlerReturns, Panic
<1>3. QED
  BY <1>1, <1>2

\* A step that leaves the manager alone and spawns nobody keeps the books.
LEMMA BooksStutter ==
  ASSUME Books, UNCHANGED managerVars,
         \A b \in Actors : /\ pc'[b] = "absent" <=> pc[b] = "absent"
                           /\ pc'[b] = "new" <=> pc[b] = "new"
                           /\ pc'[b] \notin Dead => pc[b] \notin Dead
  PROVE  Books'
BY DEF Books, managerVars, NoActorIsLost, StartedOnce, Registered, Spawned

\* There is nothing to lose before the first actor is registered.
LEMMA InitBooks == ManagerInit => Books
<1> SUFFICES ASSUME ManagerInit PROVE Books
  OBVIOUS
<1>1. ASSUME NEW n \in Names, NEW a \in Actors PROVE registry[n] # a
  BY NamesAssumption DEF ManagerInit
<1>2. QED
  BY <1>1, NoElements DEF ManagerInit, Init, Books, NoActorIsLost, StartedOnce, Registered, Spawned

\* The manager's steps keep its books.
LEMMA NextBooks ==
  ASSUME TypeOK, ManagerInv, Books, [ManagerNext]_vars
  PROVE  Books'
<1> USE DEF ManagerInv, ManagerTypeOK, Books, Registered, Spawned
<1>1. ASSUME NEW a \in Actors, NEW n \in Names, Manage(a, n) PROVE Books'
  <2>1. /\ at = "user" /\ pc[a] = "absent" /\ pc' = [pc EXCEPT ![a] = "new"]
        /\ registry' = [registry EXCEPT ![n] = a]
        /\ actor_refs' = Append(actor_refs, a) /\ runtimes' = Append(runtimes, a)
        /\ UNCHANGED <<at, threads, todo, announced, starts>>
    BY <1>1 DEF Manage, New
  <2>2. a \notin Elements(runtimes)
    BY <2>1 DEF NoActorIsLost
  <2>3. /\ Elements(actor_refs') = Elements(actor_refs) \cup {a}
        /\ Elements(runtimes') = Elements(runtimes) \cup {a}
        /\ NoRepeats(runtimes')
    BY <2>1, <2>2, AppendElements
  <2>4. pc'[a] = "new" /\ \A b \in Actors \ {a} : pc'[b] = pc[b]
    BY <2>1 DEF TypeOK
  <2>5. \A m \in Names : registry'[m] = registry[m] \/ registry'[m] = a
    BY <2>1
  <2>6. NoActorIsLost'
    <3>1. ASSUME NEW b \in Actors, b # a
          PROVE  /\ pc'[b] # "absent" <=> b \in Elements(actor_refs')
                 /\ \A m \in Names : registry'[m] = b => b \in Elements(actor_refs')
                 /\ pc'[b] = "new" <=> b \in Elements(runtimes')
                 /\ pc'[b] \notin {"absent", "new"} \cup Dead => b \in Elements(threads)
      BY <2>1, <2>3, <2>4, <2>5, <3>1 DEF NoActorIsLost
    <3>2. QED
      BY <2>1, <2>3, <2>4, <3>1 DEF NoActorIsLost
  <2>7. StartedOnce'
    BY <2>1, <2>4 DEF StartedOnce
  <2>8. QED
    BY <2>1, <2>3, <2>6, <2>7
<1>2. CASE InitEnter
  <2>1. /\ at = "user" /\ at' = "init" /\ todo' = runtimes /\ runtimes' = <<>>
        /\ UNCHANGED <<pc, registry, actor_refs, threads, announced, starts>>
    BY <1>2 DEF InitEnter, Enter, RuntimesAfterTake, runtimeVars
  <2>2. NoActorIsLost'
    BY <2>1, NoElements DEF NoActorIsLost
  <2>3. StartedOnce'
    BY <2>1 DEF StartedOnce
  <2>4. QED
    BY <2>1, <2>2, <2>3, NoElements
<1>3. CASE ShutdownEnter \/ RunEnter
  <2>1. /\ at = "user" /\ at' \in {"shutdown", "run"}
        /\ UNCHANGED <<pc, registry, actor_refs, runtimes, threads, announced, starts>>
    BY <1>3 DEF ShutdownEnter, RunEnter, Enter, runtimeVars
  <2>2. QED
    BY <2>1 DEF NoActorIsLost, StartedOnce
<1>4. CASE WaitEnter
  <2>1. /\ at = "user" /\ at' = "wait" /\ todo' = threads
        /\ UNCHANGED <<pc, registry, actor_refs, runtimes, announced, starts>>
    BY <1>4 DEF WaitEnter, Enter, ToJoin, runtimeVars
  <2>2. QED
    BY <2>1 DEF NoActorIsLost, StartedOnce
<1>5. CASE SendStart
  <2>1. /\ at = "init" /\ todo # <<>> /\ ~announced /\ announced'
        /\ starts' = [starts EXCEPT ![Head(todo)] = @ + 1]
        /\ UNCHANGED <<pc, at, registry, actor_refs, runtimes, threads, todo>>
    BY <1>5 DEF SendStart, Send
  <2>2. Head(todo) \in Actors /\ Head(todo) \in Elements(todo)
    BY <2>1, TailElements
  <2>3. pc[Head(todo)] = "new"
    BY <2>1, <2>2 DEF NoActorIsLost
  <2>4. StartedOnce'
    BY <2>1, <2>2, <2>3 DEF StartedOnce
  <2>5. QED
    BY <2>1, <2>4 DEF NoActorIsLost
<1>6. CASE SpawnThread
  <2> DEFINE a == Head(todo)
  <2>1. /\ at = "init" /\ todo # <<>> /\ announced /\ ~announced'
        /\ pc[a] = "new" /\ pc' = [pc EXCEPT ![a] = "init"]
        /\ threads' = Append(threads, a) /\ todo' = Tail(todo)
        /\ UNCHANGED <<at, registry, actor_refs, runtimes, starts>>
    BY <1>6 DEF SpawnThread, Spawn, ReadyToSpawn
  <2>2. /\ a \in Actors /\ Elements(todo) = {a} \cup Elements(todo')
        /\ NoRepeats(todo') /\ a \notin Elements(todo')
    BY <2>1, TailElements
  <2>3. Elements(threads') = Elements(threads) \cup {a}
    BY <2>1, <2>2, AppendElements
  <2>4. pc'[a] = "init" /\ \A b \in Actors \ {a} : pc'[b] = pc[b]
    BY <2>1, <2>2 DEF TypeOK
  <2>5. Elements(runtimes') = {}
    BY <2>1, NoElements
  <2>6. NoActorIsLost'
    <3>1. ASSUME NEW b \in Actors, b # a
          PROVE  /\ pc'[b] # "absent" <=> b \in Elements(actor_refs')
                 /\ \A m \in Names : registry'[m] = b => b \in Elements(actor_refs')
                 /\ pc'[b] = "new" <=> b \in Elements(todo')
                 /\ pc'[b] \notin {"absent", "new"} \cup Dead => b \in Elements(threads')
      BY <2>1, <2>2, <2>3, <2>4, <2>5, <3>1 DEF NoActorIsLost
    <3>2. a \in Elements(actor_refs') /\ a \in Elements(threads')
      BY <2>1, <2>2, <2>3 DEF NoActorIsLost
    <3>3. QED
      BY <2>1, <2>2, <2>4, <2>5, <3>1, <3>2 DEF NoActorIsLost
  <2>7. StartedOnce'
    BY <2>1, <2>2, <2>4 DEF StartedOnce
  <2>8. QED
    BY <2>1, <2>2, <2>6, <2>7
<1>7. CASE SendShutdown
  <2>1. /\ at = "shutdown"
        /\ UNCHANGED <<pc, at, registry, actor_refs, runtimes, threads, announced, starts>>
    BY <1>7 DEF SendShutdown, Send
  <2>2. QED
    BY <2>1 DEF NoActorIsLost, StartedOnce
<1>8. CASE Join
  <2>1. /\ at = "wait" /\ todo # <<>> /\ pc[Head(todo)] \in Dead /\ todo' = Tail(todo)
        /\ UNCHANGED <<pc, at, registry, actor_refs, runtimes, threads, announced, starts>>
    BY <1>8 DEF Join, Joinable, runtimeVars
  <2>2. Elements(todo) = {Head(todo)} \cup Elements(todo')
    BY <2>1, TailElements
  <2>3. QED
    BY <2>1, <2>2 DEF NoActorIsLost, StartedOnce
<1>9. CASE Return
  <2>1. /\ at # "user" /\ todo = <<>> /\ at' = "user"
        /\ UNCHANGED <<pc, registry, actor_refs, runtimes, threads, todo, announced, starts>>
    BY <1>9 DEF Return, runtimeVars
  <2>2. QED
    BY <2>1, NoElements DEF NoActorIsLost, StartedOnce
<1>10. ASSUME NEW p \in Procs, Terminate(p) PROVE Books'
  <2>1. UNCHANGED <<pc, at, registry, actor_refs, runtimes, threads, todo, announced, starts>>
    BY <1>10 DEF Terminate, runtimeVars
  <2>2. QED
    BY <2>1 DEF NoActorIsLost, StartedOnce
<1>11. CASE /\ UNCHANGED managerVars
            /\ \/ \E a \in Actors : ActorThread(a)
               \/ \E c \in Clients : ClientThread(c)
  BY <1>11, ThreadsStaySpawned, BooksStutter
<1>12. CASE MainSends
  <2>1. ClientThread(Main) /\ Main \in Clients
    BY <1>12, ManagerAssumption DEF MainSends, ClientThread, Sends
  <2>2. QED
    BY <1>12, <2>1, <1>11 DEF MainSends
<1>13. CASE UNCHANGED vars
  BY <1>13, BooksStutter DEF vars, runtimeVars
<1>14. QED
  BY <1>1, <1>2, <1>3, <1>4, <1>5, <1>6, <1>7, <1>8, <1>9, <1>10, <1>11, <1>12, <1>13
     DEF ManagerNext, InMethod

\* The books are right for ever.
LEMMA BooksHold == ManagerSpec => []Books
<1>1. ManagerSpec => []TypeOK
  BY ManagedActorsAreActors, TypeCorrect, PTL
<1>2. QED
  BY <1>1, InitManagerInv, NextManagerInv, InitBooks, NextBooks, PTL DEF ManagerSpec

\* No actor is lost between the manager's lists: each is registered, to be
\* spawned, or to be joined, as the place of its thread requires.
THEOREM ManagerLosesNobody == ManagerSpec => []NoActorIsLost
<1>1. Books => NoActorIsLost
  BY DEF Books
<1>2. QED
  BY <1>1, BooksHold, PTL

\* However often init() is called, it sends Start once to each actor, before it
\* spawns that actor's thread.
THEOREM ManagerStartsOnce == ManagerSpec => []StartedOnce
<1>1. Books => StartedOnce
  BY DEF Books
<1>2. QED
  BY <1>1, BooksHold, PTL
-----------------------------------------------------------------------------
(***************************************************************************)
(* Start.  Threads are spawned in the order of registration, so that an    *)
(* actor that has a thread was registered before one that has none.  From  *)
(* the moment a Start is queued until it is handled, it is in the mailbox, *)
(* once, and what comes later is behind it.                                *)
(***************************************************************************)
\* Before and MayPrecedeStart of a given list of registered actors.
Precedes(refs, a, b) ==
  \E i, j \in DOMAIN refs : i < j /\ refs[i] = a /\ refs[j] = b

Early(refs, e, b) == e.from \in Clients \/ Precedes(refs, e.from, b)

SpawnOrder ==
  /\ \A a, b \in Elements(actor_refs) : Spawned(a) /\ ~Spawned(b) => Precedes(actor_refs, a, b)
  /\ \A i, j \in DOMAIN runtimes : i < j => Precedes(actor_refs, runtimes[i], runtimes[j])
  /\ at = "init" => \A i, j \in DOMAIN todo : i < j => Precedes(actor_refs, todo[i], todo[j])

StartQueued(b) == \E i \in DOMAIN mailbox[b] : IsStart(mailbox[b][i])

OneStart(b) ==
  /\ \A i, j \in DOMAIN mailbox[b] : IsStart(mailbox[b][i]) /\ IsStart(mailbox[b][j]) => i = j
  /\ starts[b] = 0 => ~StartQueued(b)

StartHandled(b) == starts[b] > 0 /\ ~StartQueued(b)

\* Nothing that could not come first is in front of Start.
StartLeads(b) ==
  ~StartHandled(b) =>
    /\ pc[b] = "handle" => Early(actor_refs, current[b], b)
    /\ \A k \in DOMAIN mailbox[b] :
         (\A i \in DOMAIN mailbox[b] : i <= k => ~IsStart(mailbox[b][i]))
           => Early(actor_refs, mailbox[b][k], b)

StartInv == SpawnOrder /\ \A b \in Actors : OneStart(b) /\ StartLeads(b)

\* What may happen to the mailbox and the thread of b in a step of some thread.
StaysInHandler(b) == pc'[b] = "handle" => pc[b] = "handle" /\ current'[b] = current[b]

Receives(b, e) ==
  /\ Open(b) /\ mailbox'[b] = Append(mailbox[b], e) /\ StaysInHandler(b)
  /\ ~IsStart(e)
  /\ e.from \in Clients \/ (e.from \in Actors /\ Spawned(e.from))

BoxStep(b) ==
  \/ mailbox'[b] = mailbox[b] /\ StaysInHandler(b)
  \/ \E e \in Envelope : Receives(b, e)
  \/ mailbox[b] # <<>> /\ mailbox'[b] = Tail(mailbox[b]) /\ current'[b] = Head(mailbox[b])
  \/ mailbox'[b] = <<>> /\ pc'[b] # "handle"

\* Being registered before another is for ever.
BeforeKept == \A a, b \in Actors : Precedes(actor_refs, a, b) => Precedes(actor_refs', a, b)

LEMMA AppendIndices ==
  ASSUME NEW S, NEW s \in Seq(S), NEW x \in S
  PROVE  /\ Append(s, x) \in Seq(S)
         /\ DOMAIN Append(s, x) = DOMAIN s \cup {Len(s) + 1} /\ Len(s) + 1 \notin DOMAIN s
         /\ \A i \in DOMAIN s : i \in Nat /\ i < Len(s) + 1 /\ Append(s, x)[i] = s[i]
         /\ Append(s, x)[Len(s) + 1] = x /\ Len(s) \in Nat
OBVIOUS

LEMMA TailIndices ==
  ASSUME NEW S, NEW s \in Seq(S), s # <<>>
  PROVE  /\ Head(s) = s[1] /\ Head(s) \in S /\ 1 \in DOMAIN s /\ Tail(s) \in Seq(S)
         /\ \A i \in DOMAIN Tail(s) :
              i \in Nat /\ i + 1 \in DOMAIN s /\ 1 < i + 1 /\ Tail(s)[i] = s[i + 1]
         /\ \A j \in DOMAIN s : j \in Nat /\ (j # 1 => j - 1 \in DOMAIN Tail(s))
OBVIOUS

\* Registration only adds to the list.
LEMMA RegistrationIsKept ==
  ASSUME ManagerInv, [ManagerNext]_vars
  PROVE  /\ BeforeKept
         /\ actor_refs' = actor_refs \/ \E a \in Actors, n \in Names : Manage(a, n)
<1>1. actor_refs' = actor_refs \/ \E a \in Actors, n \in Names : Manage(a, n)
  BY DEF ManagerNext, InMethod, InitEnter, ShutdownEnter, WaitEnter, RunEnter, Enter,
         SendStart, SpawnThread, SendShutdown, Join, Return, MainSends, Terminate,
         vars, managerVars
<1>2. CASE actor_refs' = actor_refs
  BY <1>1, <1>2 DEF BeforeKept, Precedes
<1>3. ASSUME NEW a \in Actors, NEW n \in Names, Manage(a, n) PROVE BeforeKept
  <2>1. actor_refs' = Append(actor_refs, a) /\ actor_refs \in Seq(Actors)
    BY <1>3 DEF Manage, ManagerInv, ManagerTypeOK
  <2>2. \A i \in DOMAIN actor_refs : i \in DOMAIN actor_refs' /\ actor_refs'[i] = actor_refs[i]
    BY <2>1, AppendIndices
  <2>3. QED
    BY <2>2 DEF BeforeKept, Precedes
<1>4. QED
  BY <1>1, <1>2, <1>3

\* The mailbox of b in a step of the threads.
LEMMA SendsAreBoxSteps ==
  ASSUME TypeOK, NEW p \in Procs, p \in Actors => Spawned(p), NEW b \in Actors, NEW e \in Envelope,
         NEW c \in Actors, Deliver(c, e), ~IsStart(e), e.from = p, UNCHANGED <<pc, current>>
  PROVE  BoxStep(b)
<1>1. StaysInHandler(b)
  BY DEF StaysInHandler
<1>2. mailbox'[b] = IF b = c /\ Open(c) THEN Append(mailbox[b], e) ELSE mailbox[b]
  BY DEF Deliver, TypeOK
<1>3. e.from \in Clients \/ (e.from \in Actors /\ Spawned(e.from))
  OBVIOUS
<1>4. QED
  BY <1>1, <1>2, <1>3 DEF BoxStep, Receives

\* p sends messages that are not the Start of the manager.
LEMMA UserSendsAreBoxSteps ==
  ASSUME TypeOK, NEW p \in Procs, p \in Actors => Spawned(p), NEW b \in Actors,
         NEW K \in SUBSET (Kinds \ {"Reply"}), Sends(p, K), p = Main => "Start" \notin K
  PROVE  BoxStep(b)
<1>1. PICK c \in Actors, s \in Actors \cup {None} :
        (\E k \in K : Send(p, c, k, s)) \/ FastSend(p, c, s)
  BY SendersAreReferences DEF Sends
<1>2. ASSUME NEW k \in K, Send(p, c, k, s) PROVE BoxStep(b)
  <2> DEFINE e == NewEnvelope(k, p, sent[p] + 1, s)
  <2>1. e \in Envelope
    BY DEF TypeOK, NewEnvelope, Envelope, Kinds
  <2>2. e.from = p /\ e.msg = k
    BY DEF NewEnvelope
  <2>3. ~IsStart(e)
    BY <2>2 DEF IsStart
  <2>4. Deliver(c, e) /\ UNCHANGED <<pc, current>>
    BY <1>2 DEF Send
  <2> HIDE DEF e
  <2>5. QED
    BY <2>1, <2>2, <2>3, <2>4, SendsAreBoxSteps
<1>3. CASE FastSend(p, c, s)
  <2> DEFINE e == NewSyncEnvelope("User", p, sent[p] + 1, s)
  <2>1. e \in Envelope
    BY DEF TypeOK, NewSyncEnvelope, Envelope, Kinds
  <2>2. e.from = p /\ ~IsStart(e)
    BY DEF NewSyncEnvelope, IsStart
  <2>3. Deliver(c, e) /\ UNCHANGED <<pc, current>>
    BY <1>3 DEF FastSend
  <2> HIDE DEF e
  <2>4. QED
    BY <2>1, <2>2, <2>3, SendsAreBoxSteps
<1>4. QED
  BY <1>1, <1>2, <1>3

LEMMA ThreadsAreBoxSteps ==
  ASSUME TypeOK, NEW b \in Actors,
         \/ \E a \in Actors : ActorThread(a)
         \/ \E c \in Clients \ {Main} : ClientThread(c)
         \/ Sends(Main, {"User"}) \/ FastSendReturns(Main)
  PROVE  BoxStep(b)
<1> USE DEF TypeOK
<1>1. ASSUME NEW p \in Procs, FastSendReturns(p) PROVE BoxStep(b)
  BY <1>1 DEF FastSendReturns, BoxStep, StaysInHandler
<1>2. ASSUME NEW c \in Clients \ {Main}, Sends(c, ClientKinds) PROVE BoxStep(b)
  <2>1. c \notin Actors /\ ClientKinds \in SUBSET (Kinds \ {"Reply"})
    BY NamesAssumption, RuntimeAssumption
  <2>2. QED
    BY <1>2, <2>1, UserSendsAreBoxSteps
<1>3. CASE Sends(Main, {"User"})
  <2>1. Main \notin Actors /\ Main \in Procs /\ {"User"} \in SUBSET (Kinds \ {"Reply"})
    BY NamesAssumption, ManagerAssumption DEF Kinds
  <2>2. QED
    BY <1>3, <2>1, UserSendsAreBoxSteps
<1>4. ASSUME NEW a \in Actors, Sends(a, {"User"}) PROVE BoxStep(b)
  <2>1. Spawned(a) /\ {"User"} \in SUBSET (Kinds \ {"Reply"})
    BY <1>4 DEF Sends, Send, FastSend, Runs, UserCode, Spawned, Kinds
  <2>2. QED
    BY <1>4, <2>1, UserSendsAreBoxSteps
<1>5. ASSUME NEW a \in Actors, ReplyToSender(a) PROVE BoxStep(b)
  <2> DEFINE e == NewEnvelope("Reply", a, sent[a] + 1, a)
             c == context[a].sender
  <2>1. e \in Envelope
    BY DEF NewEnvelope, Envelope, Kinds
  <2>2. e.from = a /\ ~IsStart(e)
    BY DEF NewEnvelope, IsStart
  <2>3. c \in Actors /\ Spawned(a) /\ Deliver(c, e) /\ UNCHANGED <<pc, current>>
    BY <1>5 DEF ReplyToSender, Context, Spawned
  <2> HIDE DEF e, c
  <2>4. QED
    BY <2>1, <2>2, <2>3, SendsAreBoxSteps
<1>6. ASSUME NEW a \in Actors,
             \/ InitReturns(a) \/ CheckRunning(a) \/ ReplyOnChannel(a) \/ HandlerReturns(a)
      PROVE  BoxStep(b)
  <2>1. mailbox'[b] = mailbox[b]
    BY <1>6 DEF InitReturns, CheckRunning, ReplyOnChannel, HandlerReturns
  <2>2. pc'[b] = "handle" => pc[b] = "handle" /\ current'[b] = current[b]
    BY <1>6 DEF InitReturns, CheckRunning, AfterCheck, ReplyOnChannel, HandlerReturns, PC, UserCode
  <2>3. QED
    BY <2>1, <2>2 DEF BoxStep, StaysInHandler
<1>7. ASSUME NEW a \in Actors, Dispatch(a) PROVE BoxStep(b)
  <2>1. CASE b = a
    BY <1>7, <2>1 DEF Dispatch, BoxStep
  <2>2. CASE b # a
    BY <1>7, <2>2 DEF Dispatch, BoxStep, StaysInHandler
  <2>3. QED
    BY <2>1, <2>2
<1>8. ASSUME NEW a \in Actors, EndReturns(a) \/ Panic(a) PROVE BoxStep(b)
  <2>1. CASE b = a
    BY <1>8, <2>1 DEF EndReturns, Panic, DropRuntime, BoxStep
  <2>2. CASE b # a
    BY <1>8, <2>2 DEF EndReturns, Panic, DropRuntime, BoxStep, StaysInHandler
  <2>3. QED
    BY <2>1, <2>2
<1>9. ASSUME NEW a \in Actors, ActorThread(a) PROVE BoxStep(b)
  BY <1>9, <1>1, <1>4, <1>5, <1>6, <1>7, <1>8 DEF ActorThread
<1>10. ASSUME NEW c \in Clients \ {Main}, ClientThread(c) PROVE BoxStep(b)
  BY <1>10, <1>1, <1>2 DEF ClientThread
<1>11. Main \in Procs
  BY ManagerAssumption
<1>12. QED
  BY <1>1, <1>3, <1>9, <1>10, <1>11

\* Who has a thread may write to whoever has none: it was registered before.
LEMMA SpawnedMayPrecede ==
  ASSUME NoActorIsLost, SpawnOrder, NEW a \in Actors, NEW b \in Actors,
         Spawned(a), ~Spawned(b), Open(b)
  PROVE  Precedes(actor_refs, a, b)
<1>1. pc[a] # "absent" /\ pc[b] # "absent"
  BY DEF Spawned, Open
<1>2. a \in Elements(actor_refs) /\ b \in Elements(actor_refs)
  BY <1>1 DEF NoActorIsLost, Registered
<1>3. QED
  BY <1>2 DEF SpawnOrder

\* A step of the threads leaves Start in front.
LEMMA BoxStepKeepsStart ==
  ASSUME TypeOK, Books, SpawnOrder, BeforeKept, NEW b \in Actors, OneStart(b), StartLeads(b),
         BoxStep(b), starts'[b] = starts[b]
  PROVE  OneStart(b)' /\ StartLeads(b)'
<1> DEFINE box == mailbox[b]
<1>1. box \in Seq(Envelope) /\ starts[b] \in {0, 1} /\ (starts[b] = 0 => ~Spawned(b))
  BY DEF TypeOK, Books, StartedOnce
<1>2. \A e \in Envelope : Early(actor_refs, e, b) => Early(actor_refs', e, b)
  BY DEF Early, BeforeKept, Envelope
<1>3. \A i \in DOMAIN box : box[i] \in Envelope
  BY <1>1
<1>4. pc[b] = "handle" => current[b] \in Envelope
  BY DEF TypeOK
<1>5. CASE mailbox'[b] = mailbox[b] /\ StaysInHandler(b)
  <2>1. OneStart(b)'
    BY <1>5 DEF OneStart, StartQueued
  <2>2. StartHandled(b)' <=> StartHandled(b)
    BY <1>5 DEF StartHandled, StartQueued
  <2>3. StartLeads(b)'
    <3>1. ASSUME ~StartHandled(b)', pc'[b] = "handle" PROVE Early(actor_refs', current'[b], b)
      <4>1. pc[b] = "handle" /\ current'[b] = current[b]
        BY <1>5, <3>1 DEF StaysInHandler
      <4>2. Early(actor_refs, current[b], b) /\ current[b] \in Envelope
        BY <1>4, <2>2, <3>1, <4>1 DEF StartLeads
      <4>3. QED
        BY <1>2, <4>1, <4>2
    <3>2. ASSUME ~StartHandled(b)', NEW k \in DOMAIN box,
                 \A i \in DOMAIN box : i <= k => ~IsStart(box[i])
          PROVE  Early(actor_refs', box[k], b)
      BY <1>2, <1>3, <2>2, <3>2 DEF StartLeads
    <3>3. QED
      BY <1>5, <3>1, <3>2 DEF StartLeads, Early
  <2>4. QED
    BY <2>1, <2>3
<1>6. ASSUME NEW e \in Envelope, Receives(b, e) PROVE OneStart(b)' /\ StartLeads(b)'
  <2> DEFINE n == Len(box) + 1
             now == mailbox'[b]
  <2>1. /\ DOMAIN now = DOMAIN box \cup {n} /\ n \notin DOMAIN box
        /\ \A i \in DOMAIN box : i \in Nat /\ i < n /\ now[i] = box[i]
        /\ now[n] = e /\ n \in Nat
    BY <1>1, <1>6, AppendIndices DEF Receives
  <2>2. ~IsStart(e)
    BY <1>6 DEF Receives
  <2> HIDE DEF n, now, box
  <2>3. OneStart(b)'
    BY <2>1, <2>2 DEF OneStart, StartQueued, now, box
  <2>4. StartHandled(b)' <=> StartHandled(b)
    BY <2>1, <2>2 DEF StartHandled, StartQueued, now, box
  <2>5. ASSUME ~StartHandled(b)', pc'[b] = "handle" PROVE Early(actor_refs', current'[b], b)
    <3>1. pc[b] = "handle" /\ current'[b] = current[b]
      BY <1>6, <2>5 DEF Receives, StaysInHandler
    <3>2. Early(actor_refs, current[b], b) /\ current[b] \in Envelope
      BY <1>4, <2>4, <2>5, <3>1 DEF StartLeads
    <3>3. QED
      BY <1>2, <3>1, <3>2
  <2>6. ASSUME ~StartHandled(b)', NEW k \in DOMAIN now,
               \A i \in DOMAIN now : i <= k => ~IsStart(now[i])
        PROVE  Early(actor_refs', now[k], b)
    <3>1. CASE k \in DOMAIN box
      <4>1. \A i \in DOMAIN box : i <= k => ~IsStart(box[i])
        BY <2>1, <2>6
      <4>2. Early(actor_refs, box[k], b) /\ box[k] \in Envelope /\ now[k] = box[k]
        BY <1>3, <2>1, <2>4, <2>6, <3>1, <4>1 DEF StartLeads, box
      <4>3. QED
        BY <1>2, <4>2
    <3>2. CASE k = n
      <4>1. \A i \in DOMAIN box : ~IsStart(box[i])
        <5>1. \A i \in DOMAIN box : i \in DOMAIN now /\ i <= k /\ now[i] = box[i]
          BY <2>1, <3>2
        <5>2. QED
          BY <2>6, <5>1
      <4>2. starts[b] = 0
        BY <1>1, <2>4, <2>6, <4>1 DEF StartHandled, StartQueued, box
      <4>3. CASE e.from \in Clients
        BY <2>1, <3>2, <4>3 DEF Early
      <4>4. CASE e.from \in Actors /\ Spawned(e.from)
        <5>1. Precedes(actor_refs, e.from, b)
          BY <1>1, <1>6, <4>2, <4>4, SpawnedMayPrecede DEF Receives, Books
        <5>2. QED
          BY <2>1, <3>2, <4>4, <5>1 DEF Early, BeforeKept
      <4>5. QED
        BY <1>6, <4>3, <4>4 DEF Receives
    <3>3. QED
      BY <2>1, <3>1, <3>2
  <2>7. QED
    BY <2>3, <2>5, <2>6 DEF StartLeads, Early, now
<1>7. CASE /\ mailbox[b] # <<>> /\ mailbox'[b] = Tail(mailbox[b])
           /\ current'[b] = Head(mailbox[b])
  <2> DEFINE now == mailbox'[b]
  <2>1. /\ current'[b] = box[1] /\ box[1] \in Envelope /\ 1 \in DOMAIN box
        /\ \A i \in DOMAIN now :
             i \in Nat /\ i + 1 \in DOMAIN box /\ 1 < i + 1 /\ now[i] = box[i + 1]
        /\ \A j \in DOMAIN box : j \in Nat /\ (j # 1 => j - 1 \in DOMAIN now)
    BY <1>1, <1>7, TailIndices
  <2> HIDE DEF now, box
  <2>2. \A j \in DOMAIN box : j # 1 => now[j - 1] = box[j]
    BY <2>1
  <2>3. StartQueued(b)' => StartQueued(b)
    BY <2>1 DEF StartQueued, now, box
  <2>4. OneStart(b)'
    <3>1. ASSUME NEW i \in DOMAIN now, NEW j \in DOMAIN now, IsStart(now[i]), IsStart(now[j])
          PROVE  i = j
      <4>1. i + 1 = j + 1
        BY <2>1, <3>1 DEF OneStart, box
      <4>2. QED
        BY <2>1, <4>1
    <3>2. QED
      BY <2>3, <3>1 DEF OneStart, now
  <2>5. ASSUME IsStart(box[1]) PROVE StartHandled(b)'
    <3>1. starts[b] = 1
      BY <1>1, <2>1, <2>5 DEF OneStart, StartQueued, box
    <3>2. \A i \in DOMAIN now : ~IsStart(now[i])
      <4>1. ASSUME NEW i \in DOMAIN now, IsStart(now[i]) PROVE FALSE
        <5>1. i + 1 = 1 /\ i \in Nat /\ 1 < i + 1
          BY <2>1, <2>5, <4>1 DEF OneStart, box
        <5>2. QED
          BY <5>1
      <4>2. QED
        BY <4>1
    <3>3. QED
      BY <3>1, <3>2 DEF StartHandled, StartQueued, now
  <2>6. ASSUME ~StartHandled(b)' PROVE ~StartHandled(b)
    <3>1. ~IsStart(box[1])
      BY <2>5, <2>6
    <3>2. \A j \in DOMAIN box : IsStart(box[j]) => j - 1 \in DOMAIN now /\ IsStart(now[j - 1])
      BY <2>1, <2>2, <3>1
    <3>3. QED
      BY <2>3, <2>6, <3>2 DEF StartHandled, StartQueued, now, box
  <2>7. ASSUME ~StartHandled(b)' PROVE Early(actor_refs', current'[b], b)
    <3>1. ~IsStart(box[1]) /\ ~StartHandled(b)
      BY <2>5, <2>6, <2>7
    <3>2. \A i \in DOMAIN box : i <= 1 => i = 1
      <4>1. \A i \in DOMAIN box : i \in Nat /\ i >= 1
        BY <1>1 DEF box
      <4>2. QED
        BY <4>1
    <3>3. Early(actor_refs, box[1], b)
      BY <2>1, <3>1, <3>2 DEF StartLeads, box
    <3>4. QED
      BY <1>2, <2>1, <3>3
  <2>8. ASSUME ~StartHandled(b)', NEW k \in DOMAIN now,
               \A i \in DOMAIN now : i <= k => ~IsStart(now[i])
        PROVE  Early(actor_refs', now[k], b)
    <3>1. ~IsStart(box[1]) /\ ~StartHandled(b)
      BY <2>5, <2>6, <2>8
    <3>2. k \in Nat /\ k + 1 \in DOMAIN box /\ now[k] = box[k + 1] /\ box[k + 1] \in Envelope
      BY <1>3, <2>1
    <3>3. ASSUME NEW j \in DOMAIN box, j <= k + 1 PROVE ~IsStart(box[j])
      <4>1. CASE j = 1
        BY <3>1, <4>1
      <4>2. CASE j # 1
        <5>1. j \in Nat /\ j - 1 \in DOMAIN now /\ now[j - 1] = box[j]
          BY <2>1, <2>2, <4>2
        <5>2. j - 1 <= k
          BY <3>2, <3>3, <5>1
        <5>3. QED
          BY <2>8, <5>1, <5>2
      <4>3. QED
        BY <4>1, <4>2
    <3>4. Early(actor_refs, box[k + 1], b)
      BY <3>1, <3>2, <3>3 DEF StartLeads, box
    <3>5. QED
      BY <1>2, <3>2, <3>4
  <2>9. QED
    BY <2>4, <2>7, <2>8 DEF StartLeads, Early, now
<1>8. CASE mailbox'[b] = <<>> /\ pc'[b] # "handle"
  BY <1>8 DEF OneStart, StartLeads, StartQueued
<1>9. QED
  BY <1>5, <1>6, <1>7, <1>8 DEF BoxStep

\* init() sends Start to an actor whose mailbox holds what came before.
LEMMA SendStartKeepsStart ==
  ASSUME TypeOK, ManagerInv, Books, BeforeKept, SendStart,
         \A b \in Actors : OneStart(b) /\ StartLeads(b)
  PROVE  \A b \in Actors : OneStart(b)' /\ StartLeads(b)'
<1>0. PICK h \in Actors : h = Head(todo) /\ todo # <<>> /\ h \in Elements(todo)
  BY TailElements DEF ManagerInv, ManagerTypeOK, SendStart
<1> DEFINE e == NewEnvelope("Start", Main, sent[Main] + 1, None)
           box == mailbox[h]
           n == Len(box) + 1
<1>1. /\ at = "init" /\ todo # <<>> /\ ~announced /\ Deliver(h, e)
      /\ starts' = [starts EXCEPT ![h] = @ + 1]
      /\ UNCHANGED <<pc, current>>
  BY <1>0 DEF SendStart, Send
<1>2. h \in Elements(todo)
  BY <1>0
<1>3. pc[h] = "new"
  BY <1>1, <1>2 DEF Books, NoActorIsLost
<1>4. starts[h] = 0 /\ starts'[h] = 1 /\ \A b \in Actors \ {h} : starts'[b] = starts[b]
  <2>1. starts[h] = 0
    BY <1>1, <1>2, <1>3 DEF Books, StartedOnce, Spawned
  <2>2. starts \in [Actors -> Nat]
    BY DEF ManagerInv, ManagerTypeOK
  <2>3. QED
    BY <1>1, <1>2, <2>1, <2>2
<1>5. e \in Envelope /\ IsStart(e) /\ e.from \in Clients
  BY ManagerAssumption DEF TypeOK, NewEnvelope, Envelope, Kinds, IsStart
<1> HIDE DEF e
<1>6. Open(h)
  BY <1>3 DEF Open, Dead
<1>7. mailbox'[h] = Append(box, e) /\ box \in Seq(Envelope)
  BY <1>1, <1>2, <1>6 DEF Deliver, TypeOK
<1>8. ASSUME NEW b \in Actors \ {h} PROVE OneStart(b)' /\ StartLeads(b)'
  <2>1. UNCHANGED <<mailbox[b], starts[b]>>
    BY <1>1, <1>2, <1>4 DEF Deliver, TypeOK
  <2>2. OneStart(b)' /\ (StartHandled(b)' <=> StartHandled(b))
    BY <2>1 DEF OneStart, StartHandled, StartQueued
  <2>3. pc[b] = "handle" => current[b] \in Envelope
    BY DEF TypeOK
  <2>4. \A k \in DOMAIN mailbox[b] : mailbox[b][k] \in Envelope
    BY DEF TypeOK
  <2>5. \A d \in Envelope : Early(actor_refs, d, b) => d.from \in Clients \/ Precedes(actor_refs', d.from, b)
    BY DEF Early, BeforeKept, Envelope
  <2>6. ASSUME ~StartHandled(b), NEW k \in DOMAIN mailbox[b],
               \A i \in DOMAIN mailbox[b] : i <= k => ~IsStart(mailbox[b][i])
        PROVE  mailbox[b][k].from \in Clients \/ Precedes(actor_refs', mailbox[b][k].from, b)
    BY <2>4, <2>5, <2>6 DEF StartLeads
  <2>7. StartLeads(b)'
    BY <1>1, <2>1, <2>2, <2>3, <2>5, <2>6 DEF StartLeads, Early
  <2>8. QED
    BY <2>2, <2>7
<1>9. /\ DOMAIN mailbox'[h] = DOMAIN box \cup {n} /\ n \notin DOMAIN box
      /\ \A i \in DOMAIN box : i \in Nat /\ i < n /\ mailbox'[h][i] = box[i] /\ box[i] \in Envelope
      /\ mailbox'[h][n] = e /\ n \in Nat
  BY <1>5, <1>7, AppendIndices
<1> HIDE DEF box, n
<1>10. \A i \in DOMAIN box : ~IsStart(box[i])
  BY <1>2, <1>4 DEF OneStart, StartQueued, box
<1>11. OneStart(h)'
  BY <1>4, <1>9, <1>10 DEF OneStart
<1>12. StartLeads(h)'
  <2>1. ~StartHandled(h)
    BY <1>4 DEF StartHandled
  <2>2. ASSUME NEW k \in DOMAIN mailbox'[h]
        PROVE  mailbox'[h][k].from \in Clients \/ Precedes(actor_refs', mailbox'[h][k].from, h)
    <3>1. CASE k \in DOMAIN box
      <4>1. Early(actor_refs, box[k], h)
        BY <1>2, <1>10, <2>1, <3>1 DEF StartLeads, box
      <4>2. QED
        BY <1>2, <1>9, <3>1, <4>1 DEF Early, BeforeKept, Envelope
    <3>2. CASE k = n
      BY <1>5, <1>9, <3>2
    <3>3. QED
      BY <1>9, <3>1, <3>2
  <2>3. pc'[h] # "handle"
    BY <1>1, <1>3
  <2>4. QED
    BY <2>2, <2>3 DEF StartLeads, Early
<1>13. QED
  BY <1>2, <1>8, <1>11, <1>12

\* Threads go on being spawned in the order of registration.
LEMMA NextSpawnOrder ==
  ASSUME TypeOK, ManagerInv, Books, SpawnOrder, BeforeKept, [ManagerNext]_vars
  PROVE  SpawnOrder'
<1> USE DEF ManagerInv, ManagerTypeOK, Spawned
<1>1. ASSUME UNCHANGED <<actor_refs, runtimes>>, at' = "init" => at = "init" /\ todo' = todo,
             \A b \in Actors : /\ pc'[b] = "absent" <=> pc[b] = "absent"
                               /\ pc'[b] = "new" <=> pc[b] = "new"
      PROVE  SpawnOrder'
  <2>1. \A b \in Elements(actor_refs) : Spawned(b)' <=> Spawned(b)
    BY <1>1 DEF Elements
  <2>2. QED
    BY <1>1, <2>1 DEF SpawnOrder
<1>2. ASSUME NEW a \in Actors, NEW n \in Names, Manage(a, n) PROVE SpawnOrder'
  <2> DEFINE refs == actor_refs
             now  == actor_refs'
             m    == Len(refs) + 1
             l    == Len(runtimes) + 1
  <2>1. /\ at = "user" /\ at' = "user" /\ pc[a] = "absent" /\ pc' = [pc EXCEPT ![a] = "new"]
        /\ actor_refs' = Append(actor_refs, a) /\ runtimes' = Append(runtimes, a)
    BY <1>2 DEF Manage, New
  <2>2. /\ DOMAIN now = DOMAIN refs \cup {m}
        /\ \A i \in DOMAIN refs : i < m /\ now[i] = refs[i]
        /\ now[m] = a
    BY <2>1, AppendIndices
  <2>3. /\ DOMAIN runtimes' = DOMAIN runtimes \cup {l} /\ l \in Nat
        /\ \A i \in DOMAIN runtimes : i \in Nat /\ i < l /\ runtimes'[i] = runtimes[i]
        /\ runtimes'[l] = a
    BY <2>1, AppendIndices
  <2>4. pc'[a] = "new" /\ \A b \in Actors \ {a} : pc'[b] = pc[b]
    BY <2>1 DEF TypeOK
  <2> HIDE DEF refs, now, m, l
  <2>5. \A b \in Elements(refs) : b \in Actors /\ Precedes(now, b, a)
    BY <2>2 DEF Elements, Precedes, refs
  <2>6. Elements(now) = Elements(refs) \cup {a}
    BY <2>2 DEF Elements
  <2>7. ASSUME NEW b \in Elements(now), NEW c \in Elements(now), Spawned(b)', ~Spawned(c)'
        PROVE  Precedes(now, b, c)
    <3>1. b \in Elements(refs) /\ b # a /\ b \in Actors /\ Spawned(b)
      BY <2>4, <2>5, <2>6, <2>7
    <3>2. CASE c = a
      BY <2>5, <3>1, <3>2
    <3>3. CASE c # a
      <4>1. c \in Elements(refs) /\ c \in Actors /\ ~Spawned(c)
        BY <2>4, <2>5, <2>6, <2>7, <3>3
      <4>2. QED
        BY <3>1, <4>1 DEF SpawnOrder, BeforeKept, refs, now
    <3>4. QED
      BY <3>2, <3>3
  <2>8. \A i \in DOMAIN runtimes : runtimes[i] \in Actors /\ runtimes[i] \in Elements(refs)
    <3>1. \A i \in DOMAIN runtimes : runtimes[i] \in Actors /\ runtimes[i] \in Elements(runtimes)
      BY DEF Elements
    <3>2. QED
      BY <3>1 DEF Books, NoActorIsLost, Registered, refs
  <2>9. ASSUME NEW i \in DOMAIN runtimes', NEW j \in DOMAIN runtimes', i < j
        PROVE  Precedes(now, runtimes'[i], runtimes'[j])
    <3>1. i \in DOMAIN runtimes
      BY <2>3, <2>9
    <3>2. CASE j = l
      BY <2>3, <2>5, <2>8, <3>1, <3>2
    <3>3. CASE j \in DOMAIN runtimes
      BY <2>3, <2>8, <2>9, <3>1, <3>3 DEF SpawnOrder, BeforeKept, now
    <3>4. QED
      BY <2>3, <3>2, <3>3
  <2>10. QED
    BY <2>1, <2>7, <2>9 DEF SpawnOrder, now
<1>3. CASE InitEnter
  <2>1. /\ at' = "init" /\ todo' = runtimes /\ runtimes' = <<>>
        /\ UNCHANGED <<pc, actor_refs>>
    BY <1>3 DEF InitEnter, Enter, RuntimesAfterTake, runtimeVars
  <2>2. QED
    BY <2>1 DEF SpawnOrder
<1>4. CASE SpawnThread
  <2> DEFINE a == Head(todo)
  <2>1. /\ at = "init" /\ todo # <<>> /\ pc' = [pc EXCEPT ![a] = "init"]
        /\ todo' = Tail(todo) /\ UNCHANGED <<at, actor_refs, runtimes>>
    BY <1>4 DEF SpawnThread, Spawn
  <2>2. /\ a = todo[1] /\ a \in Actors /\ 1 \in DOMAIN todo
        /\ \A i \in DOMAIN todo' :
             i \in Nat /\ i + 1 \in DOMAIN todo /\ 1 < i + 1 /\ todo'[i] = todo[i + 1]
        /\ \A j \in DOMAIN todo : j \in Nat /\ (j # 1 => j - 1 \in DOMAIN todo')
    BY <2>1, TailIndices
  <2>3. pc'[a] = "init" /\ \A b \in Actors \ {a} : pc'[b] = pc[b]
    BY <2>1, <2>2 DEF TypeOK
  <2> HIDE DEF a
  <2>4. ASSUME NEW b \in Elements(actor_refs), NEW c \in Elements(actor_refs),
               Spawned(b)', ~Spawned(c)'
        PROVE  Precedes(actor_refs, b, c)
    <3>1. b \in Actors /\ c \in Actors
      BY DEF Elements
    <3>2. c # a /\ ~Spawned(c)
      BY <2>3, <2>4, <3>1
    <3>3. CASE b # a
      <4>1. Spawned(b)
        BY <2>3, <2>4, <3>1, <3>3
      <4>2. QED
        BY <3>2, <4>1 DEF SpawnOrder
    <3>4. CASE b = a
      <4>1. pc[c] = "new"
        BY <3>1, <3>2 DEF Books, NoActorIsLost, Registered
      <4>2. c \in Elements(todo)
        BY <2>1, <3>1, <4>1, NoElements DEF Books, NoActorIsLost
      <4>3. PICK j \in DOMAIN todo : todo[j] = c
        BY <4>2 DEF Elements
      <4>4. j # 1 /\ j \in Nat /\ j >= 1
        BY <2>2, <3>2, <4>3
      <4>5. Precedes(actor_refs, todo[1], todo[j])
        BY <2>1, <2>2, <4>4 DEF SpawnOrder
      <4>6. QED
        BY <2>2, <3>4, <4>3, <4>5
    <3>5. QED
      BY <3>3, <3>4
  <2>5. ASSUME NEW i \in DOMAIN todo', NEW j \in DOMAIN todo', i < j
        PROVE  Precedes(actor_refs, todo'[i], todo'[j])
    <3>1. /\ i + 1 \in DOMAIN todo /\ j + 1 \in DOMAIN todo /\ i + 1 < j + 1
          /\ todo'[i] = todo[i + 1] /\ todo'[j] = todo[j + 1]
      BY <2>2, <2>5
    <3>2. QED
      BY <2>1, <3>1 DEF SpawnOrder
  <2>6. QED
    BY <2>1, <2>4, <2>5 DEF SpawnOrder
<1>5. CASE ShutdownEnter \/ WaitEnter \/ RunEnter
  BY <1>1, <1>5 DEF ShutdownEnter, WaitEnter, RunEnter, Enter, runtimeVars
<1>6. CASE SendStart \/ SendShutdown
  BY <1>1, <1>6 DEF SendStart, SendShutdown, Send
<1>7. CASE Join \/ Return \/ \E p \in Procs : Terminate(p)
  BY <1>1, <1>7 DEF Join, Return, Terminate, runtimeVars
<1>8. CASE /\ UNCHANGED managerVars
           /\ \/ \E a \in Actors : ActorThread(a)
              \/ \E c \in Clients : ClientThread(c)
  BY <1>1, <1>8, ThreadsStaySpawned DEF managerVars
<1>9. CASE MainSends
  <2>1. ClientThread(Main) /\ Main \in Clients
    BY <1>9, ManagerAssumption DEF MainSends, ClientThread, Sends
  <2>2. QED
    BY <1>8, <1>9, <2>1 DEF MainSends
<1>10. CASE UNCHANGED vars
  BY <1>1, <1>10 DEF vars, runtimeVars, managerVars
<1>11. QED
  BY <1>2, <1>3, <1>4, <1>5, <1>6, <1>7, <1>8, <1>9, <1>10 DEF ManagerNext, InMethod

\* Before the first actor is registered there is no Start and no order.
LEMMA InitStartInv == ManagerInit => StartInv
<1> SUFFICES ASSUME ManagerInit PROVE StartInv
  OBVIOUS
<1>1. SpawnOrder
  BY NoElements DEF ManagerInit, Init, SpawnOrder
<1>2. ASSUME NEW b \in Actors PROVE OneStart(b) /\ StartLeads(b)
  <2>1. mailbox[b] = <<>> /\ starts[b] = 0 /\ pc[b] = "absent"
    BY DEF ManagerInit, Init
  <2>2. QED
    BY <2>1 DEF OneStart, StartLeads, StartQueued
<1>3. QED
  BY <1>1, <1>2 DEF StartInv

\* Every step leaves Start in front.
LEMMA NextStartInv ==
  ASSUME TypeOK, ManagerInv, Books, StartInv, [ManagerNext]_vars
  PROVE  StartInv'
<1>1. BeforeKept /\ SpawnOrder'
  BY RegistrationIsKept, NextSpawnOrder DEF StartInv
<1>2. CASE SendStart
  <2>1. \A b \in Actors : OneStart(b)' /\ StartLeads(b)'
    BY <1>1, <1>2, SendStartKeepsStart DEF StartInv
  <2>2. QED
    BY <1>1, <2>1 DEF StartInv
<1>3. ASSUME \A b \in Actors : BoxStep(b) /\ starts'[b] = starts[b] PROVE StartInv'
  <2>1. \A b \in Actors : OneStart(b)' /\ StartLeads(b)'
    BY <1>1, <1>3, BoxStepKeepsStart DEF StartInv
  <2>2. QED
    BY <1>1, <2>1 DEF StartInv
<1>4. ASSUME UNCHANGED <<mailbox, current, starts>>,
             \A b \in Actors : pc'[b] = "handle" => pc[b] = "handle"
      PROVE  StartInv'
  BY <1>3, <1>4 DEF BoxStep, StaysInHandler
<1>5. ASSUME NEW a \in Actors, NEW n \in Names, Manage(a, n) PROVE StartInv'
  BY <1>4, <1>5 DEF Manage, New, TypeOK
<1>6. CASE SpawnThread
  <2>1. Head(todo) \in Actors
    BY <1>6, TailElements DEF ManagerInv, ManagerTypeOK, SpawnThread
  <2>2. QED
    BY <1>4, <1>6, <2>1 DEF SpawnThread, Spawn, TypeOK
<1>7. CASE InitEnter \/ ShutdownEnter \/ WaitEnter \/ RunEnter
  BY <1>4, <1>7 DEF InitEnter, ShutdownEnter, WaitEnter, RunEnter, Enter, runtimeVars
<1>8. CASE SendShutdown
  <2> DEFINE e == NewEnvelope("Shutdown", Main, sent[Main] + 1, None)
  <2>1. PICK h \in Actors : h = Head(todo)
    BY <1>8, TailElements DEF SendShutdown, ManagerInv, ManagerTypeOK
  <2>2. Deliver(h, e) /\ UNCHANGED <<pc, current, starts>>
    BY <1>8, <2>1 DEF SendShutdown, Send
  <2>3. e \in Envelope /\ e.from = Main /\ ~IsStart(e)
    BY ManagerAssumption DEF TypeOK, NewEnvelope, Envelope, Kinds, IsStart
  <2>4. Main \in Procs /\ Main \notin Actors
    BY NamesAssumption, ManagerAssumption
  <2> HIDE DEF e
  <2>5. ASSUME NEW b \in Actors PROVE BoxStep(b)
    BY <2>2, <2>3, <2>4, SendsAreBoxSteps
  <2>6. QED
    BY <1>3, <2>2, <2>5
<1>9. CASE Join \/ Return \/ \E p \in Procs : Terminate(p)
  BY <1>4, <1>9 DEF Join, Return, Terminate, runtimeVars
<1>10. CASE /\ UNCHANGED managerVars
            /\ \/ \E a \in Actors : ActorThread(a)
               \/ \E c \in Clients \ {Main} : ClientThread(c)
               \/ Sends(Main, {"User"}) \/ FastSendReturns(Main)
  <2>1. \A b \in Actors : BoxStep(b)
    BY <1>10, ThreadsAreBoxSteps
  <2>2. QED
    BY <1>3, <1>10, <2>1 DEF managerVars
<1>11. CASE UNCHANGED vars
  BY <1>4, <1>11 DEF vars, runtimeVars, managerVars
<1>12. QED
  BY <1>2, <1>5, <1>6, <1>7, <1>8, <1>9, <1>10, <1>11 DEF ManagerNext, InMethod, MainSends

\* StartInv, and what it leans on, for ever.
LEMMA StartHolds == ManagerSpec => [](TypeOK /\ StartInv)
<1>1. ManagerSpec => []TypeOK
  BY ManagedActorsAreActors, TypeCorrect, PTL
<1>2. QED
  BY <1>1, BooksHold, InitManagerInv, NextManagerInv, InitStartInv, NextStartInv, PTL
     DEF ManagerSpec

\* init() sends Start before it spawns the thread, and spawns in the order of
\* registration: an actor handles Start before anything that an actor
\* registered later, or it itself, sends it.
THEOREM ManagerStartsFirst == ManagerSpec => []StartComesFirst
<1>1. TypeOK /\ StartInv => StartComesFirst
  <2> SUFFICES ASSUME TypeOK, StartInv, NEW b \in Actors
               PROVE  LET box == mailbox[b]
                          handled == starts[b] > 0 /\ ~\E i \in DOMAIN box : IsStart(box[i])
                          StartFollows(k) == ~handled /\ ~\E i \in 1 .. k : IsStart(box[i])
                      IN /\ pc[b] = "handle" /\ StartFollows(0) => MayPrecedeStart(current[b], b)
                         /\ \A k \in DOMAIN box :
                              StartFollows(k) => MayPrecedeStart(box[k], b)
    BY DEF StartComesFirst
  <2>1. StartLeads(b)
    BY DEF StartInv
  <2>2. \A k \in DOMAIN mailbox[b] :
          \A i \in DOMAIN mailbox[b] : i <= k => i \in 1 .. k
    <3>1. mailbox[b] \in Seq(Envelope)
      BY DEF TypeOK
    <3>2. QED
      BY <3>1
  <2>3. QED
    BY <2>1, <2>2
       DEF StartLeads, StartHandled, StartQueued, MayPrecedeStart, Early, Before, Precedes
<1>2. QED
  BY <1>1, StartHolds, PTL
=============================================================================
