---------------------------- MODULE GroupProofs ----------------------------
(***************************************************************************)
(* Proofs about Group, for any members, references, workers and bounds.    *)
(*                                                                         *)
(* PoolInv is inductive.  Besides GroupTypeOK and OneWorkerPerMember it    *)
(* says that nobody is in a poisoned member and that wait() has no member  *)
(* left to end() once it is over, which start() relies on when it replaces *)
(* the map.                                                                *)
(*                                                                         *)
(* On it rest two more: OrderInv, what is sent through a reference is in   *)
(* order from a worker's hands over the queue to the forwarder's mailbox;  *)
(* and CallsInv, the Sender of an open call is in one place, where the     *)
(* callee will find it, and the Sender of any other call is nowhere.       *)
(***************************************************************************)
EXTENDS Group, FiniteSetTheorems, TLAPS

GroupEnvelope == [ref : Refs, env : Envelope]

GroupCall == [st     : {"idle", "open", "value", "closed"},
              callee : Actors \cup {None},
              answer : Channels]

WPC == {"absent", "check", "take", "drain", "lock", "handle", "done", "dead"}

MapsOK ==
  /\ actors_builder \subseteq Actors /\ actors \subseteq Actors
  /\ actor_refs \in Seq(Actors)
  /\ dest \in [Refs -> Actors \cup {None}]

QueuesOK ==
  /\ wrapper \in [Refs -> Seq(Envelope)]
  /\ queue \in Seq(GroupEnvelope)

UsersOK ==
  /\ context \in [Actors -> Context]
  /\ call \in [Procs -> GroupCall]
  /\ sent \in [Procs -> Nat]

MainOK ==
  /\ running \in BOOLEAN
  /\ at \in {"user", "start", "shutdown", "wait", "panicked"}
  /\ todo \in Seq(Actors) /\ ended \subseteq Actors
  /\ to_end \subseteq actors
  /\ at # "wait" => to_end = {}

\* What w holds agrees with where it is.
HoldsRightly(w) ==
  IF wpc[w] \in {"lock", "handle"}
  THEN hand[w] \in GroupEnvelope /\ dest[hand[w].ref] \in known[w]
  ELSE hand[w] = NoHand

WorkersOK ==
  /\ wpc \in [Workers -> WPC]
  /\ known \in [Workers -> SUBSET Actors]
  /\ hand \in [Workers -> GroupEnvelope \cup {NoHand}]
  /\ \A w \in Workers : HoldsRightly(w)
  /\ rx \in Workers \cup {None}
  /\ rx # None => wpc[rx] \in {"lock", "handle"}
  /\ poisoned \subseteq Actors /\ rx_poisoned \in BOOLEAN

\* Nobody is in a poisoned member.
PoisonedAreIdle == \A m \in poisoned, w \in Workers : ~Handles(w, m)

LocksOK == OneWorkerPerMember /\ PoisonedAreIdle

PoolInv == MapsOK /\ QueuesOK /\ UsersOK /\ MainOK /\ WorkersOK /\ LocksOK

\* The invariant contains the type invariant.
LEMMA PoolInvImpliesType == PoolInv => GroupTypeOK
BY DEF PoolInv, MapsOK, QueuesOK, UsersOK, MainOK, WorkersOK, GroupTypeOK,
       GroupEnvelope, GroupCall, WPC, HoldsRightly

\* It holds of a new Group.
LEMMA InitPoolInv == Init => PoolInv
<1> SUFFICES ASSUME Init PROVE PoolInv
  OBVIOUS
<1>1. MapsOK /\ QueuesOK /\ MainOK
  BY DEF Init, MapsOK, QueuesOK, MainOK
<1>2. UsersOK
  <2>1. NewContext \in Context
    BY DEF NewContext, Context
  <2>2. NoCall \in GroupCall
    BY DEF NoCall, GroupCall, Channels
  <2>3. QED
    BY <2>1, <2>2 DEF Init, UsersOK
<1>3. WorkersOK
  BY DEF Init, WorkersOK, HoldsRightly, WPC
<1>4. LocksOK
  BY DEF Init, LocksOK, OneWorkerPerMember, PoisonedAreIdle, Handles
<1>5. QED
  BY <1>1, <1>2, <1>3, <1>4 DEF PoolInv
-----------------------------------------------------------------------------
\* What does not move stays in order.
LEMMA WorkersStutter ==
  ASSUME WorkersOK, LocksOK, UNCHANGED <<dest, workerVars>>
  PROVE  WorkersOK' /\ LocksOK'
BY DEF WorkersOK, LocksOK, OneWorkerPerMember, PoisonedAreIdle, Handles, HoldsRightly, workerVars

LEMMA MainStutters == ASSUME MainOK, UNCHANGED <<actors, mainVars>> PROVE MainOK'
BY DEF MainOK, mainVars

LEMMA MapsStutter == ASSUME MapsOK, UNCHANGED mapVars PROVE MapsOK'
BY DEF MapsOK, mapVars

LEMMA QueuesStutter == ASSUME QueuesOK, UNCHANGED queueVars PROVE QueuesOK'
BY DEF QueuesOK, queueVars

LEMMA UsersStutter == ASSUME UsersOK, UNCHANGED userVars PROVE UsersOK'
BY DEF UsersOK, userVars

\* An envelope made by send or fast_send is one, and its channel is a channel.
LEMMA NewEnvelopes ==
  ASSUME NEW p \in Procs, NEW n \in Nat, NEW s \in Actors \cup {None}, NEW k \in Kinds
  PROVE  NewEnvelope(k, p, n, s) \in Envelope /\ NewSyncEnvelope(k, p, n, s) \in Envelope
BY DEF NewEnvelope, NewSyncEnvelope, Envelope

LEMMA ReplyChannels == ASSUME NEW e \in Envelope PROVE ReplyChannel(e) \in Channels
BY DEF Envelope, ReplyChannel, Channels, Channel

\* Dropping a Sender leaves every call well formed.
LEMMA CloseKeepsCalls ==
  ASSUME UsersOK, NEW ch PROVE Close(ch) \in [Procs -> GroupCall]
<1>1. ASSUME NEW p \in Procs PROVE [call[p] EXCEPT !.st = "closed"] \in GroupCall
  BY DEF UsersOK, GroupCall
<1>2. QED
  BY <1>1 DEF Close, UsersOK

\* An envelope that is posted leaves channels and counters well formed.
LEMMA PostKeepsTypes ==
  ASSUME QueuesOK, UsersOK, NEW p \in Procs, NEW r \in Refs, NEW e \in Envelope, Post(p, r, e)
  PROVE  wrapper' \in [Refs -> Seq(Envelope)] /\ sent' \in [Procs -> Nat]
<1>1. wrapper' \in [Refs -> Seq(Envelope)]
  <2>1. Append(wrapper[r], e) \in Seq(Envelope)
    BY DEF QueuesOK
  <2>2. QED
    BY <2>1 DEF Post, QueuesOK
<1>2. sent' \in [Procs -> Nat]
  BY DEF Post, UsersOK
<1>3. QED
  BY <1>1, <1>2
-----------------------------------------------------------------------------
\* What is passed as a sender is a reference to a member, or none.
LEMMA SendersAreMembers == \A p \in Procs : Senders(p) \subseteq Actors \cup {None}
BY GroupAssumption DEF Senders

\* Steps of user code, of forwarders, and of Main.
LEMMA UserSteps ==
  ASSUME PoolInv, NEW p \in Procs, Sends(p) \/ FastSendReturns(p)
  PROVE  PoolInv'
<1>1. CASE \E r \in Refs, s \in Actors \cup {None} : UserSends(p, r, s)
  <2>1. PICK r \in Refs, s \in Actors \cup {None} : UserSends(p, r, s)
    BY <1>1
  <2>2. NewEnvelope("User", p, sent[p] + 1, s) \in Envelope
    BY NewEnvelopes DEF PoolInv, UsersOK, Kinds
  <2>3. wrapper' \in [Refs -> Seq(Envelope)] /\ sent' \in [Procs -> Nat]
    BY <2>1, <2>2, PostKeepsTypes DEF UserSends, Send, PoolInv
  <2>4. QueuesOK' /\ UsersOK'
    BY <2>1, <2>3 DEF UserSends, PoolInv, QueuesOK, UsersOK
  <2>5. QED
    BY <2>1, <2>4, MapsStutter, MainStutters, WorkersStutter DEF UserSends, PoolInv, mapVars
<1>2. CASE \E r \in Refs, s \in Actors \cup {None} : FastSend(p, r, s)
  <2>1. PICK r \in Refs, s \in Actors \cup {None} : FastSend(p, r, s)
    BY <1>2
  <2>2. NewSyncEnvelope("User", p, sent[p] + 1, s) \in Envelope
    BY NewEnvelopes DEF PoolInv, UsersOK, Kinds
  <2>3. wrapper' \in [Refs -> Seq(Envelope)] /\ sent' \in [Procs -> Nat]
    BY <2>1, <2>2, PostKeepsTypes DEF FastSend, PoolInv
  <2>4. call' \in [Procs -> GroupCall]
    <3>1. [st |-> "open", callee |-> dest[r], answer |-> NoChannel] \in GroupCall
      BY DEF PoolInv, MapsOK, GroupCall, Channels
    <3>2. QED
      BY <2>1, <3>1 DEF FastSend, PoolInv, UsersOK
  <2>5. QueuesOK' /\ UsersOK'
    BY <2>1, <2>3, <2>4 DEF FastSend, PoolInv, QueuesOK, UsersOK
  <2>6. QED
    BY <2>1, <2>5, MapsStutter, MainStutters, WorkersStutter DEF FastSend, PoolInv, mapVars
<1>3. CASE FastSendReturns(p)
  <2>1. UsersOK'
    BY <1>3 DEF FastSendReturns, PoolInv, UsersOK, NoCall, GroupCall, Channels
  <2>2. QED
    BY <1>3, <2>1, MapsStutter, QueuesStutter, MainStutters, WorkersStutter
       DEF FastSendReturns, PoolInv, mapVars
<1>4. QED
  BY <1>1, <1>2, <1>3, SendersAreMembers DEF Sends

\* Forwarders keep the invariant.
LEMMA ForwarderSteps ==
  ASSUME PoolInv, NEW r \in Refs, Forward(r)
  PROVE  PoolInv'
<1>1. QueuesOK'
  <2>1. Head(wrapper[r]) \in Envelope /\ Tail(wrapper[r]) \in Seq(Envelope)
    BY DEF PoolInv, QueuesOK, Forward
  <2>2. [ref |-> r, env |-> Head(wrapper[r])] \in GroupEnvelope
    BY <2>1 DEF GroupEnvelope
  <2>3. queue' \in Seq(GroupEnvelope)
    BY <2>2 DEF PoolInv, QueuesOK, Forward, Enqueued
  <2>4. wrapper' \in [Refs -> Seq(Envelope)]
    BY <2>1 DEF PoolInv, QueuesOK, Forward
  <2>5. QED
    BY <2>3, <2>4 DEF QueuesOK
<1>2. QED
  BY <1>1, MapsStutter, UsersStutter, MainStutters, WorkersStutter DEF Forward, PoolInv, mapVars

\* A name that is given to a reference for the first time changes nothing for
\* the workers: what they hold came through references that lead somewhere.
LEMMA NewReference ==
  ASSUME PoolInv, NEW r \in Refs, NEW m \in Actors, dest[r] = None,
         dest' = [dest EXCEPT ![r] = m], UNCHANGED workerVars
  PROVE  WorkersOK' /\ LocksOK'
<1>1. ASSUME NEW w \in Workers, wpc[w] \in {"lock", "handle"}
      PROVE  hand[w].ref \in Refs /\ dest'[hand[w].ref] = dest[hand[w].ref]
  <2>1. hand[w].ref \in Refs /\ dest[hand[w].ref] \in known[w]
    BY <1>1 DEF PoolInv, WorkersOK, HoldsRightly, GroupEnvelope
  <2>2. dest[hand[w].ref] # None
    BY <2>1, NamesAssumption DEF PoolInv, WorkersOK, Procs
  <2>3. QED
    BY <2>1, <2>2 DEF PoolInv, MapsOK
<1>2. WorkersOK'
  <2>1. ASSUME NEW w \in Workers PROVE HoldsRightly(w)'
    <3>1. HoldsRightly(w)
      BY DEF PoolInv, WorkersOK
    <3>2. CASE wpc[w] \in {"lock", "handle"}
      BY <1>1, <3>1, <3>2 DEF HoldsRightly, workerVars
    <3>3. CASE wpc[w] \notin {"lock", "handle"}
      BY <3>1, <3>3 DEF HoldsRightly, workerVars
    <3>4. QED
      BY <3>2, <3>3
  <2>2. QED
    BY <2>1 DEF PoolInv, WorkersOK, workerVars
<1>3. \A w \in Workers, n \in Actors : Handles(w, n)' <=> Handles(w, n)
  BY <1>1 DEF Handles, workerVars
<1>4. LocksOK'
  BY <1>3 DEF PoolInv, LocksOK, OneWorkerPerMember, PoisonedAreIdle, WorkersOK, workerVars
<1>5. QED
  BY <1>2, <1>4

\* The methods of Group keep the invariant.
LEMMA MainSteps ==
  ASSUME PoolInv, MainCalls \/ InMethod
  PROVE  PoolInv'
<1> USE DEF PoolInv
<1>1. ASSUME NEW m \in Actors, Add(m) PROVE PoolInv'
  <2>1. MapsOK'
    <3>1. actor_refs' \in Seq(Actors)
      BY <1>1 DEF Add, MapsOK
    <3>2. QED
      BY <1>1, <3>1 DEF Add, MapsOK
  <2>2. WorkersOK' /\ LocksOK'
    BY <1>1, NewReference DEF Add, Refs
  <2>3. QED
    BY <1>1, <2>1, <2>2, QueuesStutter, UsersStutter, MainStutters DEF Add
<1>2. ASSUME NEW m \in Actors, NEW x \in Extras, GetRef(x, m) PROVE PoolInv'
  <2>1. MapsOK'
    BY <1>2 DEF GetRef, MapsOK
  <2>2. WorkersOK' /\ LocksOK'
    BY <1>2, NewReference DEF GetRef, Refs
  <2>3. QED
    BY <1>2, <2>1, <2>2, QueuesStutter, UsersStutter, MainStutters DEF GetRef
<1>3. CASE StartEnter
  <2>1. MapsOK'
    BY <1>3 DEF StartEnter, MapsOK
  <2>2. MainOK'
    <3>1. to_end = {}
      BY <1>3, NamesAssumption, GroupAssumption DEF StartEnter, Runs, MainOK, Procs
    <3>2. QED
      BY <1>3, <3>1 DEF StartEnter, MainOK, MapsOK
  <2>3. QED
    BY <1>3, <2>1, <2>2, QueuesStutter, UsersStutter, WorkersStutter DEF StartEnter
<1>4. CASE ShutdownEnter
  <2>1. MainOK'
    <3>1. to_end = {}
      BY <1>4 DEF ShutdownEnter, Runs, MainOK
    <3>2. QED
      BY <1>4, <3>1 DEF ShutdownEnter, MainOK, MapsOK, mapVars
  <2>2. QED
    BY <1>4, <2>1, MapsStutter, QueuesStutter, UsersStutter, WorkersStutter
       DEF ShutdownEnter, mapVars
<1>5. CASE WaitEnter
  <2>1. MainOK'
    BY <1>5 DEF WaitEnter, MainOK, mapVars
  <2>2. QED
    BY <1>5, <2>1, MapsStutter, QueuesStutter, UsersStutter, WorkersStutter DEF WaitEnter, mapVars
<1>6. CASE SendToNext
  <2> DEFINE k == IF at = "start" THEN "Start" ELSE "Shutdown"
             e == NewEnvelope(k, Main, sent[Main] + 1, None)
  <2>1. Head(todo) \in Actors /\ Tail(todo) \in Seq(Actors)
    BY <1>6 DEF SendToNext, MainOK
  <2>2. Main \in Procs /\ Head(todo) \in Refs /\ k \in Kinds /\ sent[Main] + 1 \in Nat
    BY <2>1, GroupAssumption DEF Procs, Refs, Kinds, UsersOK
  <2>3. e \in Envelope
    BY <2>2, NewEnvelopes
  <2>4. wrapper' \in [Refs -> Seq(Envelope)] /\ sent' \in [Procs -> Nat]
    <3>1. Post(Main, Head(todo), e)
      BY <1>6 DEF SendToNext, Send
    <3>2. QED
      BY <3>1, <2>2, <2>3, PostKeepsTypes
  <2>5. QueuesOK' /\ UsersOK'
    BY <1>6, <2>4 DEF SendToNext, QueuesOK, UsersOK
  <2>6. MainOK'
    BY <1>6, <2>1 DEF SendToNext, MainOK, mapVars
  <2>7. QED
    BY <1>6, <2>5, <2>6, MapsStutter, WorkersStutter DEF SendToNext, mapVars
<1>7. CASE SpawnWorkers
  <2>1. PICK W \in SUBSET Unused :
          /\ wpc'   = [w \in Workers |-> IF w \in W THEN "check" ELSE wpc[w]]
          /\ known' = [w \in Workers |-> IF w \in W THEN actors ELSE known[w]]
    BY <1>7 DEF SpawnWorkers
  <2>2. \A w \in W : w \in Workers /\ wpc[w] = "absent"
    BY DEF Unused
  <2>3. MainOK'
    BY <1>7 DEF SpawnWorkers, MainOK, mapVars
  <2>4. WorkersOK'
    <3>1. wpc' \in [Workers -> WPC] /\ known' \in [Workers -> SUBSET Actors]
      BY <2>1 DEF WorkersOK, WPC, MapsOK
    <3>2. ASSUME NEW w \in Workers PROVE HoldsRightly(w)'
      <4>1. HoldsRightly(w)
        BY DEF WorkersOK
      <4>2. hand' = hand /\ dest' = dest
        BY <1>7 DEF SpawnWorkers, mapVars
      <4>3. CASE w \in W
        BY <2>1, <2>2, <4>1, <4>2, <4>3 DEF HoldsRightly
      <4>4. CASE w \notin W
        BY <2>1, <4>1, <4>2, <4>4 DEF HoldsRightly
      <4>5. QED
        BY <4>3, <4>4
    <3>3. rx # None => wpc'[rx] \in {"lock", "handle"}
      BY <2>1, <2>2 DEF WorkersOK
    <3>4. QED
      BY <1>7, <3>1, <3>2, <3>3 DEF SpawnWorkers, WorkersOK
  <2>5. LocksOK'
    <3>1. ASSUME NEW w \in Workers, NEW m \in Actors PROVE Handles(w, m)' <=> Handles(w, m)
      BY <1>7, <2>1, <2>2 DEF Handles, SpawnWorkers, mapVars
    <3>2. QED
      BY <1>7, <3>1 DEF SpawnWorkers, LocksOK, OneWorkerPerMember, PoisonedAreIdle, WorkersOK
  <2>6. QED
    BY <1>7, <2>3, <2>4, <2>5, MapsStutter, QueuesStutter, UsersStutter DEF SpawnWorkers
<1>8. CASE StopWorkers
  <2>1. MainOK'
    BY <1>8 DEF StopWorkers, MainOK, mapVars
  <2>2. QED
    BY <1>8, <2>1, MapsStutter, QueuesStutter, UsersStutter, WorkersStutter DEF StopWorkers, mapVars
<1>9. CASE WaitReturns
  <2>1. MainOK'
    BY <1>9 DEF WaitReturns, MainOK, mapVars
  <2>2. QED
    BY <1>9, <2>1, MapsStutter, QueuesStutter, UsersStutter, WorkersStutter DEF WaitReturns, mapVars
<1>10. ASSUME NEW m \in Actors, EndMember(m) PROVE PoolInv'
  <2>1. MainOK'
    BY <1>10 DEF EndMember, MainOK, mapVars
  <2>2. QED
    BY <1>10, <2>1, MapsStutter, QueuesStutter, UsersStutter, WorkersStutter DEF EndMember, mapVars
<1>11. QED
  BY <1>1, <1>2, <1>3, <1>4, <1>5, <1>6, <1>7, <1>8, <1>9, <1>10 DEF MainCalls, InMethod
-----------------------------------------------------------------------------
\* A worker that has nothing in hand goes from one place to another.
LEMMA WorkerMoves ==
  ASSUME PoolInv, NEW w \in Workers, NEW to \in {"take", "drain", "check", "done", "dead"},
         wpc[w] \notin {"lock", "handle"}, wpc' = [wpc EXCEPT ![w] = to],
         UNCHANGED <<dest, rx, poisoned, rx_poisoned, hand, known>>
  PROVE  WorkersOK' /\ LocksOK'
<1> USE DEF PoolInv, WorkersOK
<1>1. ASSUME NEW v \in Workers PROVE HoldsRightly(v)'
  <2>1. HoldsRightly(v)
    OBVIOUS
  <2>2. CASE v = w
    BY <2>1, <2>2 DEF HoldsRightly
  <2>3. CASE v # w
    BY <2>1, <2>3 DEF HoldsRightly
  <2>4. QED
    BY <2>2, <2>3
<1>2. rx # None => wpc'[rx] \in {"lock", "handle"}
  OBVIOUS
<1>3. WorkersOK'
  BY <1>1, <1>2 DEF WPC
<1>4. \A v \in Workers, m \in Actors : Handles(v, m)' <=> Handles(v, m)
  BY DEF Handles
<1>5. LocksOK'
  BY <1>4 DEF LocksOK, OneWorkerPerMember, PoisonedAreIdle
<1>6. QED
  BY <1>3, <1>5

\* A worker lets go of what it holds; members may be poisoned only when that
\* worker was in them.
LEMMA WorkerLetsGo ==
  ASSUME PoolInv, NEW w \in Workers, NEW to \in {"drain", "check", "dead"}, LetGo(w, to),
         poisoned' \subseteq poisoned \cup {m \in Actors : Handles(w, m)},
         rx_poisoned' \in BOOLEAN, UNCHANGED <<dest, known>>
  PROVE  WorkersOK' /\ LocksOK'
<1> USE DEF PoolInv, WorkersOK
<1>1. ASSUME NEW v \in Workers PROVE HoldsRightly(v)'
  <2>1. HoldsRightly(v)
    OBVIOUS
  <2>2. CASE v = w
    BY <2>1, <2>2 DEF HoldsRightly, LetGo
  <2>3. CASE v # w
    BY <2>1, <2>3 DEF HoldsRightly, LetGo
  <2>4. QED
    BY <2>2, <2>3
<1>2. rx' \in Workers \cup {None} /\ (rx' # None => wpc'[rx'] \in {"lock", "handle"})
  BY DEF LetGo
<1>3. wpc' \in [Workers -> WPC] /\ hand' \in [Workers -> GroupEnvelope \cup {NoHand}]
  BY DEF LetGo, WPC
<1>4. WorkersOK'
  BY <1>1, <1>2, <1>3
<1>5. \A v \in Workers, m \in Actors : Handles(v, m)' => v # w /\ Handles(v, m)
  BY DEF Handles, LetGo
<1>6. OneWorkerPerMember'
  BY <1>5 DEF LocksOK, OneWorkerPerMember
<1>7. PoisonedAreIdle'
  <2>1. ASSUME NEW m \in poisoned', NEW v \in Workers, Handles(v, m)' PROVE FALSE
    <3>1. m \in Actors /\ v # w /\ Handles(v, m)
      BY <1>5, <2>1
    <3>2. m \in poisoned \/ Handles(w, m)
      BY <2>1
    <3>3. QED
      BY <3>1, <3>2 DEF LocksOK, OneWorkerPerMember, PoisonedAreIdle
  <2>2. QED
    BY <2>1 DEF PoisonedAreIdle
<1>8. QED
  BY <1>4, <1>6, <1>7 DEF LocksOK

\* Replies to a caller leave its call well formed.
LEMMA AnsweredCall ==
  ASSUME NEW c \in GroupCall, NEW ch \in Channel
  PROVE  [c EXCEPT !.st = "value", !.answer = ch] \in GroupCall
BY DEF GroupCall, Channels

\* Workers keep the invariant.
LEMMA WorkerSteps ==
  ASSUME PoolInv, NEW w \in Workers, WorkerThread(w)
  PROVE  PoolInv'
<1> USE DEF PoolInv
<1> DEFINE m == dest[hand[w].ref]
           e == hand[w].env
<1>0. ASSUME wpc[w] \in {"lock", "handle"}
      PROVE  hand[w] \in GroupEnvelope /\ m \in known[w] /\ m \in Actors /\ e \in Envelope
  BY <1>0 DEF WorkersOK, HoldsRightly, GroupEnvelope
<1>1. CASE CheckRunning(w)
  <2>1. WorkersOK' /\ LocksOK'
    BY <1>1, WorkerMoves DEF CheckRunning, AfterCheck, mapVars
  <2>2. QED
    BY <1>1, <2>1, MapsStutter, QueuesStutter, UsersStutter, MainStutters DEF CheckRunning, mapVars
<1>2. CASE FindNothing(w)
  <2>1. WorkersOK' /\ LocksOK'
    BY <1>2, WorkerMoves DEF FindNothing, mapVars
  <2>2. QED
    BY <1>2, <2>1, MapsStutter, QueuesStutter, UsersStutter, MainStutters DEF FindNothing, mapVars
<1>3. CASE DieOnReceiver(w)
  <2>1. WorkersOK' /\ LocksOK'
    BY <1>3, WorkerMoves DEF DieOnReceiver, mapVars
  <2>2. QED
    BY <1>3, <2>1, MapsStutter, QueuesStutter, UsersStutter, MainStutters DEF DieOnReceiver, mapVars
<1>4. CASE TakeNext(w)
  <2>1. Head(queue) \in GroupEnvelope /\ QueuesOK'
    BY <1>4 DEF TakeNext, QueuesOK
  <2>2. MapsOK' /\ MainOK'
    BY <1>4, MapsStutter, MainStutters DEF TakeNext, mapVars
  <2>3. CASE Finds(w, dest[Head(queue).ref])
    <3>1. /\ hand' = [hand EXCEPT ![w] = Head(queue)]
          /\ wpc'  = [wpc EXCEPT ![w] = "lock"]
          /\ rx' = w \/ rx' = rx
          /\ UNCHANGED <<dest, call, known, poisoned, rx_poisoned, context, sent>>
      BY <1>4, <2>3 DEF TakeNext, mapVars
    <3>2. UsersOK'
      BY <3>1 DEF UsersOK
    <3>3. ASSUME NEW v \in Workers PROVE HoldsRightly(v)'
      <4>1. HoldsRightly(v)
        BY DEF WorkersOK
      <4>2. CASE v = w
        BY <2>1, <2>3, <3>1, <4>2 DEF HoldsRightly, Finds, WorkersOK
      <4>3. CASE v # w
        BY <3>1, <4>1, <4>3 DEF HoldsRightly, WorkersOK
      <4>4. QED
        BY <4>2, <4>3
    <3>4. WorkersOK'
      BY <2>1, <3>1, <3>3 DEF WorkersOK, WPC
    <3>5. \A v \in Workers, n \in Actors : Handles(v, n)' => Handles(v, n)
      BY <3>1 DEF Handles, WorkersOK
    <3>6. LocksOK'
      BY <3>1, <3>5 DEF LocksOK, OneWorkerPerMember, PoisonedAreIdle, WorkersOK
    <3>7. QED
      BY <2>1, <2>2, <3>2, <3>4, <3>6
  <2>4. CASE ~Finds(w, dest[Head(queue).ref])
    <3>1. WorkersOK' /\ LocksOK'
      BY <1>4, <2>4, WorkerMoves DEF TakeNext, mapVars
    <3>2. UsersOK'
      BY <1>4, <2>4, CloseKeepsCalls DEF TakeNext, AfterDiscard, UsersOK
    <3>3. QED
      BY <2>1, <2>2, <3>1, <3>2
  <2>5. QED
    BY <2>3, <2>4
<1>5. CASE Dispatch(w)
  <2>1. hand[w] \in GroupEnvelope /\ m \in known[w] /\ m \in Actors /\ e \in Envelope
    BY <1>0, <1>5 DEF Dispatch
  <2>2. UsersOK'
    <3>1. PrepareForEnvelope(context[m], e) \in Context
      BY <2>1, ReplyChannels DEF PrepareForEnvelope, Context, Envelope, Channels
    <3>2. context' \in [Actors -> Context]
      BY <1>5, <2>1, <3>1 DEF Dispatch, UsersOK
    <3>3. call' \in [Procs -> GroupCall]
      BY <1>5, CloseKeepsCalls DEF Dispatch
    <3>4. QED
      BY <1>5, <3>2, <3>3 DEF Dispatch, UsersOK
  <2>3. wpc' = [wpc EXCEPT ![w] = "handle"] /\ wpc[w] = "lock" /\ Free(m) /\ Healthy(m)
    BY <1>5 DEF Dispatch
  <2>4. UNCHANGED <<dest, rx, poisoned, rx_poisoned, hand, known>>
    BY <1>5 DEF Dispatch, mapVars
  <2>5. ASSUME NEW v \in Workers PROVE HoldsRightly(v)'
    <3>1. HoldsRightly(v)
      BY DEF WorkersOK
    <3>2. QED
      BY <2>3, <2>4, <3>1 DEF HoldsRightly, WorkersOK
  <2>6. WorkersOK'
    BY <2>3, <2>4, <2>5 DEF WorkersOK, WPC
  <2>7. \A v \in Workers, n \in Actors : Handles(v, n)' => Handles(v, n) \/ (v = w /\ n = m)
    BY <2>3, <2>4 DEF Handles, WorkersOK
  <2>8. LocksOK'
    BY <2>1, <2>3, <2>4, <2>7
       DEF LocksOK, OneWorkerPerMember, PoisonedAreIdle, Free, Healthy, WorkersOK
  <2>9. QED
    BY <1>5, <2>2, <2>6, <2>8, MapsStutter, QueuesStutter, MainStutters DEF Dispatch, mapVars
<1>6. CASE DieOnMember(w)
  <2>1. WorkersOK' /\ LocksOK'
    BY <1>6, WorkerLetsGo DEF DieOnMember, mapVars, WorkersOK
  <2>2. UsersOK'
    BY <1>6, CloseKeepsCalls DEF DieOnMember, AfterDiscard, UsersOK
  <2>3. QED
    BY <1>6, <2>1, <2>2, MapsStutter, QueuesStutter, MainStutters DEF DieOnMember, mapVars
<1>7. CASE HandlerReturns(w)
  <2>1. WorkersOK' /\ LocksOK'
    BY <1>7, WorkerLetsGo DEF HandlerReturns, mapVars, WorkersOK
  <2>2. QED
    BY <1>7, <2>1, MapsStutter, QueuesStutter, UsersStutter, MainStutters
       DEF HandlerReturns, mapVars
<1>8. CASE HandlerPanics(w)
  <2>1. Handles(w, m) /\ m \in Actors
    BY <1>0, <1>8 DEF HandlerPanics, Handles
  <2>2. WorkersOK' /\ LocksOK'
    BY <1>8, <2>1, WorkerLetsGo DEF HandlerPanics, mapVars, WorkersOK
  <2>3. QED
    BY <1>8, <2>2, MapsStutter, QueuesStutter, UsersStutter, MainStutters
       DEF HandlerPanics, mapVars
<1>9. CASE ReplyOnChannel(w)
  <2> DEFINE ch == context[m].reply
             id == [to |-> e.from, n |-> e.n]
  <2>1. m \in Actors /\ e \in Envelope
    BY <1>0, <1>9 DEF ReplyOnChannel
  <2>2. ch \in Channel /\ ch.to \in Procs
    BY <1>9, <2>1 DEF ReplyOnChannel, UsersOK, Context, Channel
  <2>3. id \in Channel
    BY <2>1 DEF Envelope, Channel
  <2>4. [call[ch.to] EXCEPT !.st = "value", !.answer = id] \in GroupCall
    BY <2>2, <2>3, AnsweredCall DEF UsersOK
  <2>5. call' \in [Procs -> GroupCall]
    BY <1>9, <2>2, <2>4 DEF ReplyOnChannel, UsersOK
  <2>6. context' \in [Actors -> Context]
    BY <1>9, <2>1 DEF ReplyOnChannel, UsersOK, Context
  <2>7. UsersOK'
    BY <1>9, <2>5, <2>6 DEF ReplyOnChannel, UsersOK
  <2>8. QED
    BY <1>9, <2>7, MapsStutter, QueuesStutter, MainStutters, WorkersStutter
       DEF ReplyOnChannel, mapVars
<1>10. CASE ReplyToSender(w)
  <2>1. m \in Actors /\ m \in Procs
    BY <1>0, <1>10 DEF ReplyToSender, Procs
  <2>2. context[m].sender \in Refs
    BY <1>10, <2>1 DEF ReplyToSender, UsersOK, Context, Refs
  <2>3. NewEnvelope("Reply", m, sent[m] + 1, m) \in Envelope
    <3>1. sent[m] + 1 \in Nat /\ m \in Actors \cup {None} /\ "Reply" \in Kinds
      BY <2>1 DEF UsersOK, Kinds
    <3>2. QED
      BY <2>1, <3>1, NewEnvelopes
  <2>4. wrapper' \in [Refs -> Seq(Envelope)] /\ sent' \in [Procs -> Nat]
    <3>1. Post(m, context[m].sender, NewEnvelope("Reply", m, sent[m] + 1, m))
      BY <1>10 DEF ReplyToSender, Send
    <3>2. QED
      BY <3>1, <2>1, <2>2, <2>3, PostKeepsTypes
  <2>5. QueuesOK' /\ UsersOK'
    BY <1>10, <2>4 DEF ReplyToSender, QueuesOK, UsersOK
  <2>6. QED
    BY <1>10, <2>5, MapsStutter, MainStutters, WorkersStutter DEF ReplyToSender, mapVars
<1>11. QED
  BY <1>1, <1>2, <1>3, <1>4, <1>5, <1>6, <1>7, <1>8, <1>9, <1>10 DEF WorkerThread
-----------------------------------------------------------------------------
\* The invariant is inductive.
LEMMA NextPoolInv == PoolInv /\ [Next]_vars => PoolInv'
<1> SUFFICES ASSUME PoolInv, [Next]_vars PROVE PoolInv'
  OBVIOUS
<1>1. CASE Next
  BY <1>1, UserSteps, ForwarderSteps, MainSteps, WorkerSteps DEF Next
<1>2. CASE UNCHANGED vars
  BY <1>2, MapsStutter, QueuesStutter, UsersStutter, MainStutters, WorkersStutter
     DEF PoolInv, vars, mapVars
<1>3. QED
  BY <1>1, <1>2

\* The invariant holds for ever.
LEMMA PoolInvHolds == Spec => []PoolInv
BY InitPoolInv, NextPoolInv, PTL DEF Spec

\* Every variable of a Group keeps its type, and workers hold what their place
\* in worker_loop says they hold.
THEOREM GroupTypeCorrect == Spec => []GroupTypeOK
BY PoolInvHolds, PoolInvImpliesType, PTL

\* The mutex in GroupMember keeps workers apart: no two of them are ever in
\* process_message of the same member.
THEOREM MembersAreExclusive == Spec => []OneWorkerPerMember
<1>1. PoolInv => OneWorkerPerMember
  BY DEF PoolInv, LocksOK
<1>2. QED
  BY <1>1, PoolInvHolds, PTL

\* A member whose handler has panicked is never run again: workers that lock
\* it die, and so does wait().
THEOREM PoisonIsFinal == Spec => PoisonedNeverRuns
<1>1. PoolInv /\ [Next]_vars => [LeavesPoisonedAlone]_vars
  <2> SUFFICES ASSUME PoolInv, Next PROVE LeavesPoisonedAlone
    OBVIOUS
  <2>0. PoolInv'
    BY NextPoolInv
  <2>1. poisoned \subseteq poisoned'
    BY DEF Next, MainCalls, InMethod, Sends, WorkerThread, workerVars,
           StartEnter, ShutdownEnter, WaitEnter, Add, GetRef,
           SendToNext, SpawnWorkers, StopWorkers, WaitReturns, EndMember,
           UserSends, FastSend, FastSendReturns, Forward,
           CheckRunning, TakeNext, FindNothing, DieOnReceiver, Dispatch, DieOnMember,
           ReplyOnChannel, ReplyToSender, HandlerReturns, HandlerPanics
  <2>2. \A m \in ended' \ ended : Healthy(m)
    BY DEF Next, MainCalls, InMethod, Sends, WorkerThread, mainVars,
           StartEnter, ShutdownEnter, WaitEnter, Add, GetRef,
           SendToNext, SpawnWorkers, StopWorkers, WaitReturns, EndMember,
           UserSends, FastSend, FastSendReturns, Forward,
           CheckRunning, TakeNext, FindNothing, DieOnReceiver, Dispatch, DieOnMember,
           ReplyOnChannel, ReplyToSender, HandlerReturns, HandlerPanics
  <2>3. \A m \in poisoned : m \notin ended' \ ended
    BY <2>2 DEF Healthy
  <2>4. \A m \in poisoned, w \in Workers : ~Handles(w, m)'
    BY <2>0, <2>1 DEF PoolInv, LocksOK, PoisonedAreIdle
  <2>5. QED
    BY <2>3, <2>4 DEF LeavesPoisonedAlone
<1>2. QED
  BY <1>1, PoolInvHolds, PTL DEF Spec, PoisonedNeverRuns
-----------------------------------------------------------------------------
(***************************************************************************)
(* Order.  What one process sends is numbered, and nothing on its way has a *)
(* number that its sender has not reached.  So a new envelope goes after    *)
(* everything of that sender; the forwarder and the worker take the first.  *)
(***************************************************************************)
\* d was sent before e, if one process sent both.
Precedes(d, e) == d.from = e.from => d.n < e.n

Numbered ==
  /\ \A r \in Refs : \A i \in DOMAIN wrapper[r] : wrapper[r][i].n <= sent[wrapper[r][i].from]
  /\ \A i \in DOMAIN queue : queue[i].env.n <= sent[queue[i].env.from]
  /\ \A w \in Workers : hand[w].ref \in Refs => hand[w].env.n <= sent[hand[w].env.from]

BoxesInOrder ==
  \A r \in Refs : \A i, j \in DOMAIN wrapper[r] : i < j => Precedes(wrapper[r][i], wrapper[r][j])

QueueInOrder ==
  \A i, j \in DOMAIN queue :
    i < j /\ queue[i].ref = queue[j].ref => Precedes(queue[i].env, queue[j].env)

QueueBeforeBoxes ==
  \A i \in DOMAIN queue, r \in Refs : \A j \in DOMAIN wrapper[r] :
    queue[i].ref = r => Precedes(queue[i].env, wrapper[r][j])

HandsFirst ==
  \A w \in Workers, r \in Refs : hand[w].ref = r =>
    /\ \A i \in DOMAIN queue : queue[i].ref = r => Precedes(hand[w].env, queue[i].env)
    /\ \A j \in DOMAIN wrapper[r] : Precedes(hand[w].env, wrapper[r][j])

OrderInv == Numbered /\ BoxesInOrder /\ QueueInOrder /\ QueueBeforeBoxes /\ HandsFirst

\* A sequence is indexed by numbers; Append adds an index, Tail takes away the first.
LEMMA SequenceIndices ==
  ASSUME NEW S, NEW s \in Seq(S)
  PROVE  /\ Len(s) \in Nat /\ DOMAIN s = 1 .. Len(s)
         /\ \A i \in DOMAIN s : s[i] \in S
OBVIOUS

LEMMA AppendIndices ==
  ASSUME NEW S, NEW s \in Seq(S), NEW x \in S
  PROVE  /\ Append(s, x) \in Seq(S)
         /\ DOMAIN Append(s, x) = DOMAIN s \cup {Len(s) + 1} /\ Len(s) + 1 \notin DOMAIN s
         /\ \A i \in DOMAIN s : i \in Nat /\ i < Len(s) + 1 /\ Append(s, x)[i] = s[i]
         /\ Append(s, x)[Len(s) + 1] = x
OBVIOUS

LEMMA TailIndices ==
  ASSUME NEW S, NEW s \in Seq(S), s # <<>>
  PROVE  /\ Head(s) = s[1] /\ Head(s) \in S /\ 1 \in DOMAIN s /\ Tail(s) \in Seq(S)
         /\ \A i \in DOMAIN Tail(s) :
              i \in Nat /\ i + 1 \in DOMAIN s /\ 1 < i + 1 /\ Tail(s)[i] = s[i + 1]
         /\ \A j \in DOMAIN s : j \in Nat /\ (j # 1 => j - 1 \in DOMAIN Tail(s))
OBVIOUS

\* What is in hand is an envelope, if it is for a reference at all.
LEMMA HandIsEnvelope ==
  ASSUME PoolInv, NEW w \in Workers
  PROVE  hand[w] = NoHand \/ hand[w] \in GroupEnvelope
BY DEF PoolInv, WorkersOK

LEMMA NoHandIsNoReference == NoHand.ref \notin Refs
BY NamesAssumption, GroupAssumption DEF NoHand, Refs

\* Nothing is on its way at first.
LEMMA InitOrderInv == Init => OrderInv
BY NoHandIsNoReference
   DEF Init, OrderInv, Numbered, BoxesInOrder, QueueInOrder, QueueBeforeBoxes, HandsFirst

\* Steps that move no envelope, other than letting go of it, keep the order.
LEMMA OrderStutters ==
  ASSUME OrderInv, UNCHANGED <<wrapper, queue, sent>>,
         \A w \in Workers : hand'[w] \in {hand[w], NoHand}
  PROVE  OrderInv'
<1>1. \A w \in Workers : hand'[w].ref \in Refs => hand'[w] = hand[w]
  BY NoHandIsNoReference
<1>2. Numbered'
  BY <1>1 DEF OrderInv, Numbered
<1>3. BoxesInOrder' /\ QueueInOrder' /\ QueueBeforeBoxes'
  BY DEF OrderInv, BoxesInOrder, QueueInOrder, QueueBeforeBoxes
<1>4. HandsFirst'
  BY <1>1 DEF OrderInv, HandsFirst
<1>5. QED
  BY <1>2, <1>3, <1>4 DEF OrderInv

\* An envelope with the sender's next number goes to the end of its channel.
LEMMA PostKeepsOrder ==
  ASSUME PoolInv, OrderInv, NEW p \in Procs, NEW r \in Refs, NEW e \in Envelope,
         e.from = p, e.n = sent[p] + 1, Post(p, r, e), UNCHANGED <<queue, hand>>
  PROVE  OrderInv'
<1> USE DEF OrderInv
<1>1. wrapper \in [Refs -> Seq(Envelope)] /\ queue \in Seq(GroupEnvelope) /\ sent \in [Procs -> Nat]
  BY DEF PoolInv, QueuesOK, UsersOK
<1>2. /\ sent' \in [Procs -> Nat] /\ sent'[p] = sent[p] + 1
      /\ \A q \in Procs : sent[q] <= sent'[q]
  BY <1>1 DEF Post
<1>3. \A q \in Refs : wrapper'[q] = IF q = r THEN Append(wrapper[r], e) ELSE wrapper[q]
  BY <1>1 DEF Post
<1>4. /\ DOMAIN Append(wrapper[r], e) = DOMAIN wrapper[r] \cup {Len(wrapper[r]) + 1}
      /\ Len(wrapper[r]) + 1 \notin DOMAIN wrapper[r]
      /\ \A i \in DOMAIN wrapper[r] :
           i \in Nat /\ i < Len(wrapper[r]) + 1 /\ Append(wrapper[r], e)[i] = wrapper[r][i]
      /\ Append(wrapper[r], e)[Len(wrapper[r]) + 1] = e
  BY <1>1, AppendIndices
<1>5. ASSUME NEW d \in Envelope, d.n <= sent[d.from] PROVE Precedes(d, e) /\ d.n <= sent'[d.from]
  <2>1. d.from \in Procs /\ d.n \in Nat
    BY DEF Envelope
  <2>2. QED
    BY <1>1, <1>2, <1>5, <2>1 DEF Precedes
<1>6. ASSUME NEW q \in Refs, NEW i \in DOMAIN wrapper[q]
      PROVE  wrapper[q][i] \in Envelope /\ wrapper[q][i].n <= sent[wrapper[q][i].from]
  BY <1>1 DEF Numbered
<1>7. ASSUME NEW i \in DOMAIN queue
      PROVE  queue[i].env \in Envelope /\ queue[i].env.n <= sent[queue[i].env.from]
  <2>1. queue[i] \in GroupEnvelope
    BY <1>1
  <2>2. QED
    BY <2>1 DEF GroupEnvelope, Numbered
<1>8. ASSUME NEW w \in Workers, hand[w].ref \in Refs
      PROVE  hand[w].env \in Envelope /\ hand[w].env.n <= sent[hand[w].env.from]
  <2>1. hand[w] \in GroupEnvelope
    BY <1>8, HandIsEnvelope, NoHandIsNoReference
  <2>2. QED
    BY <1>8, <2>1 DEF GroupEnvelope, Numbered
<1>9. e.n <= sent'[e.from]
  BY <1>1, <1>2
<1>10. ASSUME NEW q \in Refs, NEW i \in DOMAIN wrapper'[q]
       PROVE  \/ i \in DOMAIN wrapper[q] /\ wrapper'[q][i] = wrapper[q][i]
              \/ q = r /\ i = Len(wrapper[r]) + 1 /\ wrapper'[q][i] = e
  BY <1>3, <1>4
<1>11. Numbered'
  <2>1. \A q \in Refs : \A i \in DOMAIN wrapper'[q] : wrapper'[q][i].n <= sent'[wrapper'[q][i].from]
    BY <1>5, <1>6, <1>9, <1>10
  <2>2. \A i \in DOMAIN queue : queue[i].env.n <= sent'[queue[i].env.from]
    BY <1>5, <1>7
  <2>3. \A w \in Workers : hand[w].ref \in Refs => hand[w].env.n <= sent'[hand[w].env.from]
    BY <1>5, <1>8
  <2>4. QED
    BY <2>1, <2>2, <2>3 DEF Numbered
<1>12. BoxesInOrder'
  <2>1. ASSUME NEW q \in Refs, NEW i \in DOMAIN wrapper'[q], NEW j \in DOMAIN wrapper'[q], i < j
        PROVE  Precedes(wrapper'[q][i], wrapper'[q][j])
    <3>1. i \in DOMAIN wrapper[q] /\ wrapper'[q][i] = wrapper[q][i]
      <4>1. CASE q # r
        BY <1>10, <4>1
      <4>2. CASE q = r /\ i = Len(wrapper[r]) + 1
        <5>1. j \in Nat /\ j <= Len(wrapper[r]) + 1 /\ Len(wrapper[r]) \in Nat
          <6>1. Len(wrapper[r]) \in Nat
            BY <1>1
          <6>2. j \in DOMAIN wrapper[r] \cup {Len(wrapper[r]) + 1}
            BY <1>3, <1>4, <4>2
          <6>3. CASE j \in DOMAIN wrapper[r]
            BY <1>4, <6>1, <6>3
          <6>4. CASE j = Len(wrapper[r]) + 1
            BY <6>1, <6>4
          <6>5. QED
            BY <6>2, <6>3, <6>4
        <5>2. QED
          BY <2>1, <4>2, <5>1
      <4>3. QED
        BY <1>10, <4>1, <4>2
    <3>2. CASE j \in DOMAIN wrapper[q] /\ wrapper'[q][j] = wrapper[q][j]
      BY <2>1, <3>1, <3>2 DEF BoxesInOrder
    <3>3. CASE wrapper'[q][j] = e
      BY <1>5, <1>6, <3>1, <3>3
    <3>4. QED
      BY <1>10, <3>2, <3>3
  <2>2. QED
    BY <2>1 DEF BoxesInOrder
<1>13. QueueInOrder'
  BY DEF QueueInOrder
<1>14. QueueBeforeBoxes'
  <2>1. ASSUME NEW i \in DOMAIN queue, NEW q \in Refs, NEW j \in DOMAIN wrapper'[q], queue[i].ref = q
        PROVE  Precedes(queue[i].env, wrapper'[q][j])
    BY <1>5, <1>7, <1>10, <2>1 DEF QueueBeforeBoxes
  <2>2. QED
    BY <2>1 DEF QueueBeforeBoxes
<1>15. HandsFirst'
  <2>1. ASSUME NEW w \in Workers, NEW q \in Refs, hand[w].ref = q, NEW j \in DOMAIN wrapper'[q]
        PROVE  Precedes(hand[w].env, wrapper'[q][j])
    BY <1>5, <1>8, <1>10, <2>1 DEF HandsFirst
  <2>2. QED
    BY <2>1 DEF HandsFirst
<1>16. QED
  BY <1>11, <1>12, <1>13, <1>14, <1>15

\* The forwarder moves the first envelope of its channel behind the others of
\* the same reference.
LEMMA ForwardKeepsOrder ==
  ASSUME PoolInv, OrderInv, NEW r \in Refs, Forward(r)
  PROVE  OrderInv'
<1> USE DEF OrderInv
<1> DEFINE e == Head(wrapper[r])
           g == [ref |-> r, env |-> e]
           box == wrapper[r]
<1>1. wrapper \in [Refs -> Seq(Envelope)] /\ queue \in Seq(GroupEnvelope)
  BY DEF PoolInv, QueuesOK
<1>2. /\ box # <<>> /\ queue' = Append(queue, g) /\ UNCHANGED <<hand, sent>>
      /\ \A q \in Refs : wrapper'[q] = IF q = r THEN Tail(box) ELSE wrapper[q]
  BY <1>1 DEF Forward, Enqueued, workerVars, userVars
<1>3. /\ e = box[1] /\ e \in Envelope /\ 1 \in DOMAIN box
      /\ \A i \in DOMAIN Tail(box) :
           i \in Nat /\ i + 1 \in DOMAIN box /\ 1 < i + 1 /\ Tail(box)[i] = box[i + 1]
  <2>1. box \in Seq(Envelope)
    BY <1>1
  <2>2. QED
    BY <1>2, <2>1, TailIndices
<1>4. g \in GroupEnvelope /\ g.ref = r /\ g.env = e
  BY <1>3 DEF GroupEnvelope
<1>5. /\ DOMAIN queue' = DOMAIN queue \cup {Len(queue) + 1} /\ Len(queue) + 1 \notin DOMAIN queue
      /\ \A i \in DOMAIN queue : i \in Nat /\ i < Len(queue) + 1 /\ queue'[i] = queue[i]
      /\ queue'[Len(queue) + 1] = g
  BY <1>1, <1>2, <1>4, AppendIndices
<1>6. Len(queue) \in Nat
  BY <1>1
<1> HIDE DEF e, g, box
\* An envelope in a channel now was there before, behind e if it is in r's.
<1>7. ASSUME NEW q \in Refs, NEW i \in DOMAIN wrapper'[q]
      PROVE  \/ q # r /\ i \in DOMAIN wrapper[q] /\ wrapper'[q][i] = wrapper[q][i]
             \/ q = r /\ i \in Nat /\ i + 1 \in DOMAIN wrapper[q] /\ 1 < i + 1
                  /\ wrapper'[q][i] = wrapper[q][i + 1]
  BY <1>2, <1>3 DEF box
<1>8. ASSUME NEW q \in Refs, NEW i \in DOMAIN wrapper'[q]
      PROVE  \E k \in DOMAIN wrapper[q] : wrapper'[q][i] = wrapper[q][k]
  BY <1>7
<1>9. Numbered'
  <2>1. \A q \in Refs : \A i \in DOMAIN wrapper'[q] : wrapper'[q][i].n <= sent'[wrapper'[q][i].from]
    BY <1>2, <1>8 DEF Numbered
  <2>2. e.n <= sent[e.from]
    BY <1>3 DEF Numbered, box
  <2>3. \A i \in DOMAIN queue' : queue'[i].env.n <= sent'[queue'[i].env.from]
    BY <1>2, <1>4, <1>5, <2>2 DEF Numbered
  <2>4. \A w \in Workers : hand'[w].ref \in Refs => hand'[w].env.n <= sent'[hand'[w].env.from]
    BY <1>2 DEF Numbered
  <2>5. QED
    BY <2>1, <2>3, <2>4 DEF Numbered
<1>10. BoxesInOrder'
  <2>1. ASSUME NEW q \in Refs, NEW i \in DOMAIN wrapper'[q], NEW j \in DOMAIN wrapper'[q], i < j
        PROVE  Precedes(wrapper'[q][i], wrapper'[q][j])
    <3>1. CASE q # r
      BY <1>7, <2>1, <3>1 DEF BoxesInOrder
    <3>2. CASE q = r
      <4>1. /\ i \in Nat /\ i + 1 \in DOMAIN wrapper[q] /\ wrapper'[q][i] = wrapper[q][i + 1]
            /\ j \in Nat /\ j + 1 \in DOMAIN wrapper[q] /\ wrapper'[q][j] = wrapper[q][j + 1]
        BY <1>7, <3>2
      <4>2. i + 1 < j + 1
        BY <2>1, <4>1
      <4>3. QED
        BY <4>1, <4>2 DEF BoxesInOrder
    <3>3. QED
      BY <3>1, <3>2
  <2>2. QED
    BY <2>1 DEF BoxesInOrder
<1>11. QueueInOrder'
  <2>1. ASSUME NEW i \in DOMAIN queue', NEW j \in DOMAIN queue', i < j, queue'[i].ref = queue'[j].ref
        PROVE  Precedes(queue'[i].env, queue'[j].env)
    <3>1. i \in DOMAIN queue
      BY <1>5, <1>6, <2>1
    <3>2. CASE j \in DOMAIN queue
      BY <1>5, <2>1, <3>1, <3>2 DEF QueueInOrder
    <3>3. CASE j = Len(queue) + 1
      BY <1>3, <1>4, <1>5, <2>1, <3>1, <3>3 DEF QueueBeforeBoxes, box
    <3>4. QED
      BY <1>5, <3>2, <3>3
  <2>2. QED
    BY <2>1 DEF QueueInOrder
<1>12. QueueBeforeBoxes'
  <2>1. ASSUME NEW i \in DOMAIN queue', NEW q \in Refs, NEW j \in DOMAIN wrapper'[q], queue'[i].ref = q
        PROVE  Precedes(queue'[i].env, wrapper'[q][j])
    <3>1. CASE i \in DOMAIN queue
      BY <1>5, <1>8, <2>1, <3>1 DEF QueueBeforeBoxes
    <3>2. CASE i = Len(queue) + 1
      <4>1. q = r
        BY <1>4, <1>5, <2>1, <3>2
      <4>2. j + 1 \in DOMAIN wrapper[r] /\ 1 < j + 1 /\ wrapper'[q][j] = wrapper[r][j + 1]
        BY <1>7, <4>1
      <4>3. Precedes(wrapper[r][1], wrapper[r][j + 1])
        BY <1>3, <4>2 DEF BoxesInOrder, box
      <4>4. QED
        BY <1>3, <1>4, <1>5, <3>2, <4>2, <4>3 DEF box
    <3>3. QED
      BY <1>5, <3>1, <3>2
  <2>2. QED
    BY <2>1 DEF QueueBeforeBoxes
<1>13. HandsFirst'
  <2>1. ASSUME NEW w \in Workers, NEW q \in Refs, hand[w].ref = q, NEW j \in DOMAIN wrapper'[q]
        PROVE  Precedes(hand[w].env, wrapper'[q][j])
    BY <1>8, <2>1 DEF HandsFirst
  <2>2. ASSUME NEW w \in Workers, NEW q \in Refs, hand[w].ref = q,
               NEW i \in DOMAIN queue', queue'[i].ref = q
        PROVE  Precedes(hand[w].env, queue'[i].env)
    <3>1. CASE i \in DOMAIN queue
      BY <1>5, <2>2, <3>1 DEF HandsFirst
    <3>2. CASE i = Len(queue) + 1
      <4>1. q = r
        BY <1>4, <1>5, <2>2, <3>2
      <4>2. Precedes(hand[w].env, wrapper[r][1])
        BY <1>3, <2>2, <4>1 DEF HandsFirst, box
      <4>3. QED
        BY <1>3, <1>4, <1>5, <3>2, <4>2 DEF box
    <3>3. QED
      BY <1>5, <3>1, <3>2
  <2>3. QED
    BY <1>2, <2>1, <2>2 DEF HandsFirst
<1>14. QED
  BY <1>9, <1>10, <1>11, <1>12, <1>13

\* A worker takes the first envelope of the queue, or drops it.
LEMMA TakingKeepsOrder ==
  ASSUME PoolInv, OrderInv, NEW w \in Workers, TakeNext(w)
  PROVE  OrderInv'
<1> USE DEF OrderInv
<1>1. queue \in Seq(GroupEnvelope) /\ hand \in [Workers -> GroupEnvelope \cup {NoHand}]
  BY DEF PoolInv, QueuesOK, WorkersOK
<1>2. /\ queue # <<>> /\ queue' = Tail(queue) /\ UNCHANGED <<wrapper, sent>>
      /\ hand' = hand \/ hand' = [hand EXCEPT ![w] = Head(queue)]
  BY DEF TakeNext
<1>3. /\ Head(queue) = queue[1] /\ queue[1] \in GroupEnvelope /\ 1 \in DOMAIN queue
      /\ \A i \in DOMAIN queue' :
           i \in Nat /\ i + 1 \in DOMAIN queue /\ 1 < i + 1 /\ queue'[i] = queue[i + 1]
  BY <1>1, <1>2, TailIndices
<1>4. \A v \in Workers : hand'[v] = hand[v] \/ hand'[v] = queue[1]
  BY <1>1, <1>2, <1>3
<1>5. Numbered'
  <2>1. \A i \in DOMAIN queue' : queue'[i].env.n <= sent'[queue'[i].env.from]
    BY <1>2, <1>3 DEF Numbered
  <2>2. \A v \in Workers : hand'[v].ref \in Refs => hand'[v].env.n <= sent'[hand'[v].env.from]
    BY <1>2, <1>3, <1>4 DEF Numbered
  <2>3. QED
    BY <1>2, <2>1, <2>2 DEF Numbered
<1>6. BoxesInOrder'
  BY <1>2 DEF BoxesInOrder
<1>7. QueueInOrder'
  <2>1. ASSUME NEW i \in DOMAIN queue', NEW j \in DOMAIN queue', i < j, queue'[i].ref = queue'[j].ref
        PROVE  Precedes(queue'[i].env, queue'[j].env)
    <3>1. i + 1 < j + 1
      BY <1>3, <2>1
    <3>2. QED
      BY <1>3, <2>1, <3>1 DEF QueueInOrder
  <2>2. QED
    BY <2>1 DEF QueueInOrder
<1>8. QueueBeforeBoxes'
  BY <1>2, <1>3 DEF QueueBeforeBoxes
<1>9. HandsFirst'
  <2>1. ASSUME NEW v \in Workers, NEW q \in Refs, hand'[v].ref = q, NEW j \in DOMAIN wrapper[q]
        PROVE  Precedes(hand'[v].env, wrapper[q][j])
    BY <1>3, <1>4, <2>1 DEF HandsFirst, QueueBeforeBoxes
  <2>2. ASSUME NEW v \in Workers, NEW q \in Refs, hand'[v].ref = q,
               NEW i \in DOMAIN queue', queue'[i].ref = q
        PROVE  Precedes(hand'[v].env, queue'[i].env)
    <3>1. i + 1 \in DOMAIN queue /\ 1 < i + 1 /\ queue'[i] = queue[i + 1]
      BY <1>3
    <3>2. CASE hand'[v] = hand[v]
      BY <2>2, <3>1, <3>2 DEF HandsFirst
    <3>3. CASE hand'[v] = queue[1]
      BY <1>3, <2>2, <3>1, <3>3 DEF QueueInOrder
    <3>4. QED
      BY <1>4, <3>2, <3>3
  <2>3. QED
    BY <1>2, <2>1, <2>2 DEF HandsFirst
<1>10. QED
  BY <1>5, <1>6, <1>7, <1>8, <1>9

\* The order is inductive.
LEMMA NextOrderInv == PoolInv /\ OrderInv /\ [Next]_vars => OrderInv'
<1> SUFFICES ASSUME PoolInv, OrderInv, [Next]_vars PROVE OrderInv'
  OBVIOUS
<1>1. CASE UNCHANGED vars
  BY <1>1, OrderStutters DEF vars, queueVars, workerVars, userVars
<1>2. ASSUME NEW p \in Procs, Sends(p) PROVE OrderInv'
  <2>1. PICK r \in Refs, s \in Actors \cup {None} : UserSends(p, r, s) \/ FastSend(p, r, s)
    BY <1>2, SendersAreMembers DEF Sends
  <2> DEFINE e == NewEnvelope("User", p, sent[p] + 1, s)
             f == NewSyncEnvelope("User", p, sent[p] + 1, s)
  <2>2. e \in Envelope /\ f \in Envelope
    BY NewEnvelopes DEF PoolInv, UsersOK, Kinds
  <2>3. e.from = p /\ e.n = sent[p] + 1 /\ f.from = p /\ f.n = sent[p] + 1
    BY DEF NewEnvelope, NewSyncEnvelope
  <2>4. (Post(p, r, e) \/ Post(p, r, f)) /\ UNCHANGED <<queue, hand>>
    BY <2>1 DEF UserSends, FastSend, Send, workerVars
  <2>5. QED
    BY <2>2, <2>3, <2>4, PostKeepsOrder
<1>3. CASE SendToNext
  <2> DEFINE k == IF at = "start" THEN "Start" ELSE "Shutdown"
             e == NewEnvelope(k, Main, sent[Main] + 1, None)
  <2>1. Main \in Procs /\ Head(todo) \in Refs /\ k \in Kinds /\ sent[Main] + 1 \in Nat
    <3>1. Head(todo) \in Actors
      BY <1>3 DEF SendToNext, PoolInv, MainOK
    <3>2. QED
      BY <3>1, GroupAssumption DEF Procs, Refs, Kinds, PoolInv, UsersOK
  <2>2. e \in Envelope
    BY <2>1, NewEnvelopes
  <2>3. e.from = Main /\ e.n = sent[Main] + 1
    BY DEF NewEnvelope
  <2>4. Post(Main, Head(todo), e) /\ UNCHANGED <<queue, hand>>
    BY <1>3 DEF SendToNext, Send, workerVars
  <2>5. QED
    BY <2>1, <2>2, <2>3, <2>4, PostKeepsOrder
<1>4. ASSUME NEW w \in Workers, ReplyToSender(w) PROVE OrderInv'
  <2> DEFINE m == dest[hand[w].ref]
             e == NewEnvelope("Reply", m, sent[m] + 1, m)
  <2>1. m \in Actors /\ m \in Procs /\ context[m].sender \in Refs
    <3>1. m \in Actors
      BY <1>4 DEF ReplyToSender, PoolInv, WorkersOK, HoldsRightly
    <3>2. QED
      BY <1>4, <3>1 DEF ReplyToSender, PoolInv, UsersOK, Context, Refs, Procs
  <2>2. e \in Envelope
    <3>1. sent[m] + 1 \in Nat /\ m \in Actors \cup {None} /\ "Reply" \in Kinds
      BY <2>1 DEF PoolInv, UsersOK, Kinds
    <3>2. QED
      BY <2>1, <3>1, NewEnvelopes
  <2>3. e.from = m /\ e.n = sent[m] + 1
    BY DEF NewEnvelope
  <2>4. Post(m, context[m].sender, e) /\ UNCHANGED <<queue, hand>>
    BY <1>4 DEF ReplyToSender, Send, workerVars
  <2> HIDE DEF m, e
  <2>5. QED
    BY <2>1, <2>2, <2>3, <2>4, PostKeepsOrder
<1>5. ASSUME NEW r \in Refs, Forward(r) PROVE OrderInv'
  BY <1>5, ForwardKeepsOrder
<1>6. ASSUME NEW w \in Workers, TakeNext(w) PROVE OrderInv'
  BY <1>6, TakingKeepsOrder
<1>7. ASSUME NEW w \in Workers,
             \/ CheckRunning(w) \/ FindNothing(w) \/ DieOnReceiver(w)
             \/ Dispatch(w) \/ ReplyOnChannel(w)
      PROVE  OrderInv'
  <2>1. UNCHANGED <<wrapper, queue, sent, hand>>
    BY <1>7 DEF CheckRunning, FindNothing, DieOnReceiver, Dispatch, ReplyOnChannel,
                queueVars, workerVars, userVars
  <2>2. QED
    BY <2>1, OrderStutters
<1>8. ASSUME NEW w \in Workers, DieOnMember(w) \/ HandlerReturns(w) \/ HandlerPanics(w)
      PROVE  OrderInv'
  <2>1. UNCHANGED <<wrapper, queue, sent>>
    BY <1>8 DEF DieOnMember, HandlerReturns, HandlerPanics, queueVars, userVars
  <2>2. \A v \in Workers : hand'[v] \in {hand[v], NoHand}
    BY <1>8 DEF DieOnMember, HandlerReturns, HandlerPanics, LetGo, PoolInv, WorkersOK
  <2>3. QED
    BY <2>1, <2>2, OrderStutters
<1>9. ASSUME \/ MainCalls \/ SpawnWorkers \/ StopWorkers \/ WaitReturns
             \/ \E m \in Actors : EndMember(m)
             \/ \E p \in Procs : FastSendReturns(p)
      PROVE  OrderInv'
  <2>1. UNCHANGED <<wrapper, queue, sent, hand>>
    BY <1>9 DEF MainCalls, StartEnter, ShutdownEnter, WaitEnter, Add, GetRef, SpawnWorkers,
                StopWorkers, WaitReturns, EndMember, FastSendReturns,
                queueVars, workerVars, userVars
  <2>2. QED
    BY <2>1, OrderStutters
<1>10. QED
  BY <1>1, <1>2, <1>3, <1>4, <1>5, <1>6, <1>7, <1>8, <1>9 DEF Next, InMethod, WorkerThread

\* The order of sending survives two queues and any number of workers: between
\* a reference and the pool no envelope overtakes one that its sender sent
\* through the same reference before.
THEOREM PoolTakesInOrder == Spec => []TakenInOrder
<1>1. ASSUME PoolInv, NEW d \in Envelope, NEW e \in Envelope, Precedes(d, e)
      PROVE  ~Ahead(d, e)
  BY <1>1 DEF Precedes, Ahead, Envelope
<1>2. PoolInv /\ OrderInv => TakenInOrder
  <2> SUFFICES ASSUME PoolInv, OrderInv, NEW r \in Refs
               PROVE  LET box  == wrapper[r]
                          mine == {i \in DOMAIN queue : queue[i].ref = r}
                      IN /\ \A i, j \in DOMAIN box : i < j => ~Ahead(box[i], box[j])
                         /\ \A i, j \in mine : i < j => ~Ahead(queue[i].env, queue[j].env)
                         /\ \A i \in mine, j \in DOMAIN box : ~Ahead(queue[i].env, box[j])
                         /\ \A w \in Workers : hand[w].ref = r =>
                              /\ \A i \in mine : ~Ahead(hand[w].env, queue[i].env)
                              /\ \A i \in DOMAIN box : ~Ahead(hand[w].env, box[i])
    BY DEF TakenInOrder
  <2>1. \A i \in DOMAIN wrapper[r] : wrapper[r][i] \in Envelope
    BY DEF PoolInv, QueuesOK
  <2>2. \A i \in DOMAIN queue : queue[i].env \in Envelope
    <3>1. \A i \in DOMAIN queue : queue[i] \in GroupEnvelope
      BY DEF PoolInv, QueuesOK
    <3>2. QED
      BY <3>1 DEF GroupEnvelope
  <2>3. \A w \in Workers : hand[w].ref = r => hand[w].env \in Envelope
    BY HandIsEnvelope, NoHandIsNoReference DEF GroupEnvelope
  <2>4. \A i, j \in DOMAIN wrapper[r] : i < j => ~Ahead(wrapper[r][i], wrapper[r][j])
    BY <1>1, <2>1 DEF OrderInv, BoxesInOrder
  <2>5. \A i, j \in DOMAIN queue :
          i < j /\ queue[i].ref = r /\ queue[j].ref = r => ~Ahead(queue[i].env, queue[j].env)
    BY <1>1, <2>2 DEF OrderInv, QueueInOrder
  <2>6. \A i \in DOMAIN queue : \A j \in DOMAIN wrapper[r] :
          queue[i].ref = r => ~Ahead(queue[i].env, wrapper[r][j])
    BY <1>1, <2>1, <2>2 DEF OrderInv, QueueBeforeBoxes
  <2>7. ASSUME NEW w \in Workers, hand[w].ref = r
        PROVE  /\ \A i \in DOMAIN queue : queue[i].ref = r => ~Ahead(hand[w].env, queue[i].env)
               /\ \A i \in DOMAIN wrapper[r] : ~Ahead(hand[w].env, wrapper[r][i])
    BY <1>1, <2>1, <2>2, <2>3, <2>7 DEF OrderInv, HandsFirst
  <2>8. QED
    BY <2>4, <2>5, <2>6, <2>7
<1>3. QED
  BY <1>2, InitOrderInv, NextOrderInv, PoolInvHolds, PTL DEF Spec
-----------------------------------------------------------------------------
(***************************************************************************)
(* Calls.  The Sender of a caller's channel moves with its envelope, and   *)
(* then into the context.  CallsInv says that it is in exactly one place   *)
(* while the call is open, and in none otherwise: a call that was answered, *)
(* or dropped, leaves nothing behind that a later call could be answered   *)
(* with.                                                                   *)
(***************************************************************************)
\* e carries the Sender of the call that p made last.
Carries(p, e) == e.sync /\ e.from = p /\ e.n = sent[p]

NoHolder(p) == InWrappers(p) = {} /\ InQueue(p) = {} /\ InHands(p) = {} /\ Keeps(p) = {}

OneHolder(p) ==
  \/ /\ \E r \in Refs : InWrappers(p) = {r}
     /\ InQueue(p) = {} /\ InHands(p) = {} /\ Keeps(p) = {}
  \/ /\ \E i \in DOMAIN queue : InQueue(p) = {i}
     /\ InWrappers(p) = {} /\ InHands(p) = {} /\ Keeps(p) = {}
  \/ /\ \E w \in Workers : InHands(p) = {w}
     /\ InWrappers(p) = {} /\ InQueue(p) = {} /\ Keeps(p) = {}
  \/ /\ \E m \in Actors : Keeps(p) = {m}
     /\ InWrappers(p) = {} /\ InQueue(p) = {} /\ InHands(p) = {}

\* Whoever holds it got it through a reference to the callee.
LeadsToCallee(p) ==
  /\ call[p].callee \in Actors
  /\ \A r \in InWrappers(p) : dest[r] = call[p].callee
  /\ \A i \in InQueue(p) : dest[queue[i].ref] = call[p].callee
  /\ \A w \in InHands(p) : dest[hand[w].ref] = call[p].callee
  /\ \A m \in Keeps(p) : m = call[p].callee

Held(p) ==
  /\ call[p].st = "open" => OneHolder(p) /\ LeadsToCallee(p)
  /\ call[p].st # "open" => NoHolder(p)
  /\ call[p].st = "value" => call[p].answer = Awaited(p)

\* The context of a member that runs is that of the envelope in hand, and Main
\* calls nobody inside a method of Group.
ContextsOK ==
  /\ \A m \in Actors : LET ch == context[m].reply
                       IN ch # NoChannel => ch.n <= sent[ch.to]
  /\ \A w \in Workers, m \in Actors :
       Handles(w, m) => context[m].reply \in {NoChannel, ReplyChannel(hand[w].env)}
  /\ at # "user" => call[Main].st = "idle"

CallsInv == ContextsOK /\ \A p \in Procs : Held(p)

LEMMA AwaitedIsCarried ==
  ASSUME NEW p \in Procs, NEW e \in Envelope
  PROVE  ReplyChannel(e) = Awaited(p) <=> Carries(p, e)
<1>1. p # None
  BY NamesAssumption DEF Procs
<1>2. CASE e.sync
  BY <1>2 DEF ReplyChannel, Awaited, Carries
<1>3. CASE ~e.sync
  BY <1>1, <1>3 DEF ReplyChannel, Awaited, Carries, NoChannel
<1>4. QED
  BY <1>2, <1>3

\* Where the Sender of p's call is, in terms of what envelopes carry.
LEMMA HolderSets ==
  ASSUME PoolInv, NEW p \in Procs
  PROVE  /\ InWrappers(p) = {r \in Refs : \E i \in DOMAIN wrapper[r] : Carries(p, wrapper[r][i])}
         /\ InQueue(p) = {i \in DOMAIN queue : Carries(p, queue[i].env)}
         /\ InHands(p) = {w \in Workers : wpc[w] = "lock" /\ Carries(p, hand[w].env)}
<1>1. \A r \in Refs : \A i \in DOMAIN wrapper[r] : wrapper[r][i] \in Envelope
  BY DEF PoolInv, QueuesOK
<1>2. \A i \in DOMAIN queue : queue[i].env \in Envelope
  <2>1. \A i \in DOMAIN queue : queue[i] \in GroupEnvelope
    BY DEF PoolInv, QueuesOK
  <2>2. QED
    BY <2>1 DEF GroupEnvelope
<1>3. \A w \in Workers : wpc[w] = "lock" => hand[w].env \in Envelope
  BY DEF PoolInv, WorkersOK, HoldsRightly, GroupEnvelope
<1>4. InWrappers(p) = {r \in Refs : \E i \in DOMAIN wrapper[r] : Carries(p, wrapper[r][i])}
  BY <1>1, AwaitedIsCarried DEF InWrappers
<1>5. InQueue(p) = {i \in DOMAIN queue : Carries(p, queue[i].env)}
  BY <1>2, AwaitedIsCarried DEF InQueue
<1>6. InHands(p) = {w \in Workers : wpc[w] = "lock" /\ Carries(p, hand[w].env)}
  BY <1>3, AwaitedIsCarried DEF InHands
<1>7. QED
  BY <1>4, <1>5, <1>6

LEMMA InitCallsInv == Init => CallsInv
<1> SUFFICES ASSUME Init PROVE CallsInv
  OBVIOUS
<1>1. ContextsOK
  BY GroupAssumption DEF Init, ContextsOK, NewContext, Handles
<1>2. ASSUME NEW p \in Procs PROVE Held(p)
  <2>1. call[p] = NoCall
    BY DEF Init
  <2>2. InWrappers(p) = {} /\ InQueue(p) = {} /\ InHands(p) = {}
    BY DEF Init, InWrappers, InQueue, InHands
  <2>3. Keeps(p) = {}
    <3>1. p # None
      BY NamesAssumption DEF Procs
    <3>2. \A m \in Actors : context[m].reply = NoChannel
      BY DEF Init, NewContext
    <3>3. NoChannel # Awaited(p)
      BY <3>1 DEF NoChannel, Awaited
    <3>4. QED
      BY <3>2, <3>3 DEF Keeps
  <2>4. QED
    BY <2>1, <2>2, <2>3 DEF Held, NoHolder, NoCall
<1>3. QED
  BY <1>1, <1>2 DEF CallsInv

\* New references may appear, old ones lead where they led.
DestKept == \A r \in Refs : dest[r] # None => dest'[r] = dest[r]

LEMMA DestIsKept == PoolInv /\ [Next]_vars => DestKept
<1> SUFFICES ASSUME PoolInv, [Next]_vars PROVE DestKept
  OBVIOUS
<1>1. CASE UNCHANGED dest
  BY <1>1 DEF DestKept
<1>2. ASSUME NEW m \in Actors, Add(m) PROVE DestKept
  BY <1>2 DEF Add, DestKept, PoolInv, MapsOK
<1>3. ASSUME NEW m \in Actors, NEW x \in Extras, GetRef(x, m) PROVE DestKept
  BY <1>3 DEF GetRef, DestKept, PoolInv, MapsOK
<1>4. QED
  BY <1>1, <1>2, <1>3 DEF Next, vars, mapVars, MainCalls, InMethod, Sends, WorkerThread,
       StartEnter, ShutdownEnter, WaitEnter,
       SendToNext, SpawnWorkers, StopWorkers, WaitReturns, EndMember,
       UserSends, FastSend, FastSendReturns, Forward,
       CheckRunning, TakeNext, FindNothing, DieOnReceiver, Dispatch, DieOnMember,
       ReplyOnChannel, ReplyToSender, HandlerReturns, HandlerPanics

\* A step that leaves every place alone keeps a call held.
LEMMA HoldersStay ==
  ASSUME PoolInv, DestKept, NEW p \in Procs, Held(p), call'[p] = call[p],
         UNCHANGED <<wrapper, queue, sent, context>>,
         \A w \in Workers : /\ wpc'[w] = "lock" <=> wpc[w] = "lock"
                            /\ wpc[w] = "lock" => hand'[w] = hand[w]
  PROVE  Held(p)'
<1>1. Awaited(p)' = Awaited(p)
  BY DEF Awaited
<1>2. /\ InWrappers(p)' = InWrappers(p) /\ InQueue(p)' = InQueue(p)
      /\ InHands(p)' = InHands(p) /\ Keeps(p)' = Keeps(p)
  BY <1>1 DEF InWrappers, InQueue, InHands, Keeps
<1>3. LeadsToCallee(p) => LeadsToCallee(p)'
  <2> SUFFICES ASSUME LeadsToCallee(p) PROVE LeadsToCallee(p)'
    OBVIOUS
  <2>1. call[p].callee # None
    BY NamesAssumption DEF LeadsToCallee
  <2>2. \A r \in Refs : dest[r] = call[p].callee => dest'[r] = call[p].callee
    BY <2>1 DEF DestKept
  <2>3. \A r \in InWrappers(p) : r \in Refs
    BY DEF InWrappers
  <2>4. \A i \in InQueue(p) : queue[i].ref \in Refs
    <3>1. \A i \in DOMAIN queue : queue[i] \in GroupEnvelope
      BY DEF PoolInv, QueuesOK
    <3>2. QED
      BY <3>1 DEF InQueue, GroupEnvelope
  <2>5. \A w \in InHands(p) : hand[w].ref \in Refs /\ hand'[w] = hand[w]
    BY DEF InHands, PoolInv, WorkersOK, HoldsRightly, GroupEnvelope
  <2>6. QED
    BY <1>2, <2>2, <2>3, <2>4, <2>5 DEF LeadsToCallee
<1>4. OneHolder(p) => OneHolder(p)'
  BY <1>2 DEF OneHolder
<1>5. QED
  BY <1>1, <1>2, <1>3, <1>4 DEF Held, NoHolder

\* Counters only grow, so what contexts keep stays numbered.
LEMMA PostKeepsContexts ==
  ASSUME PoolInv, ContextsOK, NEW p \in Procs, NEW r \in Refs, NEW e, Post(p, r, e),
         UNCHANGED <<dest, wpc, hand, context, at>>,
         at # "user" => call'[Main].st = call[Main].st
  PROVE  ContextsOK'
<1>1. \A q \in Procs : sent[q] \in Nat /\ sent'[q] \in Nat /\ sent[q] <= sent'[q]
  BY DEF PoolInv, UsersOK, Post
<1>2. ASSUME NEW m \in Actors, context[m].reply # NoChannel
      PROVE  context[m].reply.n <= sent'[context[m].reply.to]
  <2>1. context[m].reply \in Channel
    BY <1>2 DEF PoolInv, UsersOK, Context
  <2>2. context[m].reply.to \in Procs /\ context[m].reply.n \in Nat
    BY <2>1 DEF Channel
  <2>3. context[m].reply.n <= sent[context[m].reply.to]
    BY <1>2 DEF ContextsOK
  <2>4. QED
    BY <1>1, <2>2, <2>3
<1>3. QED
  BY <1>2 DEF ContextsOK, Handles

\* HolderSets, as a predicate, before and after a step.
HoldersCarry ==
  \A p \in Procs :
    /\ InWrappers(p) = {r \in Refs : \E i \in DOMAIN wrapper[r] : Carries(p, wrapper[r][i])}
    /\ InQueue(p) = {i \in DOMAIN queue : Carries(p, queue[i].env)}
    /\ InHands(p) = {w \in Workers : wpc[w] = "lock" /\ Carries(p, hand[w].env)}

LEMMA HoldersCarryBefore == PoolInv => HoldersCarry
BY HolderSets DEF HoldersCarry

LEMMA HoldersCarryAfter == PoolInv' => HoldersCarry'
BY HoldersCarryBefore, PTL

\* What a post by p means for the calls of others, and for p's own.
LEMMA PostKeepsOthersHeld ==
  ASSUME PoolInv, PoolInv', CallsInv, NEW p \in Procs, NEW r \in Refs, NEW e \in Envelope,
         e.from = p, Post(p, r, e), UNCHANGED <<dest, queue, wpc, hand, context>>,
         NEW q \in Procs \ {p}, call'[q] = call[q]
  PROVE  Held(q)'
<1>1. wrapper \in [Refs -> Seq(Envelope)] /\ sent \in [Procs -> Nat]
  BY DEF PoolInv, QueuesOK, UsersOK
<1>2. sent'[q] = sent[q]
  BY <1>1 DEF Post
<1>3. Awaited(q)' = Awaited(q)
  BY <1>2 DEF Awaited
<1>4. InQueue(q)' = InQueue(q) /\ InHands(q)' = InHands(q) /\ Keeps(q)' = Keeps(q)
  BY <1>3 DEF InQueue, InHands, Keeps
<1>5. InWrappers(q)' = InWrappers(q)
  <2>1. \A s \in Refs : wrapper'[s] = IF s = r THEN Append(wrapper[r], e) ELSE wrapper[s]
    BY <1>1 DEF Post
  <2>2. /\ DOMAIN Append(wrapper[r], e) = DOMAIN wrapper[r] \cup {Len(wrapper[r]) + 1}
        /\ \A i \in DOMAIN wrapper[r] : Append(wrapper[r], e)[i] = wrapper[r][i]
        /\ Append(wrapper[r], e)[Len(wrapper[r]) + 1] = e
    BY <1>1, AppendIndices
  <2>3. ReplyChannel(e) # Awaited(q)
    BY AwaitedIsCarried DEF Carries
  <2>4. ASSUME NEW s \in Refs
        PROVE  (\E i \in DOMAIN wrapper'[s] : ReplyChannel(wrapper'[s][i]) = Awaited(q))
                 <=> \E i \in DOMAIN wrapper[s] : ReplyChannel(wrapper[s][i]) = Awaited(q)
    BY <2>1, <2>2, <2>3
  <2>5. QED
    BY <1>3, <2>4 DEF InWrappers
<1>6. Held(q)
  BY DEF CallsInv
<1>7. OneHolder(q) => OneHolder(q)'
  BY <1>4, <1>5 DEF OneHolder
<1>8. LeadsToCallee(q) => LeadsToCallee(q)'
  BY <1>4, <1>5 DEF LeadsToCallee
<1>9. QED
  BY <1>3, <1>4, <1>5, <1>6, <1>7, <1>8 DEF Held, NoHolder

\* Nobody else holds the Sender of a call that p makes now, and nobody holds one
\* if p sends without a call.
LEMMA PostIsNew ==
  ASSUME PoolInv, PoolInv', OrderInv, ContextsOK,
         NEW p \in Procs, NEW r \in Refs, NEW e \in Envelope,
         e.from = p, e.n = sent[p] + 1, Post(p, r, e), UNCHANGED <<queue, wpc, hand, context>>
  PROVE  /\ InQueue(p)' = {} /\ InHands(p)' = {} /\ Keeps(p)' = {}
         /\ InWrappers(p)' = IF e.sync THEN {r} ELSE {}
<1>1. wrapper \in [Refs -> Seq(Envelope)] /\ sent \in [Procs -> Nat]
  BY DEF PoolInv, QueuesOK, UsersOK
<1>2. sent'[p] = sent[p] + 1 /\ sent[p] \in Nat
  BY <1>1 DEF Post
<1>3. HoldersCarry'
  BY HoldersCarryAfter
<1>4. ASSUME NEW d \in Envelope, d.n <= sent[d.from] PROVE ~Carries(p, d)'
  <2>1. d.n \in Nat
    BY DEF Envelope
  <2>2. QED
    BY <1>2, <1>4, <2>1 DEF Carries
<1>5. InQueue(p)' = {}
  <2>1. \A i \in DOMAIN queue : queue[i] \in GroupEnvelope
    BY DEF PoolInv, QueuesOK
  <2>2. ASSUME NEW i \in DOMAIN queue PROVE ~Carries(p, queue[i].env)'
    BY <1>4, <2>1 DEF GroupEnvelope, OrderInv, Numbered
  <2>3. QED
    BY <1>3, <2>2 DEF HoldersCarry, Carries
<1>6. InHands(p)' = {}
  <2>1. ASSUME NEW w \in Workers, wpc[w] = "lock" PROVE ~Carries(p, hand[w].env)'
    <3>1. hand[w] \in GroupEnvelope
      BY <2>1 DEF PoolInv, WorkersOK, HoldsRightly
    <3>2. QED
      BY <1>4, <3>1 DEF GroupEnvelope, OrderInv, Numbered
  <2>2. QED
    BY <1>3, <2>1 DEF HoldersCarry, Carries
<1>7. Keeps(p)' = {}
  <2>1. ASSUME NEW m \in Actors PROVE context[m].reply # Awaited(p)'
    <3>1. p # None
      BY NamesAssumption DEF Procs
    <3>2. CASE context[m].reply = NoChannel
      BY <3>1, <3>2 DEF Awaited, NoChannel
    <3>3. CASE context[m].reply # NoChannel
      <4>1. context[m].reply.n <= sent[context[m].reply.to]
        BY <3>3 DEF ContextsOK
      <4>2. QED
        BY <1>2, <4>1 DEF Awaited
    <3>4. QED
      BY <3>2, <3>3
  <2>2. QED
    BY <2>1 DEF Keeps
<1>8. InWrappers(p)' = IF e.sync THEN {r} ELSE {}
  <2>1. \A s \in Refs : wrapper'[s] = IF s = r THEN Append(wrapper[r], e) ELSE wrapper[s]
    BY <1>1 DEF Post
  <2>2. /\ DOMAIN Append(wrapper[r], e) = DOMAIN wrapper[r] \cup {Len(wrapper[r]) + 1}
        /\ \A i \in DOMAIN wrapper[r] : Append(wrapper[r], e)[i] = wrapper[r][i]
        /\ Append(wrapper[r], e)[Len(wrapper[r]) + 1] = e
    BY <1>1, AppendIndices
  <2>3. ASSUME NEW s \in Refs, NEW i \in DOMAIN wrapper[s]
        PROVE  ~(wrapper[s][i].sync /\ wrapper[s][i].from = p /\ wrapper[s][i].n = sent'[p])
    <3>1. wrapper[s][i] \in Envelope /\ wrapper[s][i].n <= sent[wrapper[s][i].from]
      BY <1>1 DEF OrderInv, Numbered
    <3>2. wrapper[s][i].n \in Nat
      BY <3>1 DEF Envelope
    <3>3. QED
      BY <1>2, <3>1, <3>2
  <2>4. ASSUME NEW s \in Refs
        PROVE  (\E i \in DOMAIN wrapper'[s] : Carries(p, wrapper[s][i])') <=> e.sync /\ s = r
    <3>1. CASE s # r
      BY <2>1, <2>3, <3>1 DEF Carries
    <3>2. CASE s = r
      <4>1. wrapper'[s] = Append(wrapper[r], e)
        BY <2>1, <3>2
      <4>2. \A i \in DOMAIN wrapper'[s] : Carries(p, wrapper[s][i])' <=> e.sync /\ i = Len(wrapper[r]) + 1
        BY <1>2, <2>2, <2>3, <3>2, <4>1 DEF Carries
      <4>3. QED
        BY <2>2, <3>2, <4>1, <4>2
    <3>3. QED
      BY <3>1, <3>2
  <2>5. QED
    BY <1>3, <2>4 DEF HoldersCarry
<1>9. QED
  BY <1>5, <1>6, <1>7, <1>8

\* A send without a call, by somebody who is in none.
LEMMA SendKeepsCalls ==
  ASSUME PoolInv, PoolInv', OrderInv, CallsInv,
         NEW p \in Procs, NEW r \in Refs, NEW e \in Envelope,
         e.from = p, e.n = sent[p] + 1, ~e.sync, Post(p, r, e), call[p].st = "idle",
         UNCHANGED <<dest, queue, workerVars, context, call, at>>
  PROVE  CallsInv'
<1>1. UNCHANGED <<wpc, hand>>
  BY DEF workerVars
<1>2. \A q \in Procs \ {p} : Held(q)'
  BY <1>1, PostKeepsOthersHeld
<1>3. NoHolder(p)'
  BY <1>1, PostIsNew DEF NoHolder, CallsInv
<1>4. Held(p)'
  BY <1>3 DEF Held
<1>5. ContextsOK'
  BY <1>1, PostKeepsContexts DEF CallsInv
<1>6. QED
  BY <1>2, <1>4, <1>5 DEF CallsInv

\* The caller's channel goes into the channel of the forwarder, and nowhere else.
LEMMA FastSendKeepsCalls ==
  ASSUME PoolInv, PoolInv', OrderInv, CallsInv,
         NEW p \in Procs, NEW r \in Refs, NEW s \in Actors \cup {None}, FastSend(p, r, s)
  PROVE  CallsInv'
<1> DEFINE e == NewSyncEnvelope("User", p, sent[p] + 1, s)
<1>1. e \in Envelope
  BY NewEnvelopes DEF PoolInv, UsersOK, Kinds
<1>2. e.from = p /\ e.n = sent[p] + 1 /\ e.sync
  BY DEF NewSyncEnvelope
<1>3. /\ Post(p, r, e) /\ UNCHANGED <<dest, queue, wpc, hand, context, at>>
      /\ call' = [call EXCEPT ![p] = [st |-> "open", callee |-> dest[r], answer |-> NoChannel]]
      /\ Runs(p)
  BY DEF FastSend, mapVars, workerVars, mainVars
<1> HIDE DEF e
<1>4. \A q \in Procs \ {p} : call'[q] = call[q]
  BY <1>3 DEF PoolInv, UsersOK
<1>5. \A q \in Procs \ {p} : Held(q)'
  BY <1>1, <1>2, <1>3, <1>4, PostKeepsOthersHeld
<1>6. InQueue(p)' = {} /\ InHands(p)' = {} /\ Keeps(p)' = {} /\ InWrappers(p)' = {r}
  BY <1>1, <1>2, <1>3, PostIsNew DEF CallsInv
<1>7. call'[p].st = "open" /\ call'[p].callee = dest[r]
  BY <1>3 DEF PoolInv, UsersOK
<1>8. dest[r] \in Actors
  BY <1>3 DEF Post, PoolInv, MapsOK
<1>9. Held(p)'
  <2>1. LeadsToCallee(p)'
    BY <1>3, <1>6, <1>7, <1>8 DEF LeadsToCallee
  <2>2. OneHolder(p)'
    BY <1>6 DEF OneHolder
  <2>3. QED
    BY <1>7, <2>1, <2>2 DEF Held
<1>10. at # "user" => Main # p
  BY <1>3 DEF Runs
<1>11. Main \in Procs
  BY GroupAssumption DEF Procs
<1>12. ContextsOK'
  BY <1>3, <1>4, <1>10, <1>11, PostKeepsContexts DEF CallsInv
<1>13. QED
  BY <1>5, <1>9, <1>12 DEF CallsInv

\* The forwarder hands a Sender on with its envelope.
LEMMA ForwardKeepsCalls ==
  ASSUME PoolInv, PoolInv', OrderInv, CallsInv, NEW r \in Refs, Forward(r)
  PROVE  CallsInv'
<1> DEFINE box == wrapper[r]
           g == [ref |-> r, env |-> box[1]]
           k == Len(queue) + 1
<1>1. wrapper \in [Refs -> Seq(Envelope)] /\ queue \in Seq(GroupEnvelope)
  BY DEF PoolInv, QueuesOK
<1>2. /\ box \in Seq(Envelope) /\ box # <<>>
      /\ UNCHANGED <<dest, hand, wpc, context, call, sent, at>>
      /\ \A q \in Refs : wrapper'[q] = IF q = r THEN Tail(box) ELSE wrapper[q]
  BY <1>1 DEF Forward, mapVars, workerVars, userVars, mainVars
<1>3. /\ Head(box) = box[1] /\ box[1] \in Envelope /\ 1 \in DOMAIN box
      /\ \A i \in DOMAIN Tail(box) :
           i \in Nat /\ i + 1 \in DOMAIN box /\ 1 < i + 1 /\ Tail(box)[i] = box[i + 1]
      /\ \A j \in DOMAIN box : j \in Nat /\ (j # 1 => j - 1 \in DOMAIN Tail(box))
  BY <1>2, TailIndices
<1>4. g \in GroupEnvelope /\ g.ref = r /\ g.env = box[1]
  BY <1>3 DEF GroupEnvelope
<1>5. queue' = Append(queue, g)
  BY <1>3 DEF Forward, Enqueued
<1>6. /\ DOMAIN queue' = DOMAIN queue \cup {k} /\ k \notin DOMAIN queue
      /\ \A i \in DOMAIN queue : queue'[i] = queue[i]
      /\ queue'[k] = g
  BY <1>1, <1>4, <1>5, AppendIndices
<1> HIDE DEF k, g, box
<1>7. HoldersCarry /\ HoldersCarry'
  BY HoldersCarryBefore, HoldersCarryAfter
<1>8. ASSUME NEW p \in Procs PROVE Held(p)'
  <2>1. Held(p) /\ Awaited(p)' = Awaited(p) /\ call'[p] = call[p]
    BY <1>2 DEF CallsInv, Awaited
  <2>2. InHands(p)' = InHands(p) /\ Keeps(p)' = Keeps(p)
    BY <1>2, <2>1 DEF InHands, Keeps
  <2>3. \A q \in Refs \ {r} : q \in InWrappers(p)' <=> q \in InWrappers(p)
    BY <1>2, <2>1 DEF InWrappers
  <2>4. CASE Carries(p, box[1])
    <3>1. r \in InWrappers(p)
      BY <1>3, <1>7, <2>4 DEF HoldersCarry, box
    <3>2. call[p].st = "open" /\ OneHolder(p) /\ LeadsToCallee(p)
      BY <2>1, <3>1 DEF Held, NoHolder
    <3>3. InWrappers(p) = {r} /\ InQueue(p) = {} /\ InHands(p) = {} /\ Keeps(p) = {}
      BY <3>1, <3>2 DEF OneHolder
    <3>4. r \notin InWrappers(p)'
      <4>1. ASSUME NEW i \in DOMAIN Tail(box), Carries(p, Tail(box)[i]) PROVE FALSE
        <5>1. Carries(p, box[i + 1]) /\ i + 1 \in DOMAIN box /\ 1 < i + 1
          BY <1>3, <4>1
        <5>2. Precedes(box[1], box[i + 1])
          BY <1>3, <5>1 DEF OrderInv, BoxesInOrder, box
        <5>3. box[1].n < box[i + 1].n /\ box[1].n = box[i + 1].n /\ box[1].n \in Nat
          BY <1>3, <2>4, <5>1, <5>2 DEF Precedes, Carries, Envelope
        <5>4. QED
          BY <5>3
      <4>2. wrapper'[r] = Tail(box)
        BY <1>2
      <4>3. ~\E i \in DOMAIN wrapper'[r] : Carries(p, wrapper[r][i])'
        BY <1>2, <4>1, <4>2 DEF Carries
      <4>4. QED
        BY <1>7, <4>3 DEF HoldersCarry
    <3>5. InWrappers(p)' = {}
      <4>1. InWrappers(p)' \subseteq Refs
        BY DEF InWrappers
      <4>2. QED
        BY <2>3, <3>3, <3>4, <4>1
    <3>6. InQueue(p)' = {k}
      <4>1. \A i \in DOMAIN queue : ~Carries(p, queue[i].env)
        BY <1>7, <3>3 DEF HoldersCarry
      <4>2. \A i \in DOMAIN queue' : Carries(p, queue'[i].env) <=> i = k
        BY <1>4, <1>6, <2>4, <4>1
      <4>3. InQueue(p)' = {i \in DOMAIN queue' : Carries(p, queue[i].env)'}
        BY <1>7 DEF HoldersCarry
      <4>4. \A i \in DOMAIN queue' : Carries(p, queue[i].env)' <=> Carries(p, queue'[i].env)
        BY <1>2 DEF Carries
      <4>5. QED
        BY <1>6, <4>2, <4>3, <4>4
    <3>7. OneHolder(p)'
      BY <1>6, <2>2, <3>3, <3>5, <3>6 DEF OneHolder
    <3>8. LeadsToCallee(p)'
      <4>1. dest'[queue'[k].ref] = call[p].callee
        BY <1>2, <1>4, <1>6, <3>1, <3>2 DEF LeadsToCallee
      <4>2. QED
        BY <2>1, <2>2, <3>2, <3>3, <3>5, <3>6, <4>1 DEF LeadsToCallee
    <3>9. QED
      BY <2>1, <3>2, <3>7, <3>8 DEF Held
  <2>5. CASE ~Carries(p, box[1])
    <3>1. r \in InWrappers(p)' <=> r \in InWrappers(p)
      <4>1. (\E i \in DOMAIN Tail(box) : Carries(p, Tail(box)[i])) <=> \E i \in DOMAIN box : Carries(p, box[i])
        <5>1. ASSUME NEW j \in DOMAIN box, Carries(p, box[j])
              PROVE  \E i \in DOMAIN Tail(box) : Carries(p, Tail(box)[i])
          <6>1. j # 1 /\ j \in Nat /\ j - 1 \in DOMAIN Tail(box)
            BY <1>3, <2>5, <5>1
          <6>2. Tail(box)[j - 1] = box[(j - 1) + 1] /\ (j - 1) + 1 = j
            BY <1>3, <6>1
          <6>3. QED
            BY <5>1, <6>1, <6>2
        <5>2. QED
          BY <1>3, <5>1
      <4>2. wrapper'[r] = Tail(box)
        BY <1>2
      <4>3. r \in InWrappers(p)' <=> \E i \in DOMAIN wrapper'[r] : Carries(p, wrapper[r][i])'
        BY <1>7 DEF HoldersCarry
      <4>4. r \in InWrappers(p) <=> \E i \in DOMAIN box : Carries(p, box[i])
        BY <1>7 DEF HoldersCarry, box
      <4>5. \A i : Carries(p, wrapper[r][i])' <=> Carries(p, Tail(box)[i])
        BY <1>2, <4>2 DEF Carries
      <4>6. QED
        BY <4>1, <4>2, <4>3, <4>4, <4>5
    <3>2. InWrappers(p)' = InWrappers(p)
      <4>1. InWrappers(p)' \subseteq Refs /\ InWrappers(p) \subseteq Refs
        BY DEF InWrappers
      <4>2. QED
        BY <2>3, <3>1, <4>1
    <3>3. InQueue(p)' = InQueue(p)
      <4>1. InQueue(p)' = {i \in DOMAIN queue' : Carries(p, queue[i].env)'}
        BY <1>7 DEF HoldersCarry
      <4>2. \A i \in DOMAIN queue' : Carries(p, queue[i].env)' <=> Carries(p, queue'[i].env)
        BY <1>2 DEF Carries
      <4>3. InQueue(p) = {i \in DOMAIN queue : Carries(p, queue[i].env)}
        BY <1>7 DEF HoldersCarry
      <4>4. QED
        BY <1>4, <1>6, <2>5, <4>1, <4>2, <4>3
    <3>4. OneHolder(p) => OneHolder(p)'
      BY <1>6, <2>2, <3>2, <3>3 DEF OneHolder
    <3>5. LeadsToCallee(p) => LeadsToCallee(p)'
      <4>1. \A i \in InQueue(p) : queue'[i] = queue[i]
        BY <1>6 DEF InQueue
      <4>2. QED
        BY <1>2, <2>2, <3>2, <3>3, <4>1 DEF LeadsToCallee
    <3>6. QED
      BY <2>1, <2>2, <3>2, <3>3, <3>4, <3>5 DEF Held, NoHolder
  <2>6. QED
    BY <2>4, <2>5
<1>9. ContextsOK'
  BY <1>2 DEF CallsInv, ContextsOK, Handles
<1>10. QED
  BY <1>8, <1>9 DEF CallsInv

\* What becomes of a call when the Sender of a channel is dropped.
LEMMA CloseAt ==
  ASSUME PoolInv, NEW p \in Procs, NEW ch
  PROVE  /\ call[p].st = "open" /\ ch = Awaited(p) => Close(ch)[p].st = "closed"
         /\ ~(call[p].st = "open" /\ ch = Awaited(p)) => Close(ch)[p] = call[p]
BY DEF PoolInv, UsersOK, GroupCall, Close, Awaited

\* A worker takes the first envelope of the queue with the Sender it carries, or
\* drops both.
LEMMA TakingKeepsCalls ==
  ASSUME PoolInv, PoolInv', OrderInv, CallsInv, NEW w \in Workers, TakeNext(w)
  PROVE  CallsInv'
<1> DEFINE e == queue[1].env
           m == dest[queue[1].ref]
<1>1. queue \in Seq(GroupEnvelope) /\ queue # <<>>
  BY DEF PoolInv, QueuesOK, TakeNext
<1>2. /\ Head(queue) = queue[1] /\ queue[1] \in GroupEnvelope /\ 1 \in DOMAIN queue
      /\ Tail(queue) \in Seq(GroupEnvelope)
      /\ \A i \in DOMAIN Tail(queue) :
           i \in Nat /\ i + 1 \in DOMAIN queue /\ 1 < i + 1 /\ Tail(queue)[i] = queue[i + 1]
      /\ \A j \in DOMAIN queue : j \in Nat /\ (j # 1 => j - 1 \in DOMAIN Tail(queue))
  BY <1>1, TailIndices
<1>3. e \in Envelope /\ queue[1].ref \in Refs
  BY <1>2 DEF GroupEnvelope
<1>4. /\ queue' = Tail(queue) /\ UNCHANGED <<dest, wrapper, context, sent, at>>
      /\ wpc[w] \in {"take", "drain"}
  BY DEF TakeNext, mapVars, mainVars
<1>5. \/ /\ Finds(w, m) /\ hand' = [hand EXCEPT ![w] = queue[1]]
         /\ wpc' = [wpc EXCEPT ![w] = "lock"] /\ call' = call
      \/ /\ ~Finds(w, m) /\ call' = Close(ReplyChannel(e)) /\ hand' = hand
         /\ wpc'[w] \in {"drain", "check"} /\ \A v \in Workers \ {w} : wpc'[v] = wpc[v]
  BY <1>2 DEF TakeNext, AfterDiscard, PoolInv, WorkersOK
<1>6. HoldersCarry /\ HoldersCarry'
  BY HoldersCarryBefore, HoldersCarryAfter
<1>7. \A v \in Workers \ {w} : wpc'[v] = wpc[v] /\ hand'[v] = hand[v]
  BY <1>5 DEF PoolInv, WorkersOK
<1> HIDE DEF e, m
<1>8. ASSUME NEW p \in Procs PROVE Held(p)'
  <2>1. Held(p) /\ Awaited(p)' = Awaited(p)
    BY <1>4 DEF CallsInv, Awaited
  <2>2. InWrappers(p)' = InWrappers(p) /\ Keeps(p)' = Keeps(p)
    BY <1>4, <2>1 DEF InWrappers, Keeps
  <2>3. \A i : i \in InQueue(p)' <=> i \in DOMAIN Tail(queue) /\ i + 1 \in InQueue(p)
    <3>1. InQueue(p)' = {i \in DOMAIN Tail(queue) : ReplyChannel(Tail(queue)[i].env) = Awaited(p)}
      BY <1>4, <2>1 DEF InQueue
    <3>2. QED
      BY <1>2, <3>1 DEF InQueue
  <2>4. w \notin InHands(p)
    BY <1>4 DEF InHands
  <2>5. \A v \in Workers \ {w} : v \in InHands(p)' <=> v \in InHands(p)
    BY <1>7, <2>1 DEF InHands
  <2>6. InHands(p) \subseteq Workers /\ InHands(p)' \subseteq Workers
    BY DEF InHands
  <2>7. ReplyChannel(e) = Awaited(p) <=> 1 \in InQueue(p)
    BY <1>2 DEF InQueue, e
  <2>8. CASE 1 \in InQueue(p)
    <3>1. call[p].st = "open" /\ OneHolder(p) /\ LeadsToCallee(p)
      BY <2>1, <2>8 DEF Held, NoHolder
    <3>2. InQueue(p) = {1} /\ InWrappers(p) = {} /\ InHands(p) = {} /\ Keeps(p) = {}
      BY <2>8, <3>1 DEF OneHolder
    <3>3. InQueue(p)' = {}
      BY <1>2, <2>3, <3>2
    <3>4. CASE Finds(w, m)
      <4>1. wpc'[w] = "lock" /\ hand'[w] = queue[1] /\ call' = call
        BY <1>5, <3>4 DEF PoolInv, WorkersOK
      <4>2. w \in InHands(p)'
        BY <2>1, <2>7, <2>8, <4>1 DEF InHands, e
      <4>3. InHands(p)' = {w}
        BY <2>5, <2>6, <3>2, <4>2
      <4>4. OneHolder(p)'
        BY <2>2, <3>2, <3>3, <4>3 DEF OneHolder
      <4>5. dest'[hand'[w].ref] = call[p].callee
        BY <1>4, <2>8, <3>1, <4>1 DEF LeadsToCallee
      <4>6. LeadsToCallee(p)'
        BY <2>2, <3>1, <3>2, <3>3, <4>1, <4>3, <4>5 DEF LeadsToCallee
      <4>7. QED
        BY <3>1, <4>1, <4>4, <4>6 DEF Held
    <3>5. CASE ~Finds(w, m)
      <4>1. call' = Close(ReplyChannel(e)) /\ wpc'[w] # "lock"
        BY <1>5, <3>5
      <4>2. call'[p].st = "closed"
        BY <2>7, <2>8, <3>1, <4>1, CloseAt
      <4>3. w \notin InHands(p)'
        BY <4>1 DEF InHands
      <4>4. InHands(p)' = {}
        BY <2>5, <2>6, <3>2, <4>3
      <4>5. QED
        BY <2>2, <3>2, <3>3, <4>2, <4>4 DEF Held, NoHolder
    <3>6. QED
      BY <3>4, <3>5
  <2>9. CASE 1 \notin InQueue(p)
    <3>1. call'[p] = call[p]
      BY <1>5, <2>7, <2>9, CloseAt
    <3>2. w \notin InHands(p)'
      <4>1. CASE Finds(w, m)
        <5>1. hand'[w] = queue[1]
          BY <1>5, <4>1 DEF PoolInv, WorkersOK
        <5>2. QED
          BY <2>1, <2>7, <2>9, <5>1 DEF InHands, e
      <4>2. CASE ~Finds(w, m)
        BY <1>5, <4>2 DEF InHands
      <4>3. QED
        BY <4>1, <4>2
    <3>3. InHands(p)' = InHands(p)
      BY <2>4, <2>5, <2>6, <3>2
    <3>4. InQueue(p) \subseteq DOMAIN queue /\ InQueue(p)' \subseteq DOMAIN queue'
      BY DEF InQueue
    <3>5. \A j \in InQueue(p) : j \in Nat /\ j - 1 \in InQueue(p)'
      <4>1. ASSUME NEW j \in InQueue(p) PROVE j \in Nat /\ j - 1 \in InQueue(p)'
        <5>1. j \in Nat /\ j - 1 \in DOMAIN Tail(queue)
          BY <1>2, <2>9, <3>4
        <5>2. (j - 1) + 1 = j
          BY <5>1
        <5>3. QED
          BY <2>3, <5>1, <5>2
      <4>2. QED
        BY <4>1
    <3>6. OneHolder(p) => OneHolder(p)'
      <4>1. InQueue(p) = {} => InQueue(p)' = {}
        BY <2>3
      <4>2. ASSUME NEW j \in DOMAIN queue, InQueue(p) = {j}
            PROVE  \E i \in DOMAIN queue' : InQueue(p)' = {i}
        <5>1. j - 1 \in InQueue(p)' /\ j \in Nat
          BY <3>5, <4>2
        <5>2. ASSUME NEW i \in InQueue(p)' PROVE i = j - 1
          <6>1. i \in Nat /\ i + 1 = j
            BY <1>2, <2>3, <4>2
          <6>2. QED
            BY <5>1, <6>1
        <5>3. QED
          BY <3>4, <5>1, <5>2
      <4>3. QED
        BY <2>2, <3>3, <4>1, <4>2 DEF OneHolder
    <3>7. NoHolder(p) => NoHolder(p)'
      BY <2>2, <2>3, <3>3 DEF NoHolder
    <3>8. LeadsToCallee(p) => LeadsToCallee(p)'
      <4>1. \A i \in InQueue(p)' : i + 1 \in InQueue(p) /\ queue'[i] = queue[i + 1]
        BY <1>2, <1>4, <2>3
      <4>2. \A v \in InHands(p) : hand'[v] = hand[v]
        BY <1>7, <2>4, <2>6
      <4>3. ASSUME LeadsToCallee(p) PROVE LeadsToCallee(p)'
        <5>1. call'[p].callee = call[p].callee /\ call[p].callee \in Actors
          BY <3>1, <4>3 DEF LeadsToCallee
        <5>2. \A i \in InQueue(p)' : dest'[queue'[i].ref] = call[p].callee
          BY <1>4, <4>1, <4>3 DEF LeadsToCallee
        <5>3. \A v \in InHands(p)' : dest'[hand'[v].ref] = call[p].callee
          BY <1>4, <3>3, <4>2, <4>3 DEF LeadsToCallee
        <5>4. /\ \A r \in InWrappers(p)' : dest'[r] = call[p].callee
              /\ \A n \in Keeps(p)' : n = call[p].callee
          BY <1>4, <2>2, <4>3 DEF LeadsToCallee
        <5>5. QED
          BY <5>1, <5>2, <5>3, <5>4 DEF LeadsToCallee
      <4>4. QED
        BY <4>3
    <3>9. QED
      BY <2>1, <3>1, <3>6, <3>7, <3>8 DEF Held
  <2>10. QED
    BY <2>8, <2>9
<1>9. ContextsOK'
  <2>1. \A v \in Workers, n \in Actors : Handles(v, n)' => Handles(v, n) /\ hand'[v] = hand[v]
    BY <1>4, <1>5, <1>7 DEF Handles, PoolInv, WorkersOK
  <2>2. call[Main].st = "idle" => call'[Main].st = "idle"
    BY <1>5, GroupAssumption, CloseAt DEF Procs
  <2>3. QED
    BY <1>4, <2>1, <2>2 DEF CallsInv, ContextsOK
<1>10. QED
  BY <1>8, <1>9 DEF CallsInv

\* The Sender goes from the hand into the context; the one that the context
\* held before is dropped.
LEMMA DispatchKeepsCalls ==
  ASSUME PoolInv, OrderInv, CallsInv, NEW w \in Workers, Dispatch(w)
  PROVE  CallsInv'
<1> DEFINE e   == hand[w].env
           m   == dest[hand[w].ref]
           old == context[m].reply
           new == ReplyChannel(e)
<1>1. wpc[w] = "lock" /\ m \in Actors /\ Free(m)
  BY DEF Dispatch, PoolInv, WorkersOK, HoldsRightly
<1>2. /\ UNCHANGED <<dest, wrapper, queue, hand, sent, at>>
      /\ call' = Close(old)
      /\ wpc' = [wpc EXCEPT ![w] = "handle"]
      /\ \A n \in Actors : context'[n].reply = IF n = m THEN new ELSE context[n].reply
  BY <1>1 DEF Dispatch, mapVars, queueVars, mainVars, PoolInv, UsersOK, PrepareForEnvelope
<1>3. \A v \in Workers : wpc'[v] = IF v = w THEN "handle" ELSE wpc[v]
  BY <1>2 DEF PoolInv, WorkersOK
<1>4. e \in Envelope
  BY <1>1 DEF PoolInv, WorkersOK, HoldsRightly, GroupEnvelope
<1> HIDE DEF e, m, old, new
<1>5. ASSUME NEW p \in Procs PROVE Held(p)'
  <2>1. Held(p) /\ Awaited(p)' = Awaited(p)
    BY <1>2 DEF CallsInv, Awaited
  <2>2. InWrappers(p)' = InWrappers(p) /\ InQueue(p)' = InQueue(p)
    BY <1>2, <2>1 DEF InWrappers, InQueue
  <2>3. InHands(p)' = InHands(p) \ {w}
    BY <1>2, <1>3, <2>1 DEF InHands
  <2>4. Keeps(p)' = IF new = Awaited(p) THEN Keeps(p) \cup {m} ELSE Keeps(p) \ {m}
    <3>1. \A n \in Actors : n \in Keeps(p)' <=> IF n = m THEN new = Awaited(p) ELSE n \in Keeps(p)
      BY <1>2, <2>1 DEF Keeps
    <3>2. Keeps(p) \subseteq Actors /\ Keeps(p)' \subseteq Actors
      BY DEF Keeps
    <3>3. CASE new = Awaited(p)
      BY <1>1, <3>1, <3>2, <3>3
    <3>4. CASE new # Awaited(p)
      BY <1>1, <3>1, <3>2, <3>4
    <3>5. QED
      BY <3>3, <3>4
  <2>5. w \in InHands(p) <=> new = Awaited(p)
    BY <1>1 DEF InHands, new, e
  <2>6. m \in Keeps(p) <=> old = Awaited(p)
    BY <1>1 DEF Keeps, old
  <2>7. CASE old = Awaited(p)
    <3>1. call[p].st = "open" /\ OneHolder(p)
      BY <2>1, <2>6, <2>7 DEF Held, NoHolder
    <3>2. Keeps(p) = {m} /\ InWrappers(p) = {} /\ InQueue(p) = {} /\ InHands(p) = {}
      BY <2>6, <2>7, <3>1 DEF OneHolder
    <3>3. NoHolder(p)'
      BY <2>2, <2>3, <2>4, <2>5, <3>2 DEF NoHolder
    <3>4. call'[p].st = "closed"
      BY <1>2, <2>7, <3>1, CloseAt
    <3>5. QED
      BY <3>3, <3>4 DEF Held
  <2>8. CASE new = Awaited(p) /\ old # Awaited(p)
    <3>1. call[p].st = "open" /\ OneHolder(p) /\ LeadsToCallee(p)
      BY <2>1, <2>5, <2>8 DEF Held, NoHolder
    <3>2. InHands(p) = {w} /\ InWrappers(p) = {} /\ InQueue(p) = {} /\ Keeps(p) = {}
      BY <2>5, <2>8, <3>1 DEF OneHolder
    <3>3. InHands(p)' = {} /\ Keeps(p)' = {m}
      BY <2>3, <2>4, <2>8, <3>2
    <3>4. OneHolder(p)'
      BY <1>1, <2>2, <3>2, <3>3 DEF OneHolder
    <3>5. call'[p] = call[p]
      BY <1>2, <2>8, CloseAt
    <3>6. m = call[p].callee
      BY <3>1, <3>2 DEF LeadsToCallee, m
    <3>7. LeadsToCallee(p)'
      BY <1>1, <2>2, <3>2, <3>3, <3>5, <3>6 DEF LeadsToCallee
    <3>8. QED
      BY <3>1, <3>4, <3>5, <3>7 DEF Held
  <2>9. CASE new # Awaited(p) /\ old # Awaited(p)
    <3>1. InHands(p)' = InHands(p) /\ Keeps(p)' = Keeps(p)
      BY <2>3, <2>4, <2>5, <2>6, <2>9
    <3>2. call'[p] = call[p]
      BY <1>2, <2>9, CloseAt
    <3>3. (OneHolder(p) => OneHolder(p)') /\ (NoHolder(p) => NoHolder(p)')
      BY <1>2, <2>2, <3>1 DEF OneHolder, NoHolder
    <3>4. LeadsToCallee(p) => LeadsToCallee(p)'
      BY <1>2, <2>2, <3>1, <3>2 DEF LeadsToCallee
    <3>5. QED
      BY <2>1, <3>2, <3>3, <3>4 DEF Held
  <2>10. QED
    BY <2>7, <2>8, <2>9
<1>6. ContextsOK'
  <2>1. ASSUME NEW n \in Actors, context'[n].reply # NoChannel
        PROVE  context'[n].reply.n <= sent'[context'[n].reply.to]
    <3>1. CASE n # m
      BY <1>2, <2>1, <3>1 DEF CallsInv, ContextsOK
    <3>2. CASE n = m
      <4>1. new = [to |-> e.from, n |-> e.n]
        BY <1>2, <2>1, <3>2 DEF new, ReplyChannel
      <4>2. e.n <= sent[e.from]
        <5>1. hand[w].ref \in Refs
          BY <1>1 DEF PoolInv, WorkersOK, HoldsRightly, GroupEnvelope
        <5>2. QED
          BY <5>1 DEF e, OrderInv, Numbered
      <4>3. QED
        BY <1>2, <3>2, <4>1, <4>2
    <3>3. QED
      BY <3>1, <3>2
  <2>2. ASSUME NEW v \in Workers, NEW n \in Actors, Handles(v, n)'
        PROVE  context'[n].reply \in {NoChannel, ReplyChannel(hand'[v].env)}
    <3>1. CASE v = w
      BY <1>2, <1>3, <2>2, <3>1 DEF Handles, m, new, e
    <3>2. CASE v # w
      <4>1. Handles(v, n)
        BY <1>2, <1>3, <2>2, <3>2 DEF Handles
      <4>2. n # m
        BY <1>1, <4>1 DEF Free
      <4>3. QED
        BY <1>2, <4>1, <4>2 DEF CallsInv, ContextsOK
    <3>3. QED
      BY <3>1, <3>2
  <2>3. call[Main].st = "idle" => call'[Main].st = "idle"
    BY <1>2, GroupAssumption, CloseAt DEF Procs
  <2>4. QED
    BY <1>2, <2>1, <2>2, <2>3 DEF CallsInv, ContextsOK
<1>7. QED
  BY <1>5, <1>6 DEF CallsInv

\* A worker that dies on a poisoned member drops what it holds.
LEMMA DyingKeepsCalls ==
  ASSUME PoolInv, CallsInv, NEW w \in Workers, DieOnMember(w)
  PROVE  CallsInv'
<1> DEFINE ch == ReplyChannel(hand[w].env)
<1>1. wpc[w] = "lock"
  BY DEF DieOnMember
<1>2. /\ UNCHANGED <<dest, wrapper, queue, sent, at, context>>
      /\ call' = Close(ch)
      /\ \A v \in Workers : wpc'[v] = IF v = w THEN "dead" ELSE wpc[v]
      /\ \A v \in Workers \ {w} : hand'[v] = hand[v]
  BY DEF DieOnMember, LetGo, AfterDiscard, mapVars, queueVars, mainVars, PoolInv, WorkersOK
<1> HIDE DEF ch
<1>3. ASSUME NEW p \in Procs PROVE Held(p)'
  <2>1. Held(p) /\ Awaited(p)' = Awaited(p)
    BY <1>2 DEF CallsInv, Awaited
  <2>2. /\ InWrappers(p)' = InWrappers(p) /\ InQueue(p)' = InQueue(p)
        /\ Keeps(p)' = Keeps(p)
    BY <1>2, <2>1 DEF InWrappers, InQueue, Keeps
  <2>3. InHands(p)' = InHands(p) \ {w}
    BY <1>2, <2>1 DEF InHands
  <2>4. w \in InHands(p) <=> ch = Awaited(p)
    BY <1>1 DEF InHands, ch
  <2>5. CASE ch = Awaited(p)
    <3>1. call[p].st = "open" /\ OneHolder(p)
      BY <2>1, <2>4, <2>5 DEF Held, NoHolder
    <3>2. InHands(p) = {w} /\ InWrappers(p) = {} /\ InQueue(p) = {} /\ Keeps(p) = {}
      BY <2>4, <2>5, <3>1 DEF OneHolder
    <3>3. NoHolder(p)'
      BY <2>2, <2>3, <3>2 DEF NoHolder
    <3>4. call'[p].st = "closed"
      BY <1>2, <2>5, <3>1, CloseAt
    <3>5. QED
      BY <3>3, <3>4 DEF Held
  <2>6. CASE ch # Awaited(p)
    <3>1. InHands(p)' = InHands(p) /\ w \notin InHands(p)
      BY <2>3, <2>4, <2>6
    <3>2. call'[p] = call[p]
      BY <1>2, <2>6, CloseAt
    <3>3. (OneHolder(p) => OneHolder(p)') /\ (NoHolder(p) => NoHolder(p)')
      BY <1>2, <2>2, <3>1 DEF OneHolder, NoHolder
    <3>4. LeadsToCallee(p) => LeadsToCallee(p)'
      <4>1. \A v \in InHands(p) : hand'[v] = hand[v]
        BY <1>2, <3>1 DEF InHands
      <4>2. QED
        BY <1>2, <2>2, <3>1, <3>2, <4>1 DEF LeadsToCallee
    <3>5. QED
      BY <2>1, <3>2, <3>3, <3>4 DEF Held
  <2>7. QED
    BY <2>5, <2>6
<1>4. ContextsOK'
  <2>1. \A v \in Workers, n \in Actors : Handles(v, n)' => Handles(v, n) /\ hand'[v] = hand[v]
    BY <1>2 DEF Handles
  <2>2. call[Main].st = "idle" => call'[Main].st = "idle"
    BY <1>2, GroupAssumption, CloseAt DEF Procs
  <2>3. QED
    BY <1>2, <2>1, <2>2 DEF CallsInv, ContextsOK
<1>5. QED
  BY <1>3, <1>4 DEF CallsInv

\* A reply goes to the caller whose Sender it uses up.
LEMMA ReplyKeepsCalls ==
  ASSUME PoolInv, CallsInv, NEW w \in Workers, ReplyOnChannel(w)
  PROVE  CallsInv'
<1> DEFINE m  == dest[hand[w].ref]
           ch == context[m].reply
           id == [to |-> hand[w].env.from, n |-> hand[w].env.n]
<1>1. wpc[w] = "handle" /\ m \in Actors /\ ch # NoChannel
  BY DEF ReplyOnChannel, PoolInv, WorkersOK, HoldsRightly
<1>2. ch \in Channel
  BY <1>1 DEF PoolInv, UsersOK, Context
<1>3. ch = id
  <2>1. ch = ReplyChannel(hand[w].env)
    BY <1>1 DEF CallsInv, ContextsOK, Handles
  <2>2. QED
    BY <1>1, <2>1 DEF ReplyChannel
<1>4. /\ UNCHANGED <<dest, wrapper, queue, hand, wpc, sent, at>>
      /\ \A n \in Actors : context'[n].reply = IF n = m THEN NoChannel ELSE context[n].reply
  BY <1>1 DEF ReplyOnChannel, mapVars, queueVars, workerVars, mainVars, PoolInv, UsersOK, Context
<1>5. call' = IF call[ch.to].st = "open" /\ sent[ch.to] = ch.n
              THEN [call EXCEPT ![ch.to] = [@ EXCEPT !.st = "value", !.answer = id]]
              ELSE call
  BY DEF ReplyOnChannel
<1> HIDE DEF m, ch, id
<1>6. \A p \in Procs : ch = Awaited(p) <=> ch.to = p /\ ch.n = sent[p]
  BY <1>2 DEF Channel, Awaited
<1>7. ASSUME NEW p \in Procs PROVE Held(p)'
  <2>1. Held(p) /\ Awaited(p)' = Awaited(p)
    BY <1>4 DEF CallsInv, Awaited
  <2>2. /\ InWrappers(p)' = InWrappers(p) /\ InQueue(p)' = InQueue(p)
        /\ InHands(p)' = InHands(p)
    BY <1>4, <2>1 DEF InWrappers, InQueue, InHands
  <2>3. NoChannel # Awaited(p)
    BY NamesAssumption DEF NoChannel, Awaited, Procs
  <2>4. Keeps(p)' = Keeps(p) \ {m}
    BY <1>4, <2>1, <2>3 DEF Keeps
  <2>5. m \in Keeps(p) <=> ch = Awaited(p)
    BY <1>1 DEF Keeps, ch
  <2>6. CASE ch = Awaited(p)
    <3>1. call[p].st = "open" /\ OneHolder(p)
      BY <2>1, <2>5, <2>6 DEF Held, NoHolder
    <3>2. Keeps(p) = {m} /\ InWrappers(p) = {} /\ InQueue(p) = {} /\ InHands(p) = {}
      BY <2>5, <2>6, <3>1 DEF OneHolder
    <3>3. NoHolder(p)'
      BY <2>2, <2>4, <3>2 DEF NoHolder
    <3>4. call'[p].st = "value" /\ call'[p].answer = id
      BY <1>5, <1>6, <2>6, <3>1 DEF PoolInv, UsersOK, GroupCall
    <3>5. QED
      BY <1>3, <2>1, <2>6, <3>3, <3>4 DEF Held
  <2>7. CASE ch # Awaited(p)
    <3>1. Keeps(p)' = Keeps(p)
      BY <2>4, <2>5, <2>7
    <3>2. call'[p] = call[p]
      BY <1>5, <1>6, <2>7 DEF PoolInv, UsersOK
    <3>3. (OneHolder(p) => OneHolder(p)') /\ (NoHolder(p) => NoHolder(p)')
      BY <1>4, <2>2, <3>1 DEF OneHolder, NoHolder
    <3>4. LeadsToCallee(p) => LeadsToCallee(p)'
      BY <1>4, <2>2, <3>1, <3>2 DEF LeadsToCallee
    <3>5. QED
      BY <2>1, <3>2, <3>3, <3>4 DEF Held
  <2>8. QED
    BY <2>6, <2>7
<1>8. ContextsOK'
  <2>1. call[Main].st = "idle" => call'[Main].st = "idle"
    BY <1>2, <1>5, GroupAssumption DEF Procs, PoolInv, UsersOK, Channel
  <2>2. \A v \in Workers, n \in Actors : Handles(v, n)' <=> Handles(v, n)
    BY <1>4 DEF Handles
  <2>3. QED
    BY <1>4, <2>1, <2>2 DEF CallsInv, ContextsOK
<1>9. QED
  BY <1>7, <1>8 DEF CallsInv

\* Every other step of a worker, and every method of Group, leaves the places
\* alone; so does a caller that goes on.
LEMMA QuietStepsKeepCalls ==
  ASSUME PoolInv, DestKept, CallsInv,
         UNCHANGED <<wrapper, queue, sent, context>>,
         \A p \in Procs : \/ call'[p] = call[p]
                          \/ call[p].st # "open" /\ call'[p] = NoCall,
         \A w \in Workers : /\ wpc'[w] = "lock" <=> wpc[w] = "lock"
                            /\ wpc'[w] = "handle" => wpc[w] = "handle"
                            /\ wpc'[w] \in {"lock", "handle"} => hand'[w] = hand[w],
         at' # "user" => at # "user" \/ call[Main].st = "idle"
  PROVE  CallsInv'
<1>1. ASSUME NEW p \in Procs PROVE Held(p)'
  <2>1. Held(p)
    BY DEF CallsInv
  <2>2. CASE call'[p] = call[p]
    BY <2>1, <2>2, HoldersStay
  <2>3. CASE call[p].st # "open" /\ call'[p] = NoCall
    <3>1. Awaited(p)' = Awaited(p)
      BY DEF Awaited
    <3>2. /\ InWrappers(p)' = InWrappers(p) /\ InQueue(p)' = InQueue(p)
          /\ InHands(p)' = InHands(p) /\ Keeps(p)' = Keeps(p)
      BY <3>1 DEF InWrappers, InQueue, InHands, Keeps
    <3>3. QED
      BY <2>1, <2>3, <3>2 DEF Held, NoHolder, NoCall
  <2>4. QED
    BY <2>2, <2>3
<1>2. ContextsOK'
  <2>1. ASSUME NEW w \in Workers, NEW m \in Actors, Handles(w, m)'
        PROVE  Handles(w, m) /\ hand'[w] = hand[w]
    <3>1. hand'[w] = hand[w] /\ wpc[w] = "handle"
      BY <2>1 DEF Handles
    <3>2. hand[w].ref \in Refs /\ dest[hand[w].ref] # None
      BY <3>1, NamesAssumption DEF PoolInv, WorkersOK, HoldsRightly, GroupEnvelope
    <3>3. QED
      BY <2>1, <3>1, <3>2 DEF Handles, DestKept
  <2>2. at' # "user" => call'[Main].st = "idle"
    BY GroupAssumption DEF CallsInv, ContextsOK, Procs, NoCall
  <2>3. QED
    BY <2>1, <2>2 DEF CallsInv, ContextsOK
<1>3. QED
  BY <1>1, <1>2 DEF CallsInv

\* The places are inductive.
LEMMA NextCallsInv == PoolInv /\ OrderInv /\ CallsInv /\ [Next]_vars => CallsInv'
<1> SUFFICES ASSUME PoolInv, OrderInv, CallsInv, [Next]_vars PROVE CallsInv'
  OBVIOUS
<1>0. PoolInv' /\ DestKept
  BY NextPoolInv, DestIsKept
<1>1. CASE UNCHANGED vars
  BY <1>0, <1>1, QuietStepsKeepCalls DEF vars, queueVars, workerVars, userVars, mainVars
<1>2. ASSUME NEW p \in Procs, Sends(p) PROVE CallsInv'
  <2>1. PICK r \in Refs, s \in Actors \cup {None} : UserSends(p, r, s) \/ FastSend(p, r, s)
    BY <1>2, SendersAreMembers DEF Sends
  <2>2. CASE FastSend(p, r, s)
    BY <1>0, <2>2, FastSendKeepsCalls
  <2>3. CASE UserSends(p, r, s)
    <3> DEFINE e == NewEnvelope("User", p, sent[p] + 1, s)
    <3>1. e \in Envelope
      BY NewEnvelopes DEF PoolInv, UsersOK, Kinds
    <3>2. e.from = p /\ e.n = sent[p] + 1 /\ ~e.sync
      BY DEF NewEnvelope
    <3>3. /\ Post(p, r, e) /\ call[p].st = "idle"
          /\ UNCHANGED <<dest, queue, workerVars, context, call, at>>
      BY <2>3 DEF UserSends, Send, Runs, mapVars, mainVars
    <3>4. QED
      BY <1>0, <3>1, <3>2, <3>3, SendKeepsCalls
  <2>4. QED
    BY <2>1, <2>2, <2>3
<1>3. CASE SendToNext
  <2> DEFINE k == IF at = "start" THEN "Start" ELSE "Shutdown"
             e == NewEnvelope(k, Main, sent[Main] + 1, None)
  <2>1. Main \in Procs /\ Head(todo) \in Refs /\ k \in Kinds /\ sent[Main] + 1 \in Nat
    <3>1. Head(todo) \in Actors
      BY <1>3 DEF SendToNext, PoolInv, MainOK
    <3>2. QED
      BY <3>1, GroupAssumption DEF Procs, Refs, Kinds, PoolInv, UsersOK
  <2>2. e \in Envelope
    BY <2>1, NewEnvelopes
  <2>3. e.from = Main /\ e.n = sent[Main] + 1 /\ ~e.sync
    BY DEF NewEnvelope
  <2>4. /\ Post(Main, Head(todo), e) /\ call[Main].st = "idle"
        /\ UNCHANGED <<dest, queue, workerVars, context, call, at>>
    BY <1>3 DEF SendToNext, Send, mapVars, CallsInv, ContextsOK
  <2> HIDE DEF e
  <2>5. QED
    BY <1>0, <2>1, <2>2, <2>3, <2>4, SendKeepsCalls
<1>4. ASSUME NEW w \in Workers, ReplyToSender(w) PROVE CallsInv'
  <2> DEFINE m == dest[hand[w].ref]
             e == NewEnvelope("Reply", m, sent[m] + 1, m)
  <2>1. m \in Actors /\ m \in Procs /\ context[m].sender \in Refs
    <3>1. m \in Actors
      BY <1>4 DEF ReplyToSender, PoolInv, WorkersOK, HoldsRightly
    <3>2. QED
      BY <1>4, <3>1 DEF ReplyToSender, PoolInv, UsersOK, Context, Refs, Procs
  <2>2. e \in Envelope
    <3>1. sent[m] + 1 \in Nat /\ m \in Actors \cup {None} /\ "Reply" \in Kinds
      BY <2>1 DEF PoolInv, UsersOK, Kinds
    <3>2. QED
      BY <2>1, <3>1, NewEnvelopes
  <2>3. e.from = m /\ e.n = sent[m] + 1 /\ ~e.sync
    BY DEF NewEnvelope
  <2>4. /\ Post(m, context[m].sender, e) /\ call[m].st = "idle"
        /\ UNCHANGED <<dest, queue, workerVars, context, call, at>>
    BY <1>4 DEF ReplyToSender, Send, Runs, mapVars, mainVars
  <2> HIDE DEF m, e
  <2>5. QED
    BY <1>0, <2>1, <2>2, <2>3, <2>4, SendKeepsCalls
<1>5. ASSUME NEW r \in Refs, Forward(r) PROVE CallsInv'
  BY <1>0, <1>5, ForwardKeepsCalls
<1>6. ASSUME NEW w \in Workers, TakeNext(w) PROVE CallsInv'
  BY <1>0, <1>6, TakingKeepsCalls
<1>7. ASSUME NEW w \in Workers, Dispatch(w) \/ DieOnMember(w) \/ ReplyOnChannel(w)
      PROVE  CallsInv'
  BY <1>7, DispatchKeepsCalls, DyingKeepsCalls, ReplyKeepsCalls
<1>8. ASSUME NEW w \in Workers,
             \/ CheckRunning(w) \/ FindNothing(w) \/ DieOnReceiver(w)
             \/ HandlerReturns(w) \/ HandlerPanics(w)
      PROVE  CallsInv'
  <2>1. UNCHANGED <<wrapper, queue, sent, context, call, at>>
    BY <1>8 DEF CheckRunning, FindNothing, DieOnReceiver, HandlerReturns, HandlerPanics,
                queueVars, userVars, mainVars
  <2>2. /\ wpc[w] \notin {"lock", "absent"} /\ wpc'[w] \notin {"lock", "handle"}
        /\ \A v \in Workers \ {w} : wpc'[v] = wpc[v] /\ hand'[v] = hand[v]
    BY <1>8 DEF CheckRunning, FindNothing, DieOnReceiver, HandlerReturns, HandlerPanics,
                AfterCheck, LetGo, PoolInv, WorkersOK, WPC
  <2>3. QED
    BY <1>0, <2>1, <2>2, QuietStepsKeepCalls
<1>9. CASE SpawnWorkers
  <2>1. UNCHANGED <<wrapper, queue, sent, context, call, hand>> /\ at' = "user"
    BY <1>9 DEF SpawnWorkers, queueVars, userVars
  <2>2. \A w \in Workers : wpc'[w] = wpc[w] \/ (wpc[w] = "absent" /\ wpc'[w] = "check")
    BY <1>9 DEF SpawnWorkers, Unused
  <2>3. QED
    BY <1>0, <2>1, <2>2, QuietStepsKeepCalls
<1>10. ASSUME \/ MainCalls \/ StopWorkers \/ WaitReturns
              \/ \E m \in Actors : EndMember(m)
       PROVE  CallsInv'
  <2>1. UNCHANGED <<wrapper, queue, sent, context, call, wpc, hand>>
    BY <1>10 DEF MainCalls, StartEnter, ShutdownEnter, WaitEnter, Add, GetRef,
                 StopWorkers, WaitReturns, EndMember, queueVars, workerVars, userVars
  <2>2. at' # "user" => at # "user" \/ call[Main].st = "idle"
    BY <1>10 DEF MainCalls, StartEnter, ShutdownEnter, WaitEnter, Add, GetRef,
                 StopWorkers, WaitReturns, EndMember, Runs, mainVars
  <2>3. QED
    BY <1>0, <2>1, <2>2, QuietStepsKeepCalls
<1>11. ASSUME NEW p \in Procs, FastSendReturns(p) PROVE CallsInv'
  <2>1. UNCHANGED <<wrapper, queue, sent, context, wpc, hand, at>>
    BY <1>11 DEF FastSendReturns, queueVars, workerVars, mainVars
  <2>2. /\ call[p].st # "open" /\ call'[p] = NoCall
        /\ \A q \in Procs \ {p} : call'[q] = call[q]
    BY <1>11 DEF FastSendReturns, PoolInv, UsersOK
  <2>3. QED
    BY <1>0, <2>1, <2>2, QuietStepsKeepCalls
<1>12. QED
  BY <1>1, <1>2, <1>3, <1>4, <1>5, <1>6, <1>7, <1>8, <1>9, <1>10, <1>11
     DEF Next, InMethod, WorkerThread

\* The three invariants hold for ever.
LEMMA CallsInvHolds == Spec => [](PoolInv /\ OrderInv /\ CallsInv)
BY InitPoolInv, InitOrderInv, InitCallsInv, NextPoolInv, NextOrderInv, NextCallsInv, PTL DEF Spec

\* However many workers, forwarders and references there are, a caller blocked
\* in fast_send to the pool is waited for by exactly one Sender, no Sender is
\* left of a call that is over, and a call is answered by a reply to itself.
THEOREM PoolCallersAreHeld == Spec => []GroupCallerIsHeld
<1>1. CallsInv => GroupCallerIsHeld
  <2> DEFINE Holders(p) == Cardinality(InWrappers(p)) + Cardinality(InQueue(p))
                             + Cardinality(InHands(p)) + Cardinality(Keeps(p))
  <2> SUFFICES ASSUME CallsInv, NEW p \in Procs
               PROVE  /\ Holders(p) = IF call[p].st = "open" THEN 1 ELSE 0
                      /\ call[p].st = "open" => Keeps(p) \subseteq {call[p].callee}
                      /\ call[p].st = "value" => call[p].answer = Awaited(p)
    BY DEF GroupCallerIsHeld
  <2>1. Held(p)
    BY DEF CallsInv
  <2>2. Cardinality({}) = 0
    BY FS_EmptySet
  <2>3. \A x : Cardinality({x}) = 1
    BY FS_Singleton, Zenon
  <2>4. OneHolder(p) =>
          \/ /\ Cardinality(InWrappers(p)) = 1 /\ Cardinality(InQueue(p)) = 0
             /\ Cardinality(InHands(p)) = 0 /\ Cardinality(Keeps(p)) = 0
          \/ /\ Cardinality(InWrappers(p)) = 0 /\ Cardinality(InQueue(p)) = 1
             /\ Cardinality(InHands(p)) = 0 /\ Cardinality(Keeps(p)) = 0
          \/ /\ Cardinality(InWrappers(p)) = 0 /\ Cardinality(InQueue(p)) = 0
             /\ Cardinality(InHands(p)) = 1 /\ Cardinality(Keeps(p)) = 0
          \/ /\ Cardinality(InWrappers(p)) = 0 /\ Cardinality(InQueue(p)) = 0
             /\ Cardinality(InHands(p)) = 0 /\ Cardinality(Keeps(p)) = 1
    BY <2>2, <2>3 DEF OneHolder
  <2>5. OneHolder(p) => Holders(p) = 1
    BY <2>4
  <2>6. NoHolder(p) => Holders(p) = 0
    BY <2>2 DEF NoHolder
  <2>7. QED
    BY <2>1, <2>5, <2>6 DEF Held, LeadsToCallee
<1>2. QED
  BY <1>1, CallsInvHolds, PTL
=============================================================================
