------------------------------- MODULE Timer -------------------------------
(***************************************************************************)
(* Timers: src/src/timer.rs on top of ActorRuntime.                        *)
(*                                                                         *)
(* A Timer is a value with a flag and a thread of its own, which sends     *)
(* Timeout to one actor: once, or again and again.  Whoever creates it     *)
(* keeps it, may cancel() it, and drops it, which cancels it and joins its *)
(* thread.  Time is abstracted: a sleep takes any number of steps of the   *)
(* others.                                                                 *)
(*                                                                         *)
(* An actor keeps its timers in its own fields.  ActorRuntime's first      *)
(* field is the actor, so when a thread ends or unwinds the timers of its  *)
(* actor are dropped before the mailbox is.                                *)
(***************************************************************************)
EXTENDS ActorRuntime

CONSTANT Timers  \* the timers that may be created, named by their threads

ASSUME TimerAssumption == /\ Timers \subseteq Clients
                          /\ {"User", "Timeout"} \subseteq ClientKinds

VARIABLES
  thread,  \* where the thread of each timer is
  kind,    \* made by Timer::once or by Timer::periodic
  target,  \* the actor a timer sends to
  flag,    \* the AtomicBool that the Timer and its thread share
  owner,   \* who has created the Timer and keeps it
  hold,    \* the Timer value: kept, being dropped, or gone
  late,    \* history: Timeouts sent while the flag was false, up to 2
  raced    \* history: the thread was about to send when the flag was cleared

timerVars == <<thread, kind, target, flag, owner, hold, late, raced>>
vars == <<runtimeVars, timerVars>>

TimerInit ==
  /\ Init
  /\ thread = [t \in Timers |-> "absent"]
  /\ kind   = [t \in Timers |-> "once"]
  /\ target = [t \in Timers |-> None]
  /\ flag   = [t \in Timers |-> FALSE]
  /\ owner  = [t \in Timers |-> None]
  /\ hold   = [t \in Timers |-> "none"]
  /\ late   = [t \in Timers |-> 0]
  /\ raced  = [t \in Timers |-> FALSE]
-----------------------------------------------------------------------------
\* p is inside Timer::drop, blocked in the join.
Dropping(p) == \E t \in Timers : owner[t] = p /\ hold[t] = "dropping"

Keeping(p, t) == owner[t] = p /\ hold[t] = "held"

\* p's own code runs and is neither in a fast_send nor in a drop.
Acts(p) == p \notin Timers /\ Runs(p) /\ ~Dropping(p)

\* Timer::once and Timer::periodic.
Create(p, t, k, b) ==
  /\ Acts(p) /\ thread[t] = "absent" /\ pc[b] # "absent"
  /\ thread' = [thread EXCEPT ![t] = IF k = "once" THEN "sleep" ELSE "test"]
  /\ kind'   = [kind EXCEPT ![t] = k]
  /\ target' = [target EXCEPT ![t] = b]
  /\ flag'   = [flag EXCEPT ![t] = TRUE]
  /\ owner'  = [owner EXCEPT ![t] = p]
  /\ hold'   = [hold EXCEPT ![t] = "held"]
  /\ UNCHANGED <<runtimeVars, late, raced>>

\* self.running.store(false)
ClearFlag(t) ==
  /\ flag'  = [flag EXCEPT ![t] = FALSE]
  /\ raced' = [raced EXCEPT ![t] = @ \/ (flag[t] /\ thread[t] = "fire")]

Cancel(p, t) ==
  /\ Acts(p) /\ Keeping(p, t)
  /\ ClearFlag(t)
  /\ UNCHANGED <<runtimeVars, thread, kind, target, owner, hold, late>>

\* Timer::drop up to the join.
Drop(p, t) ==
  /\ Acts(p) /\ Keeping(p, t)
  /\ ClearFlag(t)
  /\ hold' = [hold EXCEPT ![t] = "dropping"]
  /\ UNCHANGED <<runtimeVars, thread, kind, target, owner, late>>

\* Mutant: the drop does not wait for the thread.
MutDetaches(t) == TRUE

\* The join returns.
Over(t) == thread[t] = "done"

Joined(t) ==
  /\ hold[t] = "dropping" /\ Over(t)
  /\ hold' = [hold EXCEPT ![t] = "dropped"]
  /\ UNCHANGED <<runtimeVars, thread, kind, target, flag, owner, late, raced>>
-----------------------------------------------------------------------------
\* Mutant: the flag is not tested again after the sleep.
MutFiresBlindly(t) == TRUE

\* Mutant: the test after the sleep is the wrong way round.
MutFiresWhenCancelled(t) == ~flag[t]

\* The test between the sleep and the send.
Armed(t) == flag[t]

\* Mutant: a one-shot timer goes on like a periodic one.
MutFiresAgain(t) == "test"

\* A one-shot thread returns, a periodic one goes back to its loop condition.
AfterRound(t) == IF kind[t] = "once" THEN "done" ELSE "test"

\* Mutant: the loop of a periodic timer does not look at the flag.
MutLoopsForever(t) == "sleep"

\* The loop condition of a periodic timer.
AfterTest(t) == IF flag[t] THEN "sleep" ELSE "done"

\* A step of the thread of t that sends nothing.
Moves(t, from, to) ==
  /\ thread[t] = from
  /\ thread' = [thread EXCEPT ![t] = to]
  /\ UNCHANGED <<runtimeVars, kind, target, flag, owner, hold, late, raced>>

\* Bound: a timer that has used up its sends sleeps until it is cancelled.
Elapse(t) == (flag[t] => sent[t] < MaxSends[t]) /\ Moves(t, "sleep", "check")

Check(t) == Moves(t, "check", IF Armed(t) THEN "fire" ELSE AfterRound(t))

Fire(t) ==
  /\ thread[t] = "fire"
  /\ Send(t, target[t], "Timeout", None)
  /\ thread' = [thread EXCEPT ![t] = AfterRound(t)]
  /\ late'   = [late EXCEPT ![t] = IF flag[t] \/ @ = 2 THEN @ ELSE @ + 1]
  /\ UNCHANGED <<kind, target, flag, owner, hold, raced>>

Test(t) == Moves(t, "test", AfterTest(t))

TimerThread(t) == Elapse(t) \/ Check(t) \/ Fire(t) \/ Test(t)
-----------------------------------------------------------------------------
\* A step of an actor's thread; the last one comes after its timers are gone.
ActorStep(a) ==
  /\ ActorThread(a) /\ ~Dropping(a)
  /\ pc'[a] \in Dead => \A t \in Timers : ~Keeping(a, t)
  /\ UNCHANGED timerVars

\* An actor that is over drops what it keeps.
FinalDrop(a) == pc[a] = "end" /\ \E t \in Timers : Drop(a, t)

\* Other clients; only timers send Timeout.
ClientStep(c) ==
  /\ Sends(c, {"User"}) \/ FastSendReturns(c)
  /\ ~Dropping(c)
  /\ UNCHANGED timerVars

Outside(a) == (New(a) \/ Spawn(a) \/ Stop(a)) /\ UNCHANGED timerVars

TimerNext ==
  \/ \E a \in Actors : ActorStep(a) \/ Outside(a)
  \/ \E c \in Clients \ Timers : ClientStep(c)
  \/ \E p \in Procs, t \in Timers :
       \/ \E k \in {"once", "periodic"}, b \in Actors : Create(p, t, k, b)
       \/ Cancel(p, t) \/ Drop(p, t)
  \/ \E t \in Timers : TimerThread(t) \/ Joined(t)

TimerSpec == TimerInit /\ [][TimerNext]_vars

\* All threads run and all sleeps end.  Nothing makes user code cancel or drop
\* a timer, except that an actor whose thread ends drops its own.
TimerFairness ==
  /\ \A a \in Actors : WF_vars(ActorStep(a) \/ FinalDrop(a))
  /\ \A p \in Procs : WF_vars(FastSendReturns(p) /\ UNCHANGED timerVars)
  /\ \A t \in Timers : WF_vars(TimerThread(t)) /\ WF_vars(Joined(t))

FairTimerSpec == TimerSpec /\ TimerFairness
-----------------------------------------------------------------------------
\* Types of the timers' variables; a Timer that is being dropped is cancelled,
\* and a one-shot timer sends at most one Timeout.
TimerTypeOK ==
  /\ thread \in [Timers -> {"absent", "sleep", "check", "fire", "test", "done"}]
  /\ kind   \in [Timers -> {"once", "periodic"}]
  /\ target \in [Timers -> Actors \cup {None}]
  /\ flag   \in [Timers -> BOOLEAN]
  /\ owner  \in [Timers -> Procs \cup {None}]
  /\ hold   \in [Timers -> {"none", "held", "dropping", "dropped"}]
  /\ late   \in [Timers -> 0 .. 2]
  /\ raced  \in [Timers -> BOOLEAN]
  /\ \A t \in Timers :
       /\ thread[t] = "absent" <=> hold[t] = "none"
       /\ thread[t] = "absent" <=> target[t] = None
       /\ flag[t] => hold[t] = "held"
       /\ kind[t] = "once" => sent[t] <= 1

\* Whenever a timer is cancelled, no Timeout comes after cancel() unless its
\* thread was already past its test, and then a single one: the flag is tested
\* again between the sleep and the send (timer.rs:57, 79).
LateOnlyInRace == \A t \in Timers : late[t] <= IF raced[t] THEN 1 ELSE 0

\* Once drop() has returned the timer sends nothing: it joined the thread, and
\* did not just raise the flag (timer.rs:107-109).
SilentAfterDrop ==
  [][\A t \in Timers : hold[t] = "dropped" => sent'[t] = sent[t]]_vars

\* A one-shot timer sends its Timeout unless it was cancelled or dropped.
OneShotFiresUnlessCancelled ==
  \A t \in Timers : kind[t] = "once" /\ thread[t] = "sleep" ~>
                      thread[t] = "done" /\ (sent[t] = 1 \/ ~flag[t])

\* drop() returns, whatever its timer was doing and also when an actor drops a
\* timer that sends to itself: the thread it joins never waits for an actor.
DropReturns == \A t \in Timers : hold[t] = "dropping" ~> hold[t] = "dropped"

\* A caller whose callee is blocked in drop() is answered too: timers add no
\* way to block one to those of ActorRuntime!Hopeless.
CallReturnsInSpiteOfTimers == CallReturnsUnlessHopeless
-----------------------------------------------------------------------------
\* timer.rs:93 says of cancel(): "No more Timeout messages will be sent after
\* this call."  The thread may be between its test and its send.
NoTimeoutAfterCancel ==
  [][\A t \in Timers : sent'[t] > sent[t] => flag[t]]_vars

\* examples/timer_example.rs:117: "Timer is dropped immediately, so the
\* callback will still fire".  Dropping it cancels it.
DroppedTimerStillFires ==
  \A t \in Timers : kind[t] = "once" /\ flag[t] ~>
                      sent[t] = 1 \/ (hold[t] = "held" /\ ~flag[t])
=============================================================================
