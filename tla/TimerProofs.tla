---------------------------- MODULE TimerProofs ----------------------------
(***************************************************************************)
(* Proofs about Timer, for any actors, clients, timers and bounds.         *)
(*                                                                         *)
(* TimerInv says of every timer what its flag, the place of its thread and *)
(* what it has sent have to do with each other.  Nobody but its thread     *)
(* sends in its name, so an induction over the steps of that timer and of  *)
(* its owner is enough.                                                    *)
(***************************************************************************)
EXTENDS Timer, ActorRuntimeProofs

USE DEF Procs

\* A thread that is about to send has sent nothing too late yet, and found its
\* flag up: if the flag is down by now, it was cleared in between.
RaceOK(t) ==
  /\ late[t] <= IF raced[t] THEN 1 ELSE 0
  /\ flag[t] => late[t] = 0
  /\ thread[t] = "fire" => late[t] = 0 /\ (flag[t] \/ raced[t])
  /\ thread[t] = "absent" => late[t] = 0

\* A one-shot timer has sent nothing before its round, and never tests again.
OnceOK(t) ==
  /\ thread[t] = "absent" => sent[t] = 0
  /\ kind[t] = "once" =>
       /\ thread[t] # "test"
       /\ thread[t] \in {"sleep", "check", "fire"} => sent[t] = 0

\* What holds of each timer.
OneTimerOK(t) ==
  /\ thread[t] \in {"absent", "sleep", "check", "fire", "test", "done"}
  /\ kind[t] \in {"once", "periodic"}
  /\ target[t] \in Actors \cup {None}
  /\ flag[t] \in BOOLEAN /\ raced[t] \in BOOLEAN
  /\ owner[t] \in Procs \cup {None}
  /\ hold[t] \in {"none", "held", "dropping", "dropped"}
  /\ late[t] \in 0 .. 2
  /\ thread[t] = "absent" <=> hold[t] = "none"
  /\ thread[t] = "absent" <=> target[t] = None
  /\ flag[t] => hold[t] = "held"
  /\ kind[t] = "once" => sent[t] <= 1
  /\ hold[t] = "dropped" => thread[t] = "done"
  /\ RaceOK(t) /\ OnceOK(t)

\* Its variables are functions over the timers.
Domains ==
  /\ thread = [t \in Timers |-> thread[t]] /\ kind = [t \in Timers |-> kind[t]]
  /\ target = [t \in Timers |-> target[t]] /\ flag = [t \in Timers |-> flag[t]]
  /\ owner = [t \in Timers |-> owner[t]]   /\ hold = [t \in Timers |-> hold[t]]
  /\ late = [t \in Timers |-> late[t]]     /\ raced = [t \in Timers |-> raced[t]]

TimerInv == TypeOK /\ Domains /\ \A t \in Timers : OneTimerOK(t)
-----------------------------------------------------------------------------
\* Whatever a timer or its owner does is a step of the runtime.
LEMMA TimerStepsAreRuntimeSteps ==
  TimerTypeOK /\ [TimerNext]_vars => [Next]_runtimeVars
<1> SUFFICES ASSUME TimerTypeOK, [TimerNext]_vars PROVE [Next]_runtimeVars
  OBVIOUS
<1>1. ASSUME NEW t \in Timers, Fire(t) PROVE Next
  <2>1. t \in Clients /\ "Timeout" \in ClientKinds
    BY TimerAssumption
  <2>2. target[t] \in Actors
    BY <1>1 DEF TimerTypeOK, Fire
  <2>3. Sends(t, ClientKinds)
    BY <1>1, <2>1, <2>2, SendersAreReferences DEF Sends, Fire, Procs
  <2>4. QED
    BY <2>1, <2>3 DEF Next, ClientThread
<1>2. ASSUME NEW c \in Clients, ClientStep(c) PROVE Next
  <2>1. {"User"} \subseteq ClientKinds
    BY TimerAssumption
  <2>2. ClientThread(c)
    BY <1>2, <2>1 DEF ClientStep, ClientThread, Sends
  <2>3. QED
    BY <2>2 DEF Next
<1>3. ASSUME NEW a \in Actors, ActorStep(a) \/ Outside(a) PROVE Next
  BY <1>3 DEF ActorStep, Outside, Next
<1>4. QED
  BY <1>1, <1>2, <1>3
     DEF TimerNext, Create, Cancel, Drop, Joined, TimerThread, Elapse, Check, Test, Moves, vars

\* Nobody but the thread of t sends in its name.
LEMMA OthersSendForThemselves ==
  ASSUME TypeOK, NEW t \in Timers,
         \/ \E a \in Actors : ActorStep(a) \/ Outside(a)
         \/ \E c \in Clients \ Timers : ClientStep(c)
  PROVE  sent'[t] = sent[t] /\ UNCHANGED timerVars
<1>1. t \in Clients /\ t \notin Actors
  BY TimerAssumption, NamesAssumption
<1>2. ASSUME NEW p \in Procs \ {t}, sent' = [sent EXCEPT ![p] = @ + 1] PROVE sent'[t] = sent[t]
  BY <1>1, <1>2 DEF TypeOK
<1>3. ASSUME NEW p \in Procs \ {t}, Sends(p, {"User"}) \/ FastSendReturns(p) PROVE sent'[t] = sent[t]
  BY <1>2, <1>3 DEF Sends, Send, FastSend, FastSendReturns
<1>4. ASSUME NEW a \in Actors, ActorThread(a) PROVE sent'[t] = sent[t]
  <2>1. a \in Procs \ {t}
    BY <1>1
  <2>2. CASE Sends(a, {"User"}) \/ FastSendReturns(a)
    BY <1>3, <2>1, <2>2
  <2>3. CASE ReplyToSender(a)
    BY <1>2, <2>1, <2>3 DEF ReplyToSender
  <2>4. QED
    BY <1>4, <2>2, <2>3 DEF ActorThread, InitReturns, CheckRunning, Dispatch, EndReturns,
                            ReplyOnChannel, HandlerReturns, Panic
<1>5. ASSUME NEW a \in Actors, Outside(a) PROVE sent'[t] = sent[t]
  BY <1>5 DEF Outside, New, Spawn, Stop
<1>6. QED
  BY <1>1, <1>3, <1>4, <1>5 DEF ActorStep, Outside, ClientStep
-----------------------------------------------------------------------------
\* The invariant contains the type invariant.
LEMMA TimerInvImpliesType == TimerInv => TimerTypeOK
BY DEF TimerInv, TimerTypeOK, Domains, OneTimerOK

\* Before a timer is created there is nothing to be late.
LEMMA InitTimerInv == TimerInit => TimerInv
<1> SUFFICES ASSUME TimerInit PROVE TimerInv
  OBVIOUS
<1>1. TypeOK
  BY InitTypeOK DEF TimerInit
<1>2. \A t \in Timers : sent[t] = 0
  BY TimerAssumption DEF TimerInit, Init
<1>3. QED
  BY <1>1, <1>2 DEF TimerInit, TimerInv, Domains, OneTimerOK, RaceOK, OnceOK

\* A timer whose variables do not change stays as it is.
Same(t) ==
  /\ thread'[t] = thread[t] /\ kind'[t] = kind[t] /\ target'[t] = target[t]
  /\ flag'[t] = flag[t] /\ owner'[t] = owner[t] /\ hold'[t] = hold[t]
  /\ late'[t] = late[t] /\ raced'[t] = raced[t] /\ sent'[t] = sent[t]

LEMMA SameIsOK == ASSUME NEW t, OneTimerOK(t), Same(t) PROVE OneTimerOK(t)'
BY DEF OneTimerOK, Same, RaceOK, OnceOK

\* Every step keeps all timers in order.
LEMMA NextTimerInv == TimerInv /\ [TimerNext]_vars => TimerInv'
<1> SUFFICES ASSUME TimerInv, [TimerNext]_vars PROVE TimerInv'
  OBVIOUS
<1>1. TypeOK'
  BY TimerInvImpliesType, TimerStepsAreRuntimeSteps, NextTypeOK DEF TimerInv
<1>2. \A t \in Timers : t \in Procs /\ OneTimerOK(t)
  BY TimerAssumption DEF TimerInv
<1>3. CASE \/ \E a \in Actors : ActorStep(a) \/ Outside(a)
           \/ \E c \in Clients \ Timers : ClientStep(c)
  <2>1. \A t \in Timers : sent'[t] = sent[t] /\ UNCHANGED timerVars
    BY <1>3, OthersSendForThemselves DEF TimerInv
  <2>2. UNCHANGED timerVars
    BY <1>3 DEF ActorStep, Outside, ClientStep
  <2>3. \A t \in Timers : Same(t)
    BY <2>1, <2>2 DEF Same, timerVars
  <2>4. Domains'
    BY <2>2 DEF TimerInv, Domains, timerVars
  <2>5. QED
    BY <1>1, <1>2, <2>3, <2>4, SameIsOK DEF TimerInv
<1>4. ASSUME NEW p \in Procs, NEW t \in Timers, NEW k \in {"once", "periodic"},
             NEW b \in Actors, Create(p, t, k, b)
      PROVE  TimerInv'
  <2>1. Domains' /\ sent' = sent
    BY <1>4 DEF Create, TimerInv, Domains, runtimeVars
  <2>2. \A s \in Timers \ {t} : Same(s)
    BY <1>4, <2>1 DEF Create, Same
  <2>3. OneTimerOK(t)'
    <3>1. /\ thread[t] = "absent" /\ late[t] = 0 /\ sent[t] = 0
          /\ raced[t] \in BOOLEAN
      BY <1>2, <1>4 DEF Create, OneTimerOK, RaceOK, OnceOK
    <3>2. /\ thread'[t] = (IF k = "once" THEN "sleep" ELSE "test") /\ kind'[t] = k
          /\ target'[t] = b /\ flag'[t] = TRUE /\ owner'[t] = p /\ hold'[t] = "held"
          /\ late'[t] = late[t] /\ raced'[t] = raced[t] /\ sent'[t] = sent[t]
      BY <1>4, <2>1 DEF Create, TimerInv, Domains
    <3>3. b # None
      BY NamesAssumption
    <3>4. /\ thread'[t] \in {"sleep", "test"} /\ (k = "once" => thread'[t] = "sleep")
          /\ late'[t] = 0 /\ sent'[t] = 0 /\ raced'[t] \in BOOLEAN
      BY <3>1, <3>2
    <3>5. RaceOK(t)' /\ OnceOK(t)'
      BY <3>2, <3>4 DEF RaceOK, OnceOK
    <3>6. QED
      <4>1. flag'[t] \in BOOLEAN /\ (flag'[t] => hold'[t] = "held")
        BY <3>2
      <4>2. /\ kind'[t] \in {"once", "periodic"} /\ target'[t] \in Actors \cup {None}
            /\ owner'[t] \in Procs \cup {None} /\ late'[t] \in 0 .. 2
            /\ hold'[t] = "held" /\ target'[t] # None /\ thread'[t] # "absent"
            /\ sent'[t] <= 1
        BY <3>2, <3>3, <3>4
      <4>3. QED
        BY <3>4, <3>5, <4>1, <4>2 DEF OneTimerOK
  <2>4. QED
    BY <1>1, <1>2, <2>1, <2>2, <2>3, SameIsOK DEF TimerInv
<1>5. ASSUME NEW p \in Procs, NEW t \in Timers, Cancel(p, t) \/ Drop(p, t) PROVE TimerInv'
  <2>0. /\ ClearFlag(t) /\ Keeping(p, t) /\ sent' = sent
        /\ UNCHANGED <<thread, kind, target, owner, late>>
        /\ hold' = hold \/ hold' = [hold EXCEPT ![t] = "dropping"]
    BY <1>5 DEF Cancel, Drop, runtimeVars
  <2>1. Domains' /\ sent' = sent
    BY <2>0 DEF ClearFlag, TimerInv, Domains
  <2>2. \A s \in Timers \ {t} : Same(s)
    <3>1. ASSUME NEW s \in Timers \ {t} PROVE flag'[s] = flag[s] /\ raced'[s] = raced[s]
      <4>1. flag \in [Timers -> BOOLEAN] /\ raced \in [Timers -> BOOLEAN]
        BY TimerInvImpliesType DEF TimerTypeOK
      <4>2. QED
        BY <2>0, <4>1, Zenon DEF ClearFlag
    <3>2. \A s \in Timers \ {t} : hold'[s] = hold[s]
      BY <2>0, TimerInvImpliesType DEF TimerTypeOK
    <3>3. QED
      BY <2>0, <3>1, <3>2 DEF Same
  <2>3. OneTimerOK(t)'
    <3>1. /\ hold[t] = "held" /\ hold'[t] \in {"held", "dropping"}
          /\ flag'[t] = FALSE /\ raced'[t] = (raced[t] \/ (flag[t] /\ thread[t] = "fire"))
          /\ thread'[t] = thread[t] /\ kind'[t] = kind[t] /\ target'[t] = target[t]
          /\ owner'[t] = owner[t] /\ late'[t] = late[t] /\ sent'[t] = sent[t]
      BY <2>0 DEF ClearFlag, Keeping, TimerInv, Domains
    <3>2. OneTimerOK(t) /\ RaceOK(t) /\ OnceOK(t)
      BY <1>2 DEF OneTimerOK
    <3>3. /\ raced'[t] \in BOOLEAN /\ (raced[t] => raced'[t])
          /\ flag[t] /\ thread[t] = "fire" => raced'[t]
      BY <3>1, <3>2
    <3>4. RaceOK(t)'
      <4>1. late[t] <= IF raced'[t] THEN 1 ELSE 0
        BY <3>2, <3>3 DEF RaceOK, OneTimerOK
      <4>2. thread[t] = "fire" => late[t] = 0 /\ raced'[t]
        BY <3>2, <3>3 DEF RaceOK
      <4>3. QED
        BY <3>1, <3>2, <4>1, <4>2 DEF RaceOK
    <3>5. OnceOK(t)'
      BY <3>1, <3>2 DEF OnceOK
    <3>6. QED
      BY <3>1, <3>2, <3>3, <3>4, <3>5 DEF OneTimerOK
  <2>4. QED
    BY <1>1, <1>2, <2>1, <2>2, <2>3, SameIsOK DEF TimerInv
<1>6. ASSUME NEW t \in Timers, Joined(t) PROVE TimerInv'
  <2>1. Domains' /\ sent' = sent
    BY <1>6 DEF Joined, TimerInv, Domains, runtimeVars
  <2>2. \A s \in Timers \ {t} : Same(s)
    BY <1>6, <2>1 DEF Joined, Same
  <2>3. OneTimerOK(t)'
    <3>1. /\ hold[t] = "dropping" /\ thread[t] = "done" /\ hold'[t] = "dropped"
          /\ flag'[t] = flag[t] /\ raced'[t] = raced[t]
          /\ thread'[t] = thread[t] /\ kind'[t] = kind[t] /\ target'[t] = target[t]
          /\ owner'[t] = owner[t] /\ late'[t] = late[t] /\ sent'[t] = sent[t]
      BY <1>6, <2>1 DEF Joined, Over, TimerInv, Domains
    <3>2. QED
      BY <1>2, <3>1 DEF OneTimerOK, RaceOK, OnceOK
  <2>4. QED
    BY <1>1, <1>2, <2>1, <2>2, <2>3, SameIsOK DEF TimerInv
<1>7. ASSUME NEW t \in Timers, Elapse(t) \/ Check(t) \/ Test(t) PROVE TimerInv'
  <2>0. PICK from, to : Moves(t, from, to)
    BY <1>7 DEF Elapse, Check, Test
  <2>1. Domains' /\ sent' = sent
    BY <2>0 DEF Moves, TimerInv, Domains, runtimeVars
  <2>2. \A s \in Timers \ {t} : Same(s)
    BY <2>0, <2>1 DEF Moves, Same
  <2>3. OneTimerOK(t)'
    <3>1. /\ hold'[t] = hold[t] /\ flag'[t] = flag[t] /\ raced'[t] = raced[t]
          /\ kind'[t] = kind[t] /\ target'[t] = target[t]
          /\ owner'[t] = owner[t] /\ late'[t] = late[t] /\ sent'[t] = sent[t]
      BY <1>7, <2>1 DEF Elapse, Check, Test, Moves
    <3>2. \/ thread[t] = "sleep" /\ thread'[t] = "check"
          \/ thread[t] = "check" /\ flag[t] /\ thread'[t] = "fire"
          \/ thread[t] = "check" /\ thread'[t] = IF kind[t] = "once" THEN "done" ELSE "test"
          \/ thread[t] = "test" /\ thread'[t] \in {"sleep", "done"}
      BY <1>7 DEF Elapse, Check, Test, Moves, Armed, AfterRound, AfterTest, TimerInv, Domains
    <3>3. QED
      BY <1>2, <3>1, <3>2 DEF OneTimerOK, RaceOK, OnceOK
  <2>4. QED
    BY <1>1, <1>2, <2>1, <2>2, <2>3, SameIsOK DEF TimerInv
<1>8. ASSUME NEW t \in Timers, Fire(t) PROVE TimerInv'
  <2>1. Domains' /\ sent' = [sent EXCEPT ![t] = @ + 1]
    BY <1>8 DEF Fire, Send, TimerInv, Domains
  <2>2. \A s \in Timers \ {t} : Same(s)
    BY <1>2, <1>8, <2>1 DEF Fire, Same, TimerInv, TypeOK
  <2>3. OneTimerOK(t)'
    <3>1. /\ hold'[t] = hold[t] /\ flag'[t] = flag[t] /\ raced'[t] = raced[t]
          /\ kind'[t] = kind[t] /\ target'[t] = target[t] /\ owner'[t] = owner[t]
          /\ thread[t] = "fire"
          /\ thread'[t] = IF kind[t] = "once" THEN "done" ELSE "test"
          /\ late'[t] = IF flag[t] \/ late[t] = 2 THEN late[t] ELSE late[t] + 1
      BY <1>8 DEF Fire, AfterRound, TimerInv, Domains
    <3>2. sent'[t] = sent[t] + 1 /\ sent[t] \in Nat
      BY <1>2, <2>1 DEF TimerInv, TypeOK
    <3>3. QED
      BY <1>2, <3>1, <3>2 DEF OneTimerOK, RaceOK, OnceOK
  <2>4. QED
    BY <1>1, <1>2, <2>1, <2>2, <2>3, SameIsOK DEF TimerInv
<1>9. CASE UNCHANGED vars
  BY <1>1, <1>9, SameIsOK DEF TimerInv, Domains, Same, vars, runtimeVars, timerVars
<1>10. QED
  BY <1>3, <1>4, <1>5, <1>6, <1>7, <1>8, <1>9 DEF TimerNext, TimerThread
-----------------------------------------------------------------------------
\* The invariant holds for ever.
LEMMA TimerInvHolds == TimerSpec => []TimerInv
BY InitTimerInv, NextTimerInv, PTL DEF TimerSpec

\* A program with timers is a program of actors and clients: whatever is proved
\* of ActorRuntime holds of it.
THEOREM TimersAreClients == TimerSpec => Spec
<1>1. TimerInit => Init
  BY DEF TimerInit
<1>2. QED
  BY <1>1, TimerInvHolds, TimerInvImpliesType, TimerStepsAreRuntimeSteps, PTL
     DEF TimerSpec, Spec

\* The timers' variables keep their types, a Timer that is being dropped is
\* cancelled, and a one-shot timer sends at most one Timeout.
THEOREM TimerTypeCorrect == TimerSpec => []TimerTypeOK
BY TimerInvHolds, TimerInvImpliesType, PTL

\* After cancel() at most one Timeout comes, and only if the thread had passed
\* its test when the flag was cleared.
THEOREM CancelIsAlmostFinal == TimerSpec => []LateOnlyInRace
<1>1. TimerInv => LateOnlyInRace
  BY DEF TimerInv, OneTimerOK, RaceOK, LateOnlyInRace
<1>2. QED
  BY <1>1, TimerInvHolds, PTL

\* After drop() no Timeout comes: the thread is over.
THEOREM DropIsFinal == TimerSpec => SilentAfterDrop
<1> DEFINE Silent == \A t \in Timers : hold[t] = "dropped" => sent'[t] = sent[t]
<1>1. TimerInv /\ [TimerNext]_vars => [Silent]_vars
  <2> SUFFICES ASSUME TimerInv, TimerNext, NEW t \in Timers, hold[t] = "dropped"
               PROVE  sent'[t] = sent[t]
    OBVIOUS
  <2>1. t \in Procs /\ thread[t] = "done"
    BY TimerAssumption DEF TimerInv, OneTimerOK
  <2>2. CASE \/ \E a \in Actors : ActorStep(a) \/ Outside(a)
             \/ \E c \in Clients \ Timers : ClientStep(c)
    BY <2>2, OthersSendForThemselves DEF TimerInv
  <2>3. ASSUME NEW s \in Timers, Fire(s) PROVE sent'[t] = sent[t]
    <3>1. s # t /\ s \in Procs /\ sent' = [sent EXCEPT ![s] = @ + 1]
      BY <2>1, <2>3, TimerAssumption DEF Fire, Send
    <3>2. QED
      BY <2>1, <3>1 DEF TimerInv, TypeOK
  <2>4. QED
    BY <2>2, <2>3 DEF TimerNext, Create, Cancel, Drop, Joined, TimerThread, Elapse, Check, Test,
                      Moves, runtimeVars
<1>2. QED
  BY <1>1, TimerInvHolds, PTL DEF TimerSpec, SilentAfterDrop
=============================================================================
