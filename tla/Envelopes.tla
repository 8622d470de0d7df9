------------------------------ MODULE Envelopes ------------------------------
(***************************************************************************)
(* Envelopes, reply channels and actor contexts: the data that             *)
(* src/src/actor.rs passes between threads.                                *)
(*                                                                         *)
(* A payload is reduced to its kind.  Every envelope carries the identity  *)
(* of its sending step, the pair (from, n): the process that sent it and   *)
(* how many envelopes that process had sent by then.  The code has no such *)
(* number; it stands for the identity of the boxed message and, for        *)
(* fast_send, for the identity of the mpsc channel created by that call.   *)
(***************************************************************************)
EXTENDS Naturals

CONSTANTS
  Actors,   \* actors that own a mailbox and a thread
  Clients,  \* other threads that hold ActorRefs: main, timers, receivers
  None      \* Rust's Option::None

ASSUME NamesAssumption == /\ Actors \cap Clients = {}
                          /\ None \notin Actors \cup Clients

\* Whoever may call send or fast_send.
Procs == Actors \cup Clients

\* The framework's own messages, a user message, and what ctx.reply() sends.
Kinds == {"Start", "Shutdown", "Timeout", "User", "Reply"}

\* Envelope { msg, sender, reply_channel }: sync says whether the envelope
\* was made by Envelope::new_sync and so carries the Sender of a channel.
Envelope == [msg : Kinds, from : Procs, n : Nat,
             sender : Actors \cup {None}, sync : BOOLEAN]

NewEnvelope(msg, from, n, sender) ==
  [msg |-> msg, from |-> from, n |-> n, sender |-> sender, sync |-> FALSE]

NewSyncEnvelope(msg, from, n, sender) ==
  [msg |-> msg, from |-> from, n |-> n, sender |-> sender, sync |-> TRUE]

\* The Sender half of a fast_send reply channel, named by the call that
\* created it.  NoChannel is the None of an Option<Sender<..>>.
Channel == [to : Procs, n : Nat]

NoChannel == [to |-> None, n |-> 0]

ReplyChannel(e) == IF e.sync THEN [to |-> e.from, n |-> e.n] ELSE NoChannel

\* ActorContext { sender, reply_channel }; self_ref never changes after
\* ActorRuntime::new and is the index of the context.
Context == [sender : Actors \cup {None}, reply : Channel \cup {NoChannel}]

NewContext == [sender |-> None, reply |-> NoChannel]

\* Mutant: an envelope without a reply channel leaves the previous one behind.
MutKeepsReplyChannel(ctx, e) ==
  [sender |-> e.sender, reply |-> IF e.sync THEN ReplyChannel(e) ELSE ctx.reply]

\* Mutant: an envelope without a sender leaves the previous sender behind.
MutKeepsSender(ctx, e) ==
  [sender |-> IF e.sender = None THEN ctx.sender ELSE e.sender,
   reply  |-> ReplyChannel(e)]

\* prepare_for_envelope overwrites both fields, whatever they held before.
PrepareForEnvelope(ctx, e) == [sender |-> e.sender, reply |-> ReplyChannel(e)]

=============================================================================
