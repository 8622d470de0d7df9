-------------------------- MODULE RemoteRefinement --------------------------
(***************************************************************************)
(* Remote implements LossyChannels: the queue and the thread of a sender,  *)
(* the wires and the threads of the receivers are together one channel per *)
(* life of a process and peer.                                             *)
(***************************************************************************)
EXTENDS Remote

Over == [i \in DOMAIN frames |-> <<frames[i].src, frames[i].to>>]

Transit == {i \in DOMAIN frames : InTransit(i)}

Channels == INSTANCE LossyChannels
              WITH Sources <- Lives, Destinations <- Procs,
                   over <- Over, transit <- Transit, out <- arrived

\* Threads, sockets, crashes and torn-down receivers amount to channels that
\* may lose messages, and to nothing worse (remote.rs as a whole).
ImplementsLossyChannels == Channels!ChannelSpec
=============================================================================
