--------------------------- MODULE LossyChannels ---------------------------
(***************************************************************************)
(* What src/src/remote.rs promises the actors of several processes: a      *)
(* channel per life of a process and peer, which may lose messages but     *)
(* neither changes their order nor repeats them, and which may answer a    *)
(* message that it does not deliver by another one.                        *)
(*                                                                         *)
(* Messages are numbered as they are submitted, over all links together.   *)
(***************************************************************************)
EXTENDS Naturals, Sequences

CONSTANTS Sources, Destinations

VARIABLES
  over,     \* the link of every message: its source and destination
  transit,  \* the messages on their way
  out       \* what has been delivered, per destination

channelVars == <<over, transit, out>>

ChannelInit ==
  /\ over    = <<>>
  /\ transit = {}
  /\ out     = [d \in Destinations |-> <<>>]

\* What is still on its way when i has got through, or has been refused: what
\* was ahead of it on its link never will.
After(i) == {j \in transit : over[j] # over[i] \/ j > i}

Submit(l) ==
  /\ over'    = Append(over, l)
  /\ transit' = transit \cup {Len(over) + 1}
  /\ UNCHANGED out

Deliver(i) ==
  /\ out'     = [out EXCEPT ![over[i][2]] = Append(@, i)]
  /\ transit' = After(i)
  /\ UNCHANGED over

\* Message i is not delivered, and another one, over l, says so.
Refuse(i, l) ==
  /\ over'    = Append(over, l)
  /\ transit' = After(i) \cup {Len(over) + 1}
  /\ UNCHANGED out

Lose ==
  /\ transit' \subseteq transit
  /\ UNCHANGED <<over, out>>

ChannelNext ==
  \/ \E l \in Sources \X Destinations :
       Submit(l) \/ \E i \in transit : Refuse(i, l)
  \/ \E i \in transit : Deliver(i)
  \/ Lose

ChannelSpec == ChannelInit /\ [][ChannelNext]_channelVars

\* No message is delivered twice, and those of one link arrive in order.
OnceAndInOrder ==
  \A d \in Destinations : \A j, k \in DOMAIN out[d] :
    j < k /\ over[out[d][j]] = over[out[d][k]] => out[d][j] < out[d][k]
=============================================================================
