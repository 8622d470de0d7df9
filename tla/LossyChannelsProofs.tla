------------------------ MODULE LossyChannelsProofs ------------------------
(***************************************************************************)
(* Proof that lossy channels deliver once at most and in order, for any    *)
(* sources and destinations.  ChannelInv says besides that what has come   *)
(* out is older than what is on its way over the same link.                *)
(***************************************************************************)
EXTENDS LossyChannels, TLAPS

ChannelTypeOK ==
  /\ over \in Seq(Sources \X Destinations)
  /\ transit \in SUBSET (DOMAIN over)
  /\ out \in [Destinations -> Seq(DOMAIN over)]

OutIsOlder ==
  \A d \in Destinations : \A k \in DOMAIN out[d] : \A i \in transit :
    over[out[d][k]] = over[i] => out[d][k] < i

ChannelInv == ChannelTypeOK /\ OutIsOlder /\ OnceAndInOrder

\* A new message is younger than all others, and they keep their links.
LEMMA NewMessage ==
  ASSUME ChannelTypeOK, NEW l \in Sources \X Destinations, over' = Append(over, l)
  PROVE  /\ over' \in Seq(Sources \X Destinations)
         /\ DOMAIN over' = DOMAIN over \cup {Len(over) + 1}
         /\ \A i \in DOMAIN over : over'[i] = over[i] /\ i < Len(over) + 1 /\ i \in Nat
         /\ DOMAIN over \subseteq Nat
BY DEF ChannelTypeOK

\* Messages get lost, or answered by a new one.
LEMMA GrowingKeepsInv ==
  ASSUME ChannelInv, NEW l \in Sources \X Destinations, over' = Append(over, l),
         transit' \subseteq transit \cup {Len(over) + 1}, UNCHANGED out
  PROVE  ChannelInv'
<1> DEFINE n == Len(over) + 1
<1>1. /\ over' \in Seq(Sources \X Destinations) /\ DOMAIN over' = DOMAIN over \cup {n}
      /\ \A i \in DOMAIN over : over'[i] = over[i] /\ i < n
  BY NewMessage DEF ChannelInv
<1>2. \A d \in Destinations : \A k \in DOMAIN out[d] : out[d][k] \in DOMAIN over
  BY DEF ChannelInv, ChannelTypeOK
<1> HIDE DEF n
<1>3. ChannelTypeOK'
  <2>1. transit' \in SUBSET (DOMAIN over')
    BY <1>1 DEF ChannelInv, ChannelTypeOK, n
  <2>2. out' \in [Destinations -> Seq(DOMAIN over')]
    BY <1>1 DEF ChannelInv, ChannelTypeOK
  <2>3. QED
    BY <1>1, <2>1, <2>2 DEF ChannelTypeOK
<1>4. OutIsOlder'
  <2> SUFFICES ASSUME NEW d \in Destinations, NEW k \in DOMAIN out[d], NEW i \in transit',
                      over'[out[d][k]] = over'[i]
               PROVE  out[d][k] < i
    BY DEF OutIsOlder
  <2>1. CASE i = n
    BY <1>1, <1>2, <2>1
  <2>2. CASE i \in transit
    <3>1. i \in DOMAIN over
      BY <2>2 DEF ChannelInv, ChannelTypeOK
    <3>2. QED
      BY <1>1, <1>2, <2>2, <3>1 DEF ChannelInv, OutIsOlder
  <2>3. QED
    BY <2>1, <2>2 DEF n
<1>5. OnceAndInOrder'
  BY <1>1, <1>2 DEF ChannelInv, OnceAndInOrder
<1>6. QED
  BY <1>3, <1>4, <1>5 DEF ChannelInv

LEMMA DeliverKeepsInv ==
  ASSUME ChannelInv, NEW i \in transit, Deliver(i) PROVE ChannelInv'
<1> USE DEF ChannelInv
<1> DEFINE e == over[i][2]
<1>1. /\ i \in DOMAIN over /\ i \in Nat /\ over[i] \in Sources \X Destinations
      /\ DOMAIN over \subseteq Nat
  BY DEF ChannelTypeOK
<1>2. e \in Destinations /\ out[e] \in Seq(DOMAIN over)
  BY <1>1 DEF ChannelTypeOK
<1>3. over' = over /\ transit' \subseteq transit
      /\ \A j \in transit' : over[j] # over[i] \/ j > i
  BY DEF Deliver, After
<1>4. out' = [out EXCEPT ![e] = Append(@, i)]
  BY DEF Deliver
<1> HIDE DEF e
<1>5. \A d \in Destinations : out'[d] = IF d = e THEN Append(out[e], i) ELSE out[d]
  BY <1>2, <1>4 DEF ChannelTypeOK
<1>6. /\ \A k \in DOMAIN Append(out[e], i) :
           \/ k \in DOMAIN out[e] /\ Append(out[e], i)[k] = out[e][k]
           \/ k = Len(out[e]) + 1 /\ Append(out[e], i)[k] = i
      /\ \A k \in DOMAIN out[e] : k < Len(out[e]) + 1
      /\ DOMAIN Append(out[e], i) \subseteq Nat
  BY <1>1, <1>2
<1>7. \A d \in Destinations : \A k \in DOMAIN out'[d] :
        \/ k \in DOMAIN out[d] /\ out'[d][k] = out[d][k]
        \/ d = e /\ k = Len(out[e]) + 1 /\ out'[d][k] = i
  BY <1>5, <1>6
<1>8. ChannelTypeOK'
  <2>1. Append(out[e], i) \in Seq(DOMAIN over)
    BY <1>1, <1>2
  <2>2. QED
    BY <1>3, <1>4, <2>1 DEF ChannelTypeOK
<1>9. OutIsOlder'
  <2> SUFFICES ASSUME NEW d \in Destinations, NEW k \in DOMAIN out'[d], NEW j \in transit',
                      over[out'[d][k]] = over[j]
               PROVE  out'[d][k] < j
    BY <1>3 DEF OutIsOlder
  <2>1. CASE k \in DOMAIN out[d] /\ out'[d][k] = out[d][k]
    BY <1>3, <2>1 DEF OutIsOlder
  <2>2. CASE out'[d][k] = i
    <3>1. j \in Nat
      BY <1>1, <1>3 DEF ChannelTypeOK
    <3>2. QED
      BY <1>1, <1>3, <2>2, <3>1
  <2>3. QED
    BY <1>7, <2>1, <2>2
<1>10. OnceAndInOrder'
  <2> SUFFICES ASSUME NEW d \in Destinations, NEW j \in DOMAIN out'[d], NEW k \in DOMAIN out'[d],
                      j < k, over[out'[d][j]] = over[out'[d][k]]
               PROVE  out'[d][j] < out'[d][k]
    BY <1>3 DEF OnceAndInOrder
  <2>1. CASE j \in DOMAIN out[d] /\ out'[d][j] = out[d][j]
    <3>1. CASE k \in DOMAIN out[d] /\ out'[d][k] = out[d][k]
      BY <2>1, <3>1 DEF OnceAndInOrder
    <3>2. CASE d = e /\ out'[d][k] = i
      BY <2>1, <3>2 DEF OutIsOlder
    <3>3. QED
      BY <1>7, <3>1, <3>2
  <2>2. CASE d = e /\ j = Len(out[e]) + 1
    <3>1. k \in DOMAIN Append(out[e], i) /\ k \in Nat /\ Len(out[e]) \in Nat
      <4>1. out'[d] = Append(out[e], i)
        BY <1>5, <2>2
      <4>2. Len(out[e]) \in Nat
        BY <1>2
      <4>3. QED
        BY <1>6, <4>1, <4>2
    <3>2. k = j \/ k < j
      BY <1>6, <2>2, <3>1
    <3>3. QED
      BY <2>2, <3>1, <3>2
  <2>3. QED
    BY <1>7, <2>1, <2>2
<1>11. QED
  BY <1>8, <1>9, <1>10

LEMMA ChannelStepKeepsInv == ChannelInv /\ [ChannelNext]_channelVars => ChannelInv'
<1> SUFFICES ASSUME ChannelInv, [ChannelNext]_channelVars PROVE ChannelInv'
  OBVIOUS
<1>1. ASSUME NEW l \in Sources \X Destinations, Submit(l) PROVE ChannelInv'
  BY <1>1, GrowingKeepsInv DEF Submit
<1>2. ASSUME NEW l \in Sources \X Destinations, NEW i \in transit, Refuse(i, l)
      PROVE  ChannelInv'
  <2>1. transit' \subseteq transit \cup {Len(over) + 1}
    BY <1>2 DEF Refuse, After
  <2>2. QED
    BY <1>2, <2>1, GrowingKeepsInv DEF Refuse
<1>3. ASSUME NEW i \in transit, Deliver(i) PROVE ChannelInv'
  BY <1>3, DeliverKeepsInv
<1>4. CASE Lose \/ UNCHANGED channelVars
  <2>1. UNCHANGED <<over, out>> /\ transit' \subseteq transit
    BY <1>4 DEF Lose, channelVars
  <2>2. QED
    BY <2>1 DEF ChannelInv, ChannelTypeOK, OutIsOlder, OnceAndInOrder
<1>5. QED
  BY <1>1, <1>2, <1>3, <1>4 DEF ChannelNext

\* What the actors of several processes may rely on (remote.rs): no message twice,
\* and those of one process to another in order.
THEOREM ChannelsKeepOrder == ChannelSpec => []OnceAndInOrder
<1>1. ChannelInit => ChannelInv
  BY DEF ChannelInit, ChannelInv, ChannelTypeOK, OutIsOlder, OnceAndInOrder
<1>2. ChannelInv => OnceAndInOrder
  BY DEF ChannelInv
<1>3. QED
  BY <1>1, <1>2, ChannelStepKeepsInv, PTL DEF ChannelSpec
=============================================================================
