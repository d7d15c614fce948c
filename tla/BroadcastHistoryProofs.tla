----------------------- MODULE BroadcastHistoryProofs -----------------------
(***************************************************************************)
(* With one updater, which does not restart, and versions that stay below  *)
(* half the range, Broadcast implements OrderedBroadcast: for every        *)
(* network and whatever it loses, delays and reorders, and however the     *)
(* other nodes pause and restart.                                          *)
(*                                                                         *)
(* The invariant is that of BroadcastProofs and Written: the versions of   *)
(* the updates grow, and what a node holds or has sent is one of the       *)
(* updates or the absence of data.                                         *)
(***************************************************************************)
EXTENDS BroadcastHistory, BroadcastProofs

Writing == [version : Version, data : Content]

Grows(w) == \A i, j \in 1 .. Len(w) : i < j => w[i].version < w[j].version

Growing == Grows(writes)

Sourced == \A x \in Copy : x = NoData \/ \E i \in 1 .. Len(writes) : writes[i] = x

Written(o) ==
  /\ writes \in Seq(Writing)
  /\ Growing
  /\ \A i \in 1 .. Len(writes) :
       writes[i].version # Uninitialized /\ writes[i].version <= version[o]
  /\ Sourced

-----------------------------------------------------------------------------
\* A step that copies or forgets leaves the copies what they were.
LEMMA CopyingKeepsWritten ==
  ASSUME NEW o \in Node, Written(o), Copying(o), UNCHANGED writes
  PROVE  Written(o)'
BY DEF Written, Growing, Grows, Sourced, Copying, NoData

\* An update extends the history with a higher version.
LEMMA UpdateKeepsWritten ==
  ASSUME NEW o \in Node, OneUpdater(o), BelowHalf, IInv(o), TypeOK', Written(o),
         Update(o), writes' = Append(writes, Holding(o)')
  PROVE  Written(o)'
<1> DEFINE new == Holding(o)'
<1>1. /\ version[o] \in Nat /\ version'[o] \in Nat
      /\ version[o] < version'[o]
  BY UpdateGrows
<1>2. new.version = version'[o]
  BY DEF Holding
<1>3. new \in Writing /\ new.version # Uninitialized
  <2>1. version'[o] \in Version /\ version'[o] # Uninitialized
    BY <1>1 DEF TypeOK, Uninitialized
  <2>2. data'[o] \in Content
    BY <2>1 DEF TypeOK
  <2> QED BY <2>1, <2>2 DEF Holding, Writing
<1> HIDE DEF new
<1>4. writes \in Seq(Writing)
  BY DEF Written
<1>5. /\ writes' \in Seq(Writing)
      /\ Len(writes') = Len(writes) + 1 /\ Len(writes) \in Nat
      /\ writes'[Len(writes) + 1] = new
      /\ \A i \in 1 .. Len(writes) : writes'[i] = writes[i]
  BY <1>3, <1>4 DEF new
<1>6. \A i \in 1 .. Len(writes) : writes[i].version \in Nat
  <2>1. \A i \in 1 .. Len(writes) : writes[i] \in Writing
    BY <1>4
  <2> QED BY <2>1, VersionAssumption DEF Writing, Version
<1>7. \A i \in 1 .. Len(writes) :
        writes[i].version # Uninitialized /\ writes[i].version < new.version
  BY <1>1, <1>2, <1>6 DEF Written
<1>8. Growing'
  BY <1>5, <1>7 DEF Growing, Grows, Written
<1>9. \A i \in 1 .. Len(writes') :
        writes'[i].version # Uninitialized /\ writes'[i].version <= version'[o]
  <2> TAKE i \in 1 .. Len(writes')
  <2>1. CASE i = Len(writes) + 1
    BY <1>1, <1>2, <1>3, <1>5, <2>1
  <2>2. CASE i \in 1 .. Len(writes)
    BY <1>1, <1>2, <1>5, <1>6, <1>7, <2>2
  <2> QED BY <1>5, <2>1, <2>2
<1>10. Sourced'
  <2>1. Copy' \subseteq Copy \cup {new}
    BY UpdateCopies DEF IInv, new
  <2> SUFFICES ASSUME NEW x \in Copy'
               PROVE  x = NoData \/ \E i \in 1 .. Len(writes') : writes'[i] = x
    BY DEF Sourced, NoData
  <2>2. CASE x = new
    BY <1>5, <2>2
  <2>3. CASE x \in Copy
    BY <1>5, <2>3 DEF Written, Sourced
  <2> QED BY <2>1, <2>2, <2>3
<1> QED BY <1>5, <1>8, <1>9, <1>10 DEF Written

\* The history is a history: Broadcast does what it did without it.
LEMMA HistoryIsBroadcast ==
  /\ HInit => Init
  /\ [HNext]_hvars => [Next]_vars
BY DEF HInit, HNext, hvars, Next

(***************************************************************************)
(* The invariant.                                                          *)
(***************************************************************************)
HInv(o) == IInv(o) /\ Written(o)

LEMMA HistoryInvariance ==
  ASSUME NEW o \in Node, OneUpdater(o), BelowHalf
  PROVE  HSpec => []HInv(o)
<1>1. HInit => Written(o)
  BY DEF HInit, Init, Written, Growing, Grows, Sourced, Copy, Holding, NoData
<1>2. IInv(o) /\ IInv(o)' /\ Written(o) /\ [HNext]_hvars => Written(o)'
  <2> SUFFICES ASSUME IInv(o), IInv(o)', Written(o), [HNext]_hvars
               PROVE  Written(o)'
    OBVIOUS
  <2>1. ASSUME NEW n \in Node, Update(n), writes' = Append(writes, Holding(n)')
        PROVE  Written(o)'
    <3>1. n = o
      BY <2>1 DEF Update, OneUpdater
    <3>2. TypeOK'
      BY DEF IInv
    <3> QED BY <2>1, <3>1, <3>2, UpdateKeepsWritten
  <2>2. CASE Rest /\ UNCHANGED writes
    BY <2>2, RestCopies, CopyingKeepsWritten
  <2>3. CASE UNCHANGED hvars
    <3>1. Copying(o) /\ UNCHANGED writes
      BY <2>3 DEF hvars, vars, Copying, Copy, Holding, Carrying
    <3> QED BY <3>1, CopyingKeepsWritten
  <2> QED BY <2>1, <2>2, <2>3 DEF HNext
<1> QED BY <1>1, <1>2, HistoryIsBroadcast, CopyInvariance, PTL DEF HSpec, HInv

-----------------------------------------------------------------------------
(***************************************************************************)
(* The refinement.                                                         *)
(***************************************************************************)

\* Growing versions tell the updates apart.
LEMMA UpdateOfWrite ==
  ASSUME NEW w \in Seq(Writing), Grows(w), NEW i \in 1 .. Len(w),
         w[i].version # Uninitialized
  PROVE  UpdateOf(w, w[i].version) = i
<1>1. \A j \in 1 .. Len(w) : w[j].version \in Nat
  <2>1. \A j \in 1 .. Len(w) : w[j] \in Writing
    OBVIOUS
  <2> QED BY <2>1, VersionAssumption DEF Writing, Version
<1>2. Len(w) \in Nat
  OBVIOUS
<1>3. ASSUME NEW j \in 1 .. Len(w), w[j].version = w[i].version PROVE j = i
  <2>1. ~(i < j) /\ ~(j < i)
    BY <1>1, <1>3 DEF Grows
  <2> QED BY <1>2, <2>1
<1> QED BY <1>3 DEF UpdateOf

\* Whoever holds data holds one of the updates.
LEMMA UpdateHeld ==
  ASSUME NEW o \in Node, HInv(o), NEW n \in Node, version[n] # Uninitialized
  PROVE  \E i \in 1 .. Len(writes) :
           /\ writes[i].version = version[n] /\ writes[i].data = data[n]
           /\ UpdateOf(writes, version[n]) = i
<1>1. Holding(n) \in Copy /\ Holding(n) # NoData
  BY DEF Copy, Holding, NoData
<1>2. PICK i \in 1 .. Len(writes) : writes[i] = Holding(n)
  BY <1>1 DEF HInv, Written, Sourced
<1>3. writes[i].version = version[n] /\ writes[i].data = data[n]
  BY <1>2 DEF Holding
<1>4. UpdateOf(writes, version[n]) = i
  BY <1>3, UpdateOfWrite DEF HInv, Written, Growing
<1> QED BY <1>3, <1>4

LEMMA SentWasWritten ==
  ASSUME NEW o \in Node, HInv(o), NEW m \in net
  PROVE  \E i \in 1 .. Len(writes) :
           /\ writes[i].version = m.version /\ writes[i].data = m.data
           /\ UpdateOf(writes, m.version) = i
<1>1. m.version # Uninitialized
  BY DEF HInv, IInv, TypeOK
<1>2. Carrying(m) \in Copy /\ Carrying(m) # NoData
  BY <1>1 DEF Copy, Carrying, NoData
<1>3. PICK i \in 1 .. Len(writes) : writes[i] = Carrying(m)
  BY <1>2 DEF HInv, Written, Sourced
<1>4. writes[i].version = m.version /\ writes[i].data = m.data
  BY <1>3 DEF Carrying
<1>5. UpdateOf(writes, m.version) = i
  BY <1>1, <1>4, UpdateOfWrite DEF HInv, Written, Growing
<1> QED BY <1>4, <1>5

\* Below half the range, what is newer is simply larger.
LEMMA NewerIsLarger ==
  ASSUME NEW v \in Version, NEW w \in Version, w < VersionMod \div 2, Newer(v, w)
  PROVE  v > w
BY VersionAssumption DEF Newer, Version

LEMMA VersionsBelowHalf ==
  ASSUME NEW o \in Node, BelowHalf, IInv(o), NEW n \in Node
  PROVE  version[n] < VersionMod \div 2
<1>1. \A k \in Node : version[k] \in Nat
  BY VersionAssumption DEF IInv, TypeOK, Version
<1>2. version[n] <= version[o]
  <2>1. Holding(n) \in Copy
    BY DEF Copy
  <2>2. Holding(n).version <= version[o]
    BY <2>1 DEF IInv, Newest
  <2> QED BY <2>2 DEF Holding
<1>3. updates \in Nat /\ MaxUpdates \in Nat /\ updates <= MaxUpdates
  BY VersionAssumption DEF IInv, TypeOK
<1>4. updates * Step <= MaxUpdates * Step
  BY <1>3, StepBound
<1>5. updates * Step \in Nat /\ MaxUpdates * Step \in Nat
  BY <1>3, StepBound
<1>6. version[o] <= updates * Step
  BY DEF IInv, Newest
<1> QED BY <1>1, <1>2, <1>4, <1>5, <1>6, VersionAssumption DEF BelowHalf

-----------------------------------------------------------------------------
\* An update of the data is a write.
LEMMA UpdateWrites ==
  ASSUME NEW o \in Node, OneUpdater(o), BelowHalf, HInv(o), HInv(o)',
         Update(o), writes' = Append(writes, Holding(o)')
  PROVE  Ordered!Write(o)
<1> DEFINE len == Len(writes)
           new == Holding(o)'
<1>1. new.version = version'[o] /\ new.data = data'[o]
  BY DEF Holding
<1>2. /\ version[o] \in Nat /\ version'[o] \in Nat
      /\ version[o] < version'[o]
  BY UpdateGrows DEF HInv
<1>3. /\ writes \in Seq(Writing) /\ writes' \in Seq(Writing) /\ len \in Nat
      /\ Grows(writes')
  BY DEF HInv, Written, Growing
<1>4. new \in Writing
  <2>1. version'[o] \in Version /\ version'[o] # Uninitialized
    BY <1>2 DEF HInv, IInv, TypeOK, Uninitialized
  <2>2. data'[o] \in Content
    BY <2>1 DEF HInv, IInv, TypeOK
  <2> QED BY <2>1, <2>2 DEF Holding, Writing
<1> HIDE DEF new
<1>5. /\ Len(writes') = len + 1
      /\ writes'[len + 1] = new
      /\ \A i \in 1 .. len : writes'[i] = writes[i]
  BY <1>3, <1>4 DEF new
<1>6. data'[o] \in Content
  BY <1>1, <1>4 DEF Writing
<1> DEFINE written == [i \in 1 .. len |-> writes[i].data]
           after == [i \in 1 .. Len(writes') |-> writes'[i].data]
<1>7. written \in Seq(Content) /\ Len(written) = len
  <2>1. \A i \in 1 .. len : writes[i] \in Writing
    BY <1>3
  <2>2. \A i \in 1 .. len : writes[i].data \in Content
    BY <2>1 DEF Writing
  <2> QED BY <1>3, <2>2
<1>8. after = Append(written, data'[o])
  <2>1. /\ Append(written, data'[o]) \in Seq(Content)
        /\ Len(Append(written, data'[o])) = len + 1
        /\ Append(written, data'[o])[len + 1] = data'[o]
        /\ \A i \in 1 .. len : Append(written, data'[o])[i] = writes[i].data
    BY <1>6, <1>7
  <2>2. DOMAIN after = 1 .. len + 1 /\ DOMAIN Append(written, data'[o]) = 1 .. len + 1
    BY <1>5, <2>1
  <2>3. \A i \in 1 .. len + 1 : after[i] = Append(written, data'[o])[i]
    <3> TAKE i \in 1 .. len + 1
    <3>1. CASE i = len + 1
      BY <1>1, <1>5, <2>1, <3>1
    <3>2. CASE i \in 1 .. len
      BY <1>5, <2>1, <3>2
    <3> QED BY <1>3, <3>1, <3>2
  <2>4. after = [i \in 1 .. len + 1 |-> Append(written, data'[o])[i]]
    BY <2>2, <2>3
  <2>5. Append(written, data'[o]) = [i \in 1 .. len + 1 |-> Append(written, data'[o])[i]]
    BY <2>1, <2>2
  <2> QED BY <2>4, <2>5
<1>9. Len(after) = len + 1
  BY <1>6, <1>7, <1>8
<1>10. data' = [data EXCEPT ![o] = data'[o]]
  BY DEF Update, HInv, IInv, TypeOK
<1>11. UpdateOf(writes', version'[o]) = len + 1
  <2>1. len + 1 \in 1 .. Len(writes')
    BY <1>3, <1>5
  <2>2. writes'[len + 1].version = version'[o] /\ version'[o] # Uninitialized
    BY <1>1, <1>2, <1>5 DEF Uninitialized
  <2> QED BY <1>3, <2>1, <2>2, UpdateOfWrite
<1>12. ASSUME NEW n \in Node \ {o}
       PROVE  UpdateOf(writes', version'[n]) = UpdateOf(writes, version[n])
  <2>1. version'[n] = version[n]
    BY DEF Update, HInv, IInv, TypeOK
  <2>2. CASE version[n] = Uninitialized
    BY <2>1, <2>2 DEF UpdateOf
  <2>3. CASE version[n] # Uninitialized
    <3>1. PICK i \in 1 .. len : writes[i].version = version[n]
                               /\ UpdateOf(writes, version[n]) = i
      BY <2>3, UpdateHeld
    <3>2. i \in 1 .. Len(writes') /\ writes'[i].version = version[n]
      BY <1>3, <1>5, <3>1
    <3> QED BY <1>3, <2>1, <2>3, <3>1, <3>2, UpdateOfWrite
  <2> QED BY <2>2, <2>3
<1>13. [n \in Node |-> UpdateOf(writes', version'[n])]
         = [[n \in Node |-> UpdateOf(writes, version[n])] EXCEPT ![o] = Len(after)]
  BY <1>9, <1>11, <1>12
<1> QED BY <1>6, <1>8, <1>10, <1>13 DEF Ordered!Write

\* Adopting a newer version is getting a later value.
LEMMA AdoptionGets ==
  ASSUME NEW o \in Node, BelowHalf, HInv(o), NEW m \in net,
         Adopts(m), Adopt(m), UNCHANGED writes
  PROVE  m.to \in Node /\ Ordered!Get(m.to)
<1> DEFINE n == m.to
           written == [i \in 1 .. Len(writes) |-> writes[i].data]
<1>1. n \in Node /\ m.version \in Version /\ version[n] \in Version
  BY DEF HInv, IInv, TypeOK, Message
<1>2. PICK k \in 1 .. Len(writes) :
        /\ writes[k].version = m.version /\ writes[k].data = m.data
        /\ UpdateOf(writes, m.version) = k
  BY SentWasWritten
<1>3. writes \in Seq(Writing) /\ Len(writes) \in Nat /\ Grows(writes)
  BY DEF HInv, Written, Growing
<1>4. UpdateOf(writes, version[n]) \in 0 .. k - 1
  <2>1. CASE version[n] = Uninitialized
    BY <1>2, <2>1 DEF UpdateOf
  <2>2. CASE version[n] # Uninitialized
    <3>1. PICK i \in 1 .. Len(writes) : writes[i].version = version[n]
                                       /\ UpdateOf(writes, version[n]) = i
      BY <1>1, <2>2, UpdateHeld
    <3>2. m.version > version[n]
      <4>1. version[n] < VersionMod \div 2
        BY <1>1, VersionsBelowHalf DEF HInv
      <4> QED BY <1>1, <4>1, NewerIsLarger DEF Adopts
    <3>3. i < k
      <4>1. m.version \in Nat /\ version[n] \in Nat
        BY <1>1, VersionAssumption DEF Version
      <4>2. i # k /\ ~(k < i)
        BY <1>2, <1>3, <3>1, <3>2, <4>1 DEF Grows
      <4> QED BY <4>2
    <3> QED BY <3>1, <3>3
  <2> QED BY <2>1, <2>2
<1>5. Len(written) = Len(writes)
  BY <1>3
<1>6. k \in UpdateOf(writes, version[n]) + 1 .. Len(written)
  BY <1>3, <1>4, <1>5
<1>7. [x \in Node |-> UpdateOf(writes', version'[x])]
        = [[x \in Node |-> UpdateOf(writes, version[x])] EXCEPT ![n] = k]
  <2>1. version' = [version EXCEPT ![n] = m.version] /\ version \in [Node -> Version]
    BY DEF Adopt, HInv, IInv, TypeOK
  <2>2. \A x \in Node : version'[x] = IF x = n THEN m.version ELSE version[x]
    BY <1>1, <2>1
  <2> QED BY <1>2, <2>2
<1>8. data' = [data EXCEPT ![n] = written[k]]
  BY <1>2 DEF Adopt
<1> QED BY <1>1, <1>6, <1>7, <1>8 DEF Ordered!Get

\* Every step maps to a step of OrderedBroadcast or to none.
LEMMA StepRefines ==
  ASSUME NEW o \in Node, OneUpdater(o), BelowHalf, HInv(o), HInv(o)', [HNext]_hvars
  PROVE  [Ordered!Next]_(Ordered!vars)
<1>1. CASE UNCHANGED <<version, data, writes>>
  BY <1>1 DEF Ordered!vars
<1>2. ASSUME NEW n \in Node, Update(n), writes' = Append(writes, Holding(n)')
      PROVE  Ordered!Next
  <2>1. n = o
    BY <1>2 DEF Update, OneUpdater
  <2> QED BY <1>2, <2>1, UpdateWrites DEF Ordered!Next
<1>3. ASSUME NEW n \in Node, Reboot(n), UNCHANGED writes
      PROVE  Ordered!Next
  <2>1. version \in [Node -> Version]
    BY DEF HInv, IInv, TypeOK
  <2>2. \A x \in Node : version'[x] = IF x = n THEN Uninitialized ELSE version[x]
    BY <1>3, <2>1 DEF Reboot
  <2>3. [x \in Node |-> UpdateOf(writes', version'[x])]
          = [[x \in Node |-> UpdateOf(writes, version[x])] EXCEPT ![n] = 0]
    <3>1. UpdateOf(writes, Uninitialized) = 0 /\ writes' = writes
      BY <1>3 DEF UpdateOf
    <3> QED BY <2>2, <3>1
  <2>4. data' = [data EXCEPT ![n] = Blank]
    BY <1>3 DEF Reboot
  <2>5. Ordered!Forget(n)
    BY <1>3, <2>3, <2>4 DEF Ordered!Forget
  <2> QED BY <2>5 DEF Ordered!Next
<1>4. ASSUME NEW l \in Link, ReceiveOn(l), UNCHANGED writes
      PROVE  Ordered!Next \/ UNCHANGED <<version, data, writes>>
  <2>1. PICK m \in net : Receive(m)
    BY <1>4 DEF ReceiveOn, InFlight
  <2>2. CASE Adopts(m)
    BY <1>4, <2>1, <2>2, AdoptionGets DEF Receive, Ordered!Next
  <2>3. CASE ~Adopts(m)
    BY <1>4, <2>1, <2>3 DEF Receive
  <2> QED BY <2>2, <2>3
<1>5. CASE Rest /\ UNCHANGED writes
  BY <1>1, <1>3, <1>4, <1>5
     DEF Rest, Register, Pause, Resume, Transmit, TransmitNothing, NextInterval, Lose
<1>6. CASE UNCHANGED hvars
  BY <1>1, <1>6 DEF hvars, vars
<1> QED BY <1>2, <1>5, <1>6 DEF HNext

(***************************************************************************)
(* Whatever the network loses, delays and reorders, every node reads the   *)
(* updater's data in the order in which it was written.                    *)
(***************************************************************************)
THEOREM Refines ==
  ASSUME NEW o \in Node, OneUpdater(o), BelowHalf
  PROVE  HSpec => ReadsInOrder
<1>1. HInit => Ordered!Init
  BY DEF HInit, Init, Ordered!Init, UpdateOf
<1>2. HInv(o) /\ HInv(o)' /\ [HNext]_hvars => [Ordered!Next]_(Ordered!vars)
  BY StepRefines
<1> QED BY <1>1, <1>2, HistoryInvariance, PTL DEF HSpec, ReadsInOrder, Ordered!Spec
=============================================================================
