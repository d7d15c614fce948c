--------------------------- MODULE BroadcastProofs ---------------------------
(***************************************************************************)
(* Proofs about Broadcast, for every set of nodes and links and for every  *)
(* range of versions.                                                      *)
(***************************************************************************)
EXTENDS Broadcast, TLAPS

\* A local update produces a version, and never the uninitialized one.
LEMMA BumpType ==
  ASSUME NEW v \in Version, NEW random \in 0 .. Increment - 1
  PROVE  Bump(v, random) \in Version \ {Uninitialized}
BY VersionAssumption DEF Bump, Version, Uninitialized

\* An inconsistency leaves a timer a timer.
LEMMA InconsistentType ==
  ASSUME NEW t \in Timer
  PROVE  Inconsistent(t) \in Timer
BY DEF Inconsistent, Timer

\* Types and the meaning of version 0 are established and preserved.
THEOREM TypeInvariance == Init /\ [][Next]_vars => []TypeOK
<1>1. Init => TypeOK
  BY VersionAssumption, TopologyAssumption
  DEF Init, TypeOK, Version, Timer, Off, Uninitialized
<1>2. TypeOK /\ [Next]_vars => TypeOK'
  <2> SUFFICES ASSUME TypeOK, [Next]_vars PROVE TypeOK'
    OBVIOUS
  <2> USE DEF TypeOK
  <2> Fresh \subseteq Timer /\ Off \in Timer
    BY DEF Fresh, Off, Timer
  <2>1. ASSUME NEW n \in Node, Register(n) PROVE TypeOK'
    BY <2>1 DEF Register
  <2>2. ASSUME NEW n \in Node, Update(n) PROVE TypeOK'
    <3>1. PICK content \in Content : data' = [data EXCEPT ![n] = content]
      BY <2>2 DEF Update
    <3>2. PICK random \in 0 .. Increment - 1 :
            version' = [version EXCEPT ![n] = Bump(version[n], random)]
      BY <2>2 DEF Update
    <3>3. version' \in [Node -> Version] /\ version'[n] # Uninitialized
      BY <3>2, BumpType
    <3>4. data' \in [Node -> Content \cup {Blank}] /\ data'[n] # Blank
      BY <3>1, TopologyAssumption
    <3>5. \A k \in Node : version'[k] = Uninitialized <=> data'[k] = Blank
      BY <3>1, <3>2, <3>3, <3>4
    <3>6. timer' \in [Node -> Timer]
      BY <2>2, InconsistentType DEF Update
    <3>7. updates' \in 0 .. MaxUpdates
      BY <2>2, VersionAssumption DEF Update
    <3> QED BY <2>2, <3>3, <3>4, <3>5, <3>6, <3>7 DEF Update
  <2>3. ASSUME NEW n \in Node, Pause(n) PROVE TypeOK'
    BY <2>3, VersionAssumption DEF Pause
  <2>4. ASSUME NEW n \in Node, Resume(n) PROVE TypeOK'
    BY <2>4 DEF Resume
  <2>5. ASSUME NEW n \in Node, Reboot(n) PROVE TypeOK'
    <3>1. version' \in [Node -> Version] /\ data' \in [Node -> Content \cup {Blank}]
      BY <2>5, VersionAssumption DEF Reboot, Version, Uninitialized
    <3>2. \A k \in Node : version'[k] = Uninitialized <=> data'[k] = Blank
      BY <2>5 DEF Reboot
    <3>3. upsets' \in 0 .. MaxUpsets
      BY <2>5, VersionAssumption DEF Reboot
    <3> QED BY <2>5, <3>1, <3>2, <3>3 DEF Reboot
  <2>6. ASSUME NEW n \in Node, Called(n) PROVE timer' \in [Node -> Timer]
    BY <2>6 DEF Called, Timer
  <2>7. ASSUME NEW n \in Node, Transmit(n) PROVE TypeOK'
    <3>1. data[n] \in Content
      BY <2>7 DEF Transmit
    <3>2. Copies(n) \subseteq Message
      BY <3>1, TopologyAssumption DEF Copies, Message
    <3>3. \A m \in Copies(n) : m.version # Uninitialized
      BY <2>7 DEF Transmit, Copies
    <3> QED BY <2>6, <2>7, <3>2, <3>3 DEF Transmit
  <2>8. ASSUME NEW n \in Node, TransmitNothing(n) PROVE TypeOK'
    BY <2>6, <2>8 DEF TransmitNothing
  <2>9. ASSUME NEW n \in Node, NextInterval(n) PROVE TypeOK'
    BY <2>9 DEF NextInterval, Timer
  <2>10. ASSUME NEW l \in Link, ReceiveOn(l) PROVE TypeOK'
    <3>1. PICK m \in net : Receive(m)
      BY <2>10 DEF ReceiveOn, InFlight
    <3>2. m \in Message /\ m.version # Uninitialized
      BY <3>1
    <3>3. m.to \in Node /\ m.version \in Version /\ m.data \in Content /\ m.data # Blank
      BY <3>2, TopologyAssumption DEF Message
    <3>4. timer' \in [Node -> Timer]
      BY <3>1, <3>3, InconsistentType DEF Receive
    <3>5. CASE Adopts(m)
      <4>1. version' = [version EXCEPT ![m.to] = m.version]
            /\ data' = [data EXCEPT ![m.to] = m.data]
        BY <3>1, <3>5 DEF Receive, Adopt
      <4>2. version' \in [Node -> Version] /\ data' \in [Node -> Content \cup {Blank}]
        BY <3>3, <4>1
      <4>3. \A k \in Node : version'[k] = Uninitialized <=> data'[k] = Blank
        BY <3>2, <3>3, <4>1
      <4> QED BY <3>1, <3>4, <4>2, <4>3 DEF Receive
    <3>6. CASE ~Adopts(m)
      BY <3>1, <3>4, <3>6 DEF Receive
    <3> QED BY <3>5, <3>6
  <2>11. CASE Lose
    BY <2>11 DEF Lose
  <2>12. CASE UNCHANGED vars
    BY <2>12 DEF vars
  <2> QED
    BY <2>1, <2>2, <2>3, <2>4, <2>5, <2>7, <2>8, <2>9, <2>10, <2>11, <2>12 DEF Next, Rest
<1> QED BY <1>1, <1>2, PTL

\* Every reachable state is well typed, and version 0 means: no data yet.
THEOREM TypeCorrect == Spec => []TypeOK
BY TypeInvariance, PTL DEF Spec

-----------------------------------------------------------------------------
(***************************************************************************)
(* The order of the versions, around the wrap.                             *)
(***************************************************************************)

\* The distance between two versions, counted forward.
LEMMA Distance ==
  ASSUME NEW v \in Version, NEW w \in Version
  PROVE  (v - w) % VersionMod = IF v >= w THEN v - w ELSE v - w + VersionMod
<1>1. ASSUME NEW M \in Nat, NEW x \in 0 .. M - 1, M > 0 PROVE x % M = x
  BY <1>1, SMT
<1>2. ASSUME NEW M \in Nat, NEW x \in 0 - M .. -1, M > 0 PROVE x % M = x + M
  BY <1>2, SMT
<1>3. VersionMod \in Nat /\ VersionMod > 0
  BY VersionAssumption
<1>4. CASE v >= w
  <2>1. v - w \in 0 .. VersionMod - 1
    BY <1>3, <1>4 DEF Version
  <2> QED BY <1>1, <1>3, <1>4, <2>1
<1>5. CASE ~(v >= w)
  <2>1. v - w \in 0 - VersionMod .. -1
    BY <1>3, <1>5 DEF Version
  <2> QED BY <1>2, <1>3, <1>5, <2>1
<1> QED BY <1>4, <1>5

\* A newer version is ahead, by less than half the range.
LEMMA NewerIsAhead ==
  ASSUME NEW v \in Version, NEW w \in Version, Newer(v, w)
  PROVE  (v - w) % VersionMod < VersionMod \div 2
BY Distance DEF Newer

\* So is the version of a local update, before and past the wrap.
LEMMA BumpIsAhead ==
  ASSUME NEW v \in Version, NEW random \in 0 .. Increment - 1
  PROVE  (Bump(v, random) - v) % VersionMod < VersionMod \div 2
<1>1. Bump(v, random) \in Version
  BY BumpType
<1>2. (Bump(v, random) - v) % VersionMod
        = IF Bump(v, random) >= v THEN Bump(v, random) - v
          ELSE Bump(v, random) - v + VersionMod
  BY <1>1, Distance
<1> QED BY <1>1, <1>2, VersionAssumption DEF Bump, Version, Uninitialized

\* What NoRollback asks of a step.
Ahead(n) ==
  \/ version'[n] = version[n]
  \/ /\ (version'[n] - version[n]) % VersionMod < VersionMod \div 2
     /\ version'[n] # Uninitialized
  \/ n \in registered \ registered'

LEMMA StepAhead ==
  ASSUME TypeOK, Next, NEW n \in Node
  PROVE  Ahead(n)
<1>1. version \in [Node -> Version]
  BY DEF TypeOK
<1>2. ASSUME NEW k \in Node, Update(k) PROVE Ahead(n)
  <2>1. PICK random \in 0 .. Increment - 1 :
          version' = [version EXCEPT ![k] = Bump(version[k], random)]
    BY <1>2 DEF Update
  <2>2. CASE k = n
    <3>1. version'[n] = Bump(version[n], random)
      BY <1>1, <2>1, <2>2
    <3>2. version[n] \in Version
      BY <1>1
    <3>3. Bump(version[n], random) # Uninitialized
      BY <3>2, BumpType
    <3> QED BY <3>1, <3>2, <3>3, BumpIsAhead DEF Ahead
  <2>3. CASE k # n
    BY <1>1, <2>1, <2>3 DEF Ahead
  <2> QED BY <2>2, <2>3
<1>3. ASSUME NEW k \in Node, Reboot(k) PROVE Ahead(n)
  <2>1. CASE k = n
    BY <1>3, <2>1 DEF Reboot, Ahead
  <2>2. CASE k # n
    BY <1>1, <1>3, <2>2 DEF Reboot, Ahead
  <2> QED BY <2>1, <2>2
<1>4. ASSUME NEW l \in Link, ReceiveOn(l) PROVE Ahead(n)
  <2>1. PICK m \in net : Receive(m)
    BY <1>4 DEF ReceiveOn, InFlight
  <2>2. m.version \in Version \ {Uninitialized}
    BY DEF TypeOK, Message
  <2>3. CASE Adopts(m) /\ m.to = n
    <3>1. version'[n] = m.version
      BY <1>1, <2>1, <2>3 DEF Receive, Adopt
    <3>2. Newer(m.version, version[n])
      BY <2>3 DEF Adopts
    <3>3. version[n] \in Version
      BY <1>1
    <3>4. (m.version - version[n]) % VersionMod < VersionMod \div 2
      BY <2>2, <3>2, <3>3, NewerIsAhead
    <3> QED BY <2>2, <3>1, <3>4 DEF Ahead
  <2>4. CASE Adopts(m) /\ m.to # n
    BY <1>1, <2>1, <2>4 DEF Receive, Adopt, Ahead
  <2>5. CASE ~Adopts(m)
    BY <2>1, <2>5 DEF Receive, Ahead
  <2> QED BY <2>3, <2>4, <2>5
<1>5. CASE version' = version
  BY <1>5 DEF Ahead
<1> QED
  BY <1>2, <1>3, <1>4, <1>5
     DEF Next, Rest, Register, Pause, Resume, Transmit, TransmitNothing, NextInterval, Lose

(***************************************************************************)
(* No node ever goes back to an older version or to none: for every        *)
(* network, with any number of updaters, restarts and updates that wrap    *)
(* the version around.                                                     *)
(***************************************************************************)
THEOREM NeverBack == Spec => NoRollback
<1>1. TypeOK /\ [Next]_vars
        => [\A n \in Node :
              \/ version'[n] = version[n]
              \/ /\ (version'[n] - version[n]) % VersionMod < VersionMod \div 2
                 /\ version'[n] # Uninitialized
              \/ n \in registered \ registered']_vars
  BY StepAhead DEF Ahead
<1> QED BY <1>1, TypeInvariance, PTL DEF Spec, NoRollback

-----------------------------------------------------------------------------
(***************************************************************************)
(* With one updater that does not restart, and versions that stay below    *)
(* half the range, the updater's version is above every other one, so its  *)
(* next version is new to all nodes and messages.                          *)
(***************************************************************************)
Step == 2 * Increment - 1

OneUpdater(o) == o \in Node /\ Updaters = {o} /\ o \notin Rebooters

BelowHalf == MaxUpdates * Step < VersionMod \div 2

Newest(o) ==
  /\ version[o] <= updates * Step
  /\ \A x \in Copy : x.version <= version[o]

IInv(o) == TypeOK /\ Newest(o) /\ SameVersionSameData

\* The bound on the updater's version moves with the number of updates.
LEMMA StepBound ==
  ASSUME NEW u \in Nat, NEW k \in Nat, u <= k
  PROVE  /\ (u + 1) * Step = u * Step + Step
         /\ u * Step \in Nat
         /\ u * Step <= k * Step
<1>1. Step \in Nat
  BY VersionAssumption DEF Step
<1>2. PICK s \in Nat : s = Step
  BY <1>1
<1>3. (u + 1) * s = u * s + s /\ u * s \in Nat
  BY SMT
<1>4. PICK d \in Nat : k = u + d
  <2> WITNESS k - u \in Nat
  <2> QED OBVIOUS
<1>5. (u + d) * s = u * s + d * s /\ d * s \in Nat
  BY SMT
<1> QED BY <1>2, <1>3, <1>4, <1>5

\* Below half the range, the updater's versions only grow.
LEMMA BumpGrows ==
  ASSUME NEW v \in Nat, NEW random \in 0 .. Increment - 1,
         v + Step < VersionMod
  PROVE  /\ Bump(v, random) > v
         /\ Bump(v, random) <= v + Step
BY VersionAssumption DEF Bump, Step, Uninitialized

NoData == [version |-> Uninitialized, data |-> Blank]

\* Steps that copy what was there, or forget it.
Copying(o) ==
  /\ Copy' \subseteq Copy \cup {NoData}
  /\ version'[o] = version[o] /\ updates' = updates

\* They keep the invariant.
LEMMA CopyingStep ==
  ASSUME NEW o \in Node, IInv(o), Copying(o)
  PROVE  (Newest(o) /\ SameVersionSameData)'
<1>1. \A x \in Copy : x.version = Uninitialized => x.data = Blank
  BY DEF IInv, TypeOK, Copy, Holding, Carrying
<1>2. 0 <= version[o]
  BY VersionAssumption DEF IInv, TypeOK, Version
<1>3. Newest(o)'
  <2>1. \A x \in Copy' : x.version <= version[o]
    BY <1>2 DEF IInv, Newest, Copying, NoData, Uninitialized
  <2> QED BY <2>1 DEF IInv, Newest, Copying
<1>4. SameVersionSameData'
  <2> SUFFICES ASSUME NEW x \in Copy', NEW y \in Copy', x.version = y.version
               PROVE  x.data = y.data
    BY DEF SameVersionSameData
  <2>1. x \in Copy \cup {NoData} /\ y \in Copy \cup {NoData}
    BY DEF Copying
  <2>2. NoData.version = Uninitialized /\ NoData.data = Blank
    BY DEF NoData
  <2> QED BY <1>1, <2>1, <2>2 DEF IInv, SameVersionSameData
<1> QED BY <1>3, <1>4

\* Nothing newer than the updater's version is about, so it adopts nothing.
LEMMA UpdaterNeverAdopts ==
  ASSUME NEW o \in Node, BelowHalf, IInv(o), NEW m \in net, m.to = o
  PROVE  ~Adopts(m)
<1>1. version[o] \in Version /\ m.version \in Version
  BY DEF IInv, TypeOK, Message
<1>2. m.version <= version[o]
  <2>1. Carrying(m) \in Copy
    BY DEF Copy
  <2>2. Carrying(m).version <= version[o]
    BY <2>1 DEF IInv, Newest
  <2> QED BY <2>2 DEF Carrying
<1>3. version[o] < VersionMod \div 2
  <2>1. updates \in Nat /\ MaxUpdates \in Nat /\ updates <= MaxUpdates
    BY VersionAssumption DEF IInv, TypeOK
  <2>2. updates * Step <= MaxUpdates * Step
    BY <2>1, StepBound
  <2>3. version[o] <= updates * Step
    BY DEF IInv, Newest
  <2>4. updates * Step \in Nat /\ MaxUpdates * Step \in Nat
    BY <2>1, StepBound
  <2> QED BY <1>1, <2>2, <2>3, <2>4, VersionAssumption DEF BelowHalf, Version
<1> QED BY <1>1, <1>2, <1>3, VersionAssumption DEF Adopts, Newer, Version

\* An update gives the updater a higher version.
LEMMA UpdateGrows ==
  ASSUME NEW o \in Node, OneUpdater(o), BelowHalf, IInv(o), Update(o)
  PROVE  /\ version[o] \in Nat /\ version'[o] \in Nat
         /\ version[o] < version'[o]
         /\ version'[o] <= updates' * Step
<1>1. PICK random \in 0 .. Increment - 1 :
        version' = [version EXCEPT ![o] = Bump(version[o], random)]
  BY DEF Update
<1>2. version \in [Node -> Version] /\ data \in [Node -> Content \cup {Blank}]
  BY DEF IInv, TypeOK
<1>3. /\ updates \in Nat /\ updates' = updates + 1 /\ updates' \in Nat
      /\ updates' <= MaxUpdates /\ MaxUpdates \in Nat
  BY VersionAssumption DEF Update, IInv, TypeOK
<1>4. /\ updates' * Step = updates * Step + Step
      /\ updates' * Step <= MaxUpdates * Step
      /\ updates * Step \in Nat /\ MaxUpdates * Step \in Nat
  <2>1. updates' * Step = updates * Step + Step /\ updates * Step \in Nat
    BY <1>3, StepBound
  <2>2. updates' * Step <= MaxUpdates * Step /\ MaxUpdates * Step \in Nat
    BY <1>3, StepBound
  <2> QED BY <2>1, <2>2
<1>5. version[o] \in Nat /\ version[o] <= updates * Step
  BY <1>2, VersionAssumption DEF IInv, Newest, Version
<1>6. Step \in Nat
  BY VersionAssumption DEF Step
<1>7. version[o] + Step < VersionMod
  BY <1>4, <1>5, <1>6, VersionAssumption DEF BelowHalf
<1>8. version'[o] > version[o] /\ version'[o] <= version[o] + Step
  BY <1>1, <1>2, <1>5, <1>7, BumpGrows
<1>9. version'[o] \in Nat
  BY <1>1, <1>2, BumpType, VersionAssumption DEF Version
<1>10. version'[o] <= updates' * Step
  BY <1>4, <1>5, <1>6, <1>8, <1>9
<1> QED BY <1>5, <1>8, <1>9, <1>10

\* Of what is there after an update, only the updater's own copy is new.
LEMMA UpdateCopies ==
  ASSUME NEW o \in Node, TypeOK, Update(o)
  PROVE  Copy' \subseteq Copy \cup {Holding(o)'}
<1>1. \A n \in Node \ {o} : Holding(n)' = Holding(n)
  BY DEF TypeOK, Update, Holding
<1>2. net' = net
  BY DEF Update
<1> QED BY <1>1, <1>2 DEF Copy, Carrying

\* The versions of what is there are numbers.
LEMMA CopyVersions ==
  ASSUME TypeOK
  PROVE  \A x \in Copy : x.version \in Nat
<1>1. \A n \in Node : version[n] \in Nat
  BY VersionAssumption DEF TypeOK, Version
<1>2. \A m \in net : m.version \in Nat
  BY VersionAssumption DEF TypeOK, Message, Version
<1> QED BY <1>1, <1>2 DEF Copy, Holding, Carrying

\* An update gives the updater a version that no copy has.
LEMMA UpdateStep ==
  ASSUME NEW o \in Node, OneUpdater(o), BelowHalf, IInv(o), Update(o)
  PROVE  (Newest(o) /\ SameVersionSameData)'
<1> DEFINE new == Holding(o)'
<1>1. new.version = version'[o]
  BY DEF Holding
<1>2. Copy' \subseteq Copy \cup {new}
  BY UpdateCopies DEF IInv
<1>3. /\ version[o] \in Nat /\ version'[o] \in Nat
      /\ version[o] < version'[o] /\ version'[o] <= updates' * Step
  BY UpdateGrows
<1>4. \A x \in Copy : x.version \in Nat /\ x.version <= version[o]
  BY CopyVersions DEF IInv, Newest
<1> HIDE DEF new
<1>5. \A x \in Copy : x.version < new.version
  BY <1>1, <1>3, <1>4
<1>6. Newest(o)'
  BY <1>1, <1>2, <1>3, <1>4, <1>5 DEF Newest
<1>7. SameVersionSameData'
  <2> SUFFICES ASSUME NEW x \in Copy', NEW y \in Copy', x.version = y.version
               PROVE  x.data = y.data
    BY DEF SameVersionSameData
  <2>1. CASE x \in Copy /\ y \in Copy
    BY <2>1 DEF IInv, SameVersionSameData
  <2>2. CASE x = new /\ y = new
    BY <2>2
  <2>3. CASE x \in Copy /\ y = new
    BY <2>3, <1>1, <1>3, <1>4, <1>5
  <2>4. CASE y \in Copy /\ x = new
    BY <2>4, <1>1, <1>3, <1>4, <1>5
  <2> QED BY <1>2, <2>1, <2>2, <2>3, <2>4
<1> QED BY <1>6, <1>7

\* All other steps copy and forget.
LEMMA RestCopies ==
  ASSUME NEW o \in Node, OneUpdater(o), BelowHalf, IInv(o), Rest
  PROVE  Copying(o)
<1> TypeOK
  BY DEF IInv
<1>1. version \in [Node -> Version] /\ data \in [Node -> Content \cup {Blank}]
  BY DEF TypeOK
<1>2. ASSUME UNCHANGED <<version, data, updates>>, net' \subseteq net
      PROVE  Copying(o)
  BY <1>2 DEF Copying, Copy, Holding, Carrying
<1>3. ASSUME NEW n \in Node,
             \/ Register(n) \/ Pause(n) \/ Resume(n)
             \/ TransmitNothing(n) \/ NextInterval(n)
      PROVE  Copying(o)
  BY <1>2, <1>3 DEF Register, Pause, Resume, TransmitNothing, NextInterval
<1>4. ASSUME NEW n \in Node, Reboot(n)
      PROVE  Copying(o)
  <2>1. n # o
    BY <1>4 DEF Reboot, OneUpdater
  <2>2. /\ version' = [version EXCEPT ![n] = Uninitialized]
        /\ data' = [data EXCEPT ![n] = Blank]
        /\ net' = net /\ updates' = updates
    BY <1>4 DEF Reboot
  <2>3. Holding(n)' = NoData
    BY <1>1, <2>2 DEF Holding, NoData
  <2>4. \A k \in Node \ {n} : Holding(k)' = Holding(k)
    BY <1>1, <2>2 DEF Holding
  <2>5. Copy' \subseteq Copy \cup {NoData}
    BY <2>2, <2>3, <2>4 DEF Copy, Carrying
  <2> QED BY <1>1, <2>1, <2>2, <2>5 DEF Copying
<1>5. ASSUME NEW n \in Node, Transmit(n)
      PROVE  Copying(o)
  <2>1. \A m \in Copies(n) : Carrying(m) = Holding(n)
    BY DEF Copies, Carrying, Holding
  <2>2. UNCHANGED <<version, data, updates>> /\ net' = net \cup Copies(n)
    BY <1>5 DEF Transmit
  <2>3. Copy' \subseteq Copy
    BY <2>1, <2>2 DEF Copy, Carrying, Holding
  <2> QED BY <2>2, <2>3 DEF Copying
<1>6. ASSUME NEW l \in Link, ReceiveOn(l)
      PROVE  Copying(o)
  <2>1. PICK m \in net : Receive(m)
    BY <1>6 DEF ReceiveOn, InFlight
  <2>2. CASE ~Adopts(m)
    BY <1>2, <2>1, <2>2 DEF Receive
  <2>3. CASE Adopts(m)
    <3>1. m.to \in Node /\ m.to # o
      BY <2>3, UpdaterNeverAdopts DEF TypeOK, Message
    <3>2. /\ version' = [version EXCEPT ![m.to] = m.version]
          /\ data' = [data EXCEPT ![m.to] = m.data]
          /\ net' \subseteq net /\ updates' = updates
      BY <2>1, <2>3 DEF Receive, Adopt
    <3>3. Holding(m.to)' = Carrying(m)
      BY <1>1, <3>1, <3>2 DEF Holding, Carrying
    <3>4. \A k \in Node \ {m.to} : Holding(k)' = Holding(k)
      BY <1>1, <3>2 DEF Holding
    <3>5. Copy' \subseteq Copy
      BY <3>2, <3>3, <3>4 DEF Copy, Carrying
    <3>6. version'[o] = version[o]
      BY <1>1, <3>1, <3>2
    <3> QED BY <3>2, <3>5, <3>6 DEF Copying
  <2> QED BY <2>2, <2>3
<1>7. CASE Lose
  BY <1>2, <1>7 DEF Lose
<1> QED BY <1>3, <1>4, <1>5, <1>6, <1>7 DEF Rest

(***************************************************************************)
(* The invariant is inductive.                                             *)
(***************************************************************************)
THEOREM CopyInvariance ==
  ASSUME NEW o \in Node, OneUpdater(o), BelowHalf
  PROVE  Init /\ [][Next]_vars => []IInv(o)
<1>1. Init => IInv(o)
  <2> SUFFICES ASSUME Init PROVE IInv(o)
    OBVIOUS
  <2>1. TypeOK
    BY VersionAssumption, TopologyAssumption
    DEF Init, TypeOK, Version, Timer, Off, Uninitialized
  <2>2. \A x \in Copy : x = [version |-> 0, data |-> Blank]
    BY DEF Init, Copy, Holding, Uninitialized
  <2>3. version[o] = 0 /\ updates * Step = 0
    BY VersionAssumption DEF Init, Uninitialized, Step
  <2>4. Newest(o)
    BY <2>2, <2>3 DEF Newest
  <2>5. SameVersionSameData
    BY <2>2 DEF SameVersionSameData
  <2> QED BY <2>1, <2>4, <2>5 DEF IInv
<1>2. IInv(o) /\ TypeOK' /\ [Next]_vars => IInv(o)'
  <2> SUFFICES ASSUME IInv(o), TypeOK', [Next]_vars
               PROVE  (Newest(o) /\ SameVersionSameData)'
    BY DEF IInv
  <2>1. ASSUME NEW n \in Node, Update(n)
        PROVE  (Newest(o) /\ SameVersionSameData)'
    <3>1. n = o
      BY <2>1 DEF Update, OneUpdater
    <3> QED BY <2>1, <3>1, UpdateStep
  <2>2. CASE Rest
    BY <2>2, RestCopies, CopyingStep
  <2>3. CASE UNCHANGED vars
    <3>1. Copying(o)
      BY <2>3 DEF vars, Copying, Copy, Holding, Carrying
    <3> QED BY <3>1, CopyingStep
  <2> QED BY <2>1, <2>2, <2>3 DEF Next
<1> QED BY <1>1, <1>2, TypeInvariance, PTL

(***************************************************************************)
(* One version means one content, in every node and message, for every     *)
(* topology and through losses, delays, pauses and restarts of the others. *)
(***************************************************************************)
THEOREM VersionsMeanData ==
  ASSUME NEW o \in Node, OneUpdater(o), BelowHalf
  PROVE  Spec => []SameVersionSameData
<1>1. IInv(o) => SameVersionSameData
  BY DEF IInv
<1> QED BY <1>1, CopyInvariance, PTL DEF Spec

(***************************************************************************)
(* A node that listens takes every message with a later version than its   *)
(* own, and no other; so one that has no data takes any message.  That the *)
(* data converges rests on this, and past half the range both fail (run    *)
(* broadcast_half).                                                        *)
(***************************************************************************)
LaterAdopted ==
  \A m \in net : Listening(m.to) => (Adopts(m) <=> m.version > version[m.to])

THEOREM LaterIsAdopted ==
  ASSUME NEW o \in Node, OneUpdater(o), BelowHalf
  PROVE  Spec => []LaterAdopted
<1>1. IInv(o) => LaterAdopted
  <2> SUFFICES ASSUME IInv(o), NEW m \in net, Listening(m.to)
               PROVE  Adopts(m) <=> m.version > version[m.to]
    BY DEF LaterAdopted
  <2>1. m.to \in Node /\ m.version \in Version /\ version[m.to] \in Version
        /\ version[o] \in Version /\ updates \in Nat /\ updates <= MaxUpdates
    BY VersionAssumption DEF IInv, TypeOK, Message
  <2>2. m.version <= version[o] /\ version[m.to] <= version[o]
    <3>1. Carrying(m) \in Copy /\ Holding(m.to) \in Copy
      BY <2>1 DEF Copy
    <3> QED
      BY <3>1 DEF IInv, Newest, Carrying, Holding
  <2>3. version[o] < VersionMod \div 2
    <3>1. updates * Step <= MaxUpdates * Step /\ updates * Step \in Nat
      BY <2>1, VersionAssumption, StepBound
    <3>2. MaxUpdates * Step \in Nat
      BY VersionAssumption, StepBound
    <3> DEFINE a == updates * Step  b == MaxUpdates * Step
    <3>3. version[o] <= a /\ a <= b /\ b < VersionMod \div 2 /\ a \in Nat /\ b \in Nat
      BY <3>1, <3>2 DEF IInv, Newest, BelowHalf
    <3> HIDE DEF a, b
    <3> QED
      BY <2>1, <3>3, VersionAssumption DEF Version
  <2> QED
    BY <2>1, <2>2, <2>3, VersionAssumption DEF Adopts, Newer, Version
<1> QED
  BY <1>1, CopyInvariance, PTL DEF Spec
=============================================================================
