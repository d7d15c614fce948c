------------------------------ MODULE Broadcast ------------------------------
(***************************************************************************)
(* One data set distributed by mtk_broadcast_worker.c over nodes that hear *)
(* their neighbours.  Every node keeps a version and the data that goes    *)
(* with it; its trickle timer tells it when to transmit them.              *)
(*                                                                         *)
(* The timer is what TimerContract promises of one whose Imax is above     *)
(* Imin, as the worker's is.  Its redundancy counter is absent because the *)
(* worker's callback ignores the suppression flag.                         *)
(***************************************************************************)
EXTENDS Integers, FiniteSets

CONSTANTS
  Node,
  Link,         \* pairs <<m, n>>: what m transmits can reach n
  Updaters,     \* nodes whose application updates the data
  Rebooters,    \* nodes that may restart
  Content,      \* what the applications write
  Blank,        \* the application's buffer before any update
  VersionMod,   \* number of values of uint32_t version
  Increment,    \* MTK_INT_BROADCAST_VERSION_INCREMENT
  MaxUpdates,   \* bound: local updates
  MaxUpsets,    \* bound: pauses and reboots
  MaxInFlight   \* bound: messages in flight on a link

ASSUME TopologyAssumption ==
  /\ Link \subseteq Node \X Node
  /\ Updaters \subseteq Node /\ Rebooters \subseteq Node
  /\ Blank \notin Content

ASSUME VersionAssumption ==
  /\ VersionMod \in Nat /\ Increment \in Nat \ {0}
  /\ 2 * Increment < VersionMod \div 2
  /\ MaxUpdates \in Nat /\ MaxUpsets \in Nat /\ MaxInFlight \in Nat

VARIABLES
  registered,  \* nodes whose application has registered the data set
  version,     \* ctx->version
  data,        \* what ctx->data holds
  timer,       \* the trickle timer: its mode, and whether it is at Imin
  net,         \* messages in flight
  updates,     \* updates made
  upsets       \* pauses and reboots made

vars == <<registered, version, data, timer, net, updates, upsets>>

Version == 0 .. VersionMod - 1

Uninitialized == 0

Timer == [mode : {"stopped", "waiting", "called"}, atMin : BOOLEAN]

Message == [from : Node, to : Node, version : Version, data : Content]

Off == [mode |-> "stopped", atMin |-> FALSE]

\* mtk_trickle_timer_set: the first interval is random, and may be Imin.
Fresh == [mode : {"waiting"}, atMin : BOOLEAN]

\* mtk_trickle_timer_inconsistency and reset_event.
Inconsistent(t) == IF t.atMin THEN t ELSE [mode |-> "waiting", atMin |-> TRUE]

\* Mutant: versions are compared as unsigned numbers.
NewerUnsigned(v, w) == v > w

\* (int32_t)(v - w) > 0
Newer(v, w) ==
  LET distance == IF v >= w THEN v - w ELSE v - w + VersionMod
  IN  distance # 0 /\ distance < VersionMod \div 2

\* Mutant: the sum is not kept from being the uninitialized version.
BumpToZero(v, random) ==
  LET sum == v + Increment + random
  IN  IF sum >= VersionMod THEN sum - VersionMod ELSE sum

\* Mutant: only the random part is added, and it may be 0.
BumpRandom(v, random) ==
  LET sum == v + random
  IN  IF sum = Uninitialized THEN 1 ELSE sum

\* The version of a local update: it wraps around, past the value 0.
Bump(v, random) ==
  LET sum == v + Increment + random
      wrapped == IF sum >= VersionMod THEN sum - VersionMod ELSE sum
  IN  IF wrapped = Uninitialized THEN 1 ELSE wrapped

Init ==
  /\ registered = {}
  /\ version = [n \in Node |-> Uninitialized]
  /\ data = [n \in Node |-> Blank]
  /\ timer = [n \in Node |-> Off]
  /\ net = {}
  /\ updates = 0
  /\ upsets = 0

-----------------------------------------------------------------------------
(***************************************************************************)
(* The application's calls.                                                *)
(***************************************************************************)

Register(n) ==
  /\ n \notin registered
  /\ registered' = registered \cup {n}
  /\ \E t \in Fresh : timer' = [timer EXCEPT ![n] = t]
  /\ UNCHANGED <<version, data, net, updates, upsets>>

(***************************************************************************)
(* New content, a newer version, and a transmission soon.  Whether the     *)
(* broadcast is paused is not asked.                                       *)
(***************************************************************************)
Update(n) ==
  /\ n \in Updaters \cap registered
  /\ updates < MaxUpdates /\ updates' = updates + 1
  /\ \E content \in Content : data' = [data EXCEPT ![n] = content]
  /\ \E random \in 0 .. Increment - 1 :
       version' = [version EXCEPT ![n] = Bump(@, random)]
  /\ timer' = [timer EXCEPT ![n] = Inconsistent(@)]
  /\ UNCHANGED <<registered, net, upsets>>

Pause(n) ==
  /\ n \in registered
  /\ upsets < MaxUpsets /\ upsets' = upsets + 1
  /\ timer' = [timer EXCEPT ![n] = Off]
  /\ UNCHANGED <<registered, version, data, net, updates>>

\* A broadcast that is not paused is not resumed.
Resume(n) ==
  /\ n \in registered
  /\ timer[n].mode = "stopped"
  /\ \E t \in Fresh : timer' = [timer EXCEPT ![n] = t]
  /\ UNCHANGED <<registered, version, data, net, updates, upsets>>

\* Nothing is kept over a restart.
Reboot(n) ==
  /\ n \in Rebooters \cap registered
  /\ upsets < MaxUpsets /\ upsets' = upsets + 1
  /\ registered' = registered \ {n}
  /\ version' = [version EXCEPT ![n] = Uninitialized]
  /\ data' = [data EXCEPT ![n] = Blank]
  /\ timer' = [timer EXCEPT ![n] = Off]
  /\ UNCHANGED <<net, updates>>

-----------------------------------------------------------------------------
(***************************************************************************)
(* The timer's callbacks.                                                  *)
(***************************************************************************)

Called(n) ==
  /\ timer[n].mode = "waiting"
  /\ timer' = [timer EXCEPT ![n].mode = "called"]

Copies(n) ==
  {[from |-> n, to |-> l[2], version |-> version[n], data |-> data[n]] :
     l \in {k \in Link : k[1] = n}}

InFlight(l) == {m \in net : <<m.from, m.to>> = l}

\* What is known is sent to every neighbour.
Transmit(n) ==
  /\ Called(n)
  /\ version[n] # Uninitialized
  /\ net' = net \cup Copies(n)
  /\ \A l \in Link : Cardinality(InFlight(l)') <= MaxInFlight
  /\ UNCHANGED <<registered, version, data, updates, upsets>>

\* Nothing is known, the node is not associated, or the send fails.
TransmitNothing(n) ==
  /\ Called(n)
  /\ UNCHANGED <<registered, version, data, net, updates, upsets>>

\* The timer doubles its interval, which is then longer than Imin.
NextInterval(n) ==
  /\ timer[n].mode = "called"
  /\ timer' = [timer EXCEPT ![n] = [mode |-> "waiting", atMin |-> FALSE]]
  /\ UNCHANGED <<registered, version, data, net, updates, upsets>>

-----------------------------------------------------------------------------
(***************************************************************************)
(* The network.  Messages are lost, delayed and reordered.                 *)
(***************************************************************************)

Lose ==
  /\ \E m \in net : net' = net \ {m}
  /\ UNCHANGED <<registered, version, data, timer, updates, upsets>>

Listening(n) == n \in registered /\ timer[n].mode # "stopped"

\* Mutant: an uninitialized node discards what it hears.
AdoptsInitialized(m) ==
  Listening(m.to) /\ version[m.to] # Uninitialized /\ Newer(m.version, version[m.to])

\* Mutant: any other version is adopted.
AdoptsOther(m) == Listening(m.to) /\ m.version # version[m.to]

Adopts(m) == Listening(m.to) /\ Newer(m.version, version[m.to])

Adopt(m) ==
  /\ version' = [version EXCEPT ![m.to] = m.version]
  /\ data' = [data EXCEPT ![m.to] = m.data]

(***************************************************************************)
(* broadcast_udp_callback: a newer version is adopted with its data, any   *)
(* version but the node's own is an inconsistency, and a node that has not *)
(* registered the data set or has paused it takes no notice.               *)
(***************************************************************************)
Receive(m) ==
  /\ net' = net \ {m}
  /\ IF Adopts(m) THEN Adopt(m) ELSE UNCHANGED <<version, data>>
  /\ timer' = IF Listening(m.to) /\ m.version # version[m.to]
              THEN [timer EXCEPT ![m.to] = Inconsistent(@)] ELSE timer
  /\ UNCHANGED <<registered, updates, upsets>>

ReceiveOn(l) == \E m \in InFlight(l) : Receive(m)

\* The steps that write no content.
Rest ==
  \/ \E n \in Node :
       \/ Register(n) \/ Pause(n) \/ Resume(n) \/ Reboot(n)
       \/ Transmit(n) \/ TransmitNothing(n) \/ NextInterval(n)
  \/ \E l \in Link : ReceiveOn(l)
  \/ Lose

Next == (\E n \in Node : Update(n)) \/ Rest

Spec == Init /\ [][Next]_vars

(***************************************************************************)
(* The timers run (TimerContract!Fairness).  A node whose timer calls it   *)
(* again and again is associated some of these times, and a link on which  *)
(* messages are sent again and again delivers some of them.                *)
(***************************************************************************)
Fairness ==
  /\ \A n \in Node : SF_vars(Transmit(n)) /\ WF_vars(NextInterval(n))
  /\ \A l \in Link : SF_vars(ReceiveOn(l))

FairSpec == Spec /\ Fairness

-----------------------------------------------------------------------------
TypeOK ==
  /\ registered \subseteq Node
  /\ version \in [Node -> Version]
  /\ data \in [Node -> Content \cup {Blank}]
  /\ timer \in [Node -> Timer]
  /\ net \subseteq Message /\ \A m \in net : m.version # Uninitialized
  /\ \A n \in Node : version[n] = Uninitialized <=> data[n] = Blank
  /\ updates \in 0 .. MaxUpdates /\ upsets \in 0 .. MaxUpsets

\* What a node holds or has sent.
Holding(n) == [version |-> version[n], data |-> data[n]]
Carrying(m) == [version |-> m.version, data |-> m.data]
Copy == {Holding(n) : n \in Node} \cup {Carrying(m) : m \in net}

(***************************************************************************)
(* A version stands for one content everywhere, in nodes that have been    *)
(* paused or restarted and in delayed messages too: nodes that see equal   *)
(* versions are right to take themselves for consistent.  This needs a     *)
(* single updater that does not restart, and fewer updates than span half  *)
(* the versions.                                                           *)
(***************************************************************************)
SameVersionSameData == \A x, y \in Copy : x.version = y.version => x.data = y.data

(***************************************************************************)
(* No delayed or reordered message, no update that wraps the version       *)
(* around, takes a node back to an older version or to none.               *)
(***************************************************************************)
NoRollback ==
  [][\A n \in Node :
       \/ version'[n] = version[n]
       \/ /\ (version'[n] - version[n]) % VersionMod < VersionMod \div 2
          /\ version'[n] # Uninitialized
       \/ n \in registered \ registered']_vars

(***************************************************************************)
(* When the applications have stopped disturbing it, the data set becomes  *)
(* the same at all neighbours that listen, whatever was lost before.       *)
(* mtk_broadcast/README.md:3 calls this network wide broadcast.            *)
(***************************************************************************)
Converges ==
  <>[](\A l \in Link : Listening(l[1]) /\ Listening(l[2]) =>
         version[l[1]] = version[l[2]])

(***************************************************************************)
(* mtk_broadcast.h:102: pausing prevents sending and receiving updates.    *)
(* Only resuming the broadcast should end that; a local update does too.   *)
(***************************************************************************)
PausedUntilResumed ==
  [][\A n \in registered :
       timer[n].mode = "stopped" /\ timer'[n].mode # "stopped" => Resume(n)]_vars
=============================================================================
