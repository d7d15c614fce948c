---------------------------- MODULE BroadcastApi ----------------------------
(***************************************************************************)
(* The data sets of one node: the table of contexts of mtk_broadcast.c,    *)
(* searched by the application's calls, and the worker's list of the same  *)
(* contexts, searched for every message.  The application gives every data *)
(* set an id of its own, not 0, and tries again what failed.               *)
(***************************************************************************)
EXTENDS Integers, Sequences, FiniteSets

CONSTANTS
  Id,      \* data ids, unique and not 0
  NoId,    \* the id 0 of a context that was never registered
  NumCtx   \* MTK_BROADCAST_NUM_CTX

ASSUME TableAssumption == NumCtx \in Nat \ {0} /\ NoId \notin Id

VARIABLES
  initialized,  \* broadcast_net_initialized
  num,          \* broadcast_num_ctx
  id,           \* ctx->id of every context
  list,         \* the list from broadcast_ctx_base on
  running,      \* contexts whose timer runs
  status        \* what the last call returned

vars == <<initialized, num, id, list, running, status>>

Ctx == 1 .. NumCtx
Status == {"SUCCESS", "NO_MEMORY", "INTERNAL", "NOT_INITIALIZED"}

Init ==
  /\ initialized = FALSE
  /\ num = 0
  /\ id = [i \in Ctx |-> NoId]
  /\ list = <<>>
  /\ running = {}
  /\ status = "SUCCESS"

\* The platform may refuse to bind the port or to join the group.
InitNet ==
  /\ \/ initialized' = TRUE /\ status' = "SUCCESS"
     \/ ~initialized /\ status' = "INTERNAL" /\ UNCHANGED initialized
  /\ UNCHANGED <<num, id, list, running>>

Listed == {list[k] : k \in DOMAIN list}

InUse(d) == \E i \in Listed : id[i] = d

\* Mutant: the list is lost behind the new context.
PushAlone(i) == list' = <<i>>

Push(i) == list' = <<i>> \o list

\* Mutant: one context more than the table has.
TableFullLate == num > NumCtx

TableFull == num >= NumCtx

(***************************************************************************)
(* A context is taken from the table before the worker is asked, and not   *)
(* given back when the worker refuses.                                     *)
(***************************************************************************)
Register(d) ==
  /\ ~InUse(d)
  /\ \/ /\ TableFull
        /\ status' = "NO_MEMORY"
        /\ UNCHANGED <<num, id, list, running>>
     \/ /\ ~TableFull /\ num' = num + 1
        /\ IF initialized
           THEN /\ id' = [id EXCEPT ![num'] = d]
                /\ Push(num')
                /\ running' = running \cup {num'}
                /\ status' = "SUCCESS"
           ELSE status' = "INTERNAL" /\ UNCHANGED <<id, list, running>>
  /\ UNCHANGED initialized

\* The contexts that a call for d finds in the table; the first is taken.
InTable(d) == {i \in 1 .. num : id[i] = d}

\* A call on the data set d; effect is what the worker does with the context.
OnContext(d, result, effect) ==
  /\ IF InTable(d) = {}
     THEN status' = "NOT_INITIALIZED" /\ UNCHANGED running
     ELSE \E i \in InTable(d) :
            /\ \A j \in InTable(d) : i <= j
            /\ running' = effect[i]
            /\ status' = result[i]
  /\ UNCHANGED <<initialized, num, id, list>>

Succeeds == [i \in Ctx |-> "SUCCESS"]
Starts == [i \in Ctx |-> running \cup {i}]

\* An update starts the timer of a paused data set too.
Update(d) == OnContext(d, Succeeds, Starts)

Pause(d) == OnContext(d, Succeeds, [i \in Ctx |-> running \ {i}])

Resume(d) ==
  OnContext(d, [i \in Ctx |-> IF i \in running THEN "INTERNAL" ELSE "SUCCESS"], Starts)

Next ==
  \/ InitNet
  \/ \E d \in Id : Register(d) \/ Update(d) \/ Pause(d) \/ Resume(d)

Spec == Init /\ [][Next]_vars

-----------------------------------------------------------------------------
TypeOK ==
  /\ initialized \in BOOLEAN
  /\ num \in 0 .. NumCtx
  /\ id \in [Ctx -> Id \cup {NoId}]
  /\ list \in Seq(Ctx)
  /\ running \subseteq Ctx
  /\ status \in Status

\* The first context of the list that has the id of a message.
Heard(d) ==
  {list[k] : k \in {j \in DOMAIN list :
     id[list[j]] = d /\ \A h \in 1 .. j - 1 : id[list[h]] # d}}

(***************************************************************************)
(* The application's calls and the messages of the network act on the same *)
(* context, for every data set and after any number of failed calls: the   *)
(* one search runs over the table from its start, the other over the list  *)
(* from the last registration.                                             *)
(***************************************************************************)
LookupsAgree == \A d \in Id : InTable(d) = Heard(d)
=============================================================================
