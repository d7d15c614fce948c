-------------------------- MODULE BroadcastApiProofs --------------------------
(***************************************************************************)
(* The two ways to find a context agree, for every number of contexts and  *)
(* of data sets.                                                           *)
(*                                                                         *)
(* LookupsAgree alone is not inductive: it needs that the list holds every *)
(* context that was registered and holds it once, that contexts which were *)
(* taken in vain stay without an id, and that ids differ.                  *)
(***************************************************************************)
EXTENDS BroadcastApi, TLAPS

Registered == {i \in Ctx : id[i] # NoId}

ListedOnce == \A j, k \in DOMAIN list : list[j] = list[k] => j = k

ListedTaken == \A k \in DOMAIN list : list[k] <= num /\ id[list[k]] # NoId

AllListed == Registered \subseteq Listed

OwnIds == \A i, j \in Registered : id[i] = id[j] => i = j

AInv == TypeOK /\ ListedOnce /\ ListedTaken /\ AllListed /\ OwnIds

-----------------------------------------------------------------------------
\* A context put in front of a list.
LEMMA PushProperties ==
  ASSUME NEW S, NEW s \in Seq(S), NEW x \in S
  PROVE  /\ <<x>> \o s \in Seq(S)
         /\ Len(<<x>> \o s) = Len(s) + 1 /\ Len(s) \in Nat
         /\ (<<x>> \o s)[1] = x
         /\ \A k \in 1 .. Len(s) : (<<x>> \o s)[k + 1] = s[k]
OBVIOUS

\* A successful registration.
LEMMA RegisterKeeps ==
  ASSUME AInv, NEW d \in Id, ~InUse(d), ~TableFull,
         num' = num + 1, id' = [id EXCEPT ![num'] = d], Push(num'),
         running' = running \cup {num'}, status' = "SUCCESS", UNCHANGED initialized
  PROVE  AInv'
<1> DEFINE new == num + 1
<1>1. new \in Ctx /\ num \in Nat
  BY TableAssumption DEF AInv, TypeOK, TableFull, Ctx
<1>2. list \in Seq(Ctx) /\ DOMAIN list = 1 .. Len(list) /\ Len(list) \in Nat
  BY DEF AInv, TypeOK
<1>3. /\ list' \in Seq(Ctx)
      /\ Len(list') = Len(list) + 1
      /\ list'[1] = new
      /\ \A k \in 1 .. Len(list) : list'[k + 1] = list[k]
  BY <1>1, <1>2, PushProperties DEF Push
<1>4. DOMAIN list' = 1 .. Len(list) + 1
  BY <1>3
<1>5. \A k \in DOMAIN list' : k = 1 \/ (k - 1 \in DOMAIN list /\ list'[k] = list[k - 1])
  <2> TAKE k \in DOMAIN list'
  <2>1. CASE k = 1
    BY <2>1
  <2>2. CASE k # 1
    <3>1. k - 1 \in 1 .. Len(list) /\ (k - 1) + 1 = k
      BY <1>2, <1>4, <2>2
    <3> QED BY <1>2, <1>3, <3>1
  <2> QED BY <2>1, <2>2
<1>6. id \in [Ctx -> Id \cup {NoId}] /\ id' = [id EXCEPT ![new] = d]
  BY DEF AInv, TypeOK
<1>7. \A i \in Ctx : id'[i] = IF i = new THEN d ELSE id[i]
  BY <1>1, <1>6
<1>8. \A k \in DOMAIN list : list[k] \in Ctx /\ list[k] <= num /\ id[list[k]] # NoId
  BY <1>2 DEF AInv, ListedTaken
<1>9. d # NoId
  BY TableAssumption
<1>10. \A i \in Registered : i # new /\ id[i] # d
  <2> TAKE i \in Registered
  <2>1. PICK k \in DOMAIN list : list[k] = i
    BY DEF AInv, AllListed, Listed
  <2>2. i <= num
    BY <1>8, <2>1
  <2>3. id[i] # d
    BY <2>1 DEF InUse, Listed
  <2> QED BY <1>1, <2>2, <2>3 DEF Registered, Ctx
<1>11. TypeOK'
  BY <1>1, <1>3, <1>6 DEF AInv, TypeOK, Status, Ctx
<1>12. ListedOnce'
  <2> SUFFICES ASSUME NEW j \in DOMAIN list', NEW k \in DOMAIN list', list'[j] = list'[k]
               PROVE  j = k
    BY DEF ListedOnce
  <2>1. \A h \in DOMAIN list' : h # 1 => list'[h] # new
    BY <1>1, <1>5, <1>8 DEF Ctx
  <2>2. CASE j = 1 \/ k = 1
    BY <1>3, <2>1, <2>2
  <2>3. CASE j # 1 /\ k # 1
    <3>1. j - 1 = k - 1
      BY <1>5, <2>3 DEF AInv, ListedOnce
    <3> QED BY <1>4, <3>1
  <2> QED BY <2>2, <2>3
<1>13. ListedTaken'
  <2> SUFFICES ASSUME NEW k \in DOMAIN list'
               PROVE  list'[k] <= num' /\ id'[list'[k]] # NoId
    BY DEF ListedTaken
  <2>1. CASE k = 1
    BY <1>1, <1>3, <1>7, <1>9, <2>1
  <2>2. CASE k # 1
    <3>1. list'[k] \in Ctx /\ list'[k] <= num /\ id[list'[k]] # NoId
      BY <1>5, <1>8, <2>2
    <3>2. list'[k] # new
      BY <1>1, <3>1 DEF Ctx
    <3> QED BY <1>1, <1>7, <3>1, <3>2 DEF Ctx
  <2> QED BY <2>1, <2>2
<1>14. Registered' = Registered \cup {new}
  BY <1>1, <1>7, <1>9 DEF Registered
<1>15. AllListed'
  <2> SUFFICES ASSUME NEW i \in Registered' PROVE \E k \in DOMAIN list' : list'[k] = i
    BY DEF AllListed, Listed
  <2>1. CASE i = new
    <3>1. 1 \in DOMAIN list'
      BY <1>2, <1>4
    <3> QED BY <1>3, <2>1, <3>1
  <2>2. CASE i \in Registered
    <3>1. PICK k \in DOMAIN list : list[k] = i
      BY <2>2 DEF AInv, AllListed, Listed
    <3>2. k + 1 \in DOMAIN list' /\ list'[k + 1] = i
      BY <1>2, <1>3, <1>4, <3>1
    <3> QED BY <3>2
  <2> QED BY <1>14, <2>1, <2>2
<1>16. OwnIds'
  BY <1>7, <1>10, <1>14 DEF AInv, OwnIds, Registered
<1> QED BY <1>11, <1>12, <1>13, <1>15, <1>16 DEF AInv

\* A call on a data set leaves the table and the list alone.
LEMMA CallKeeps ==
  ASSUME AInv, NEW d \in Id,
         NEW result \in [Ctx -> Status], NEW effect \in [Ctx -> SUBSET Ctx],
         OnContext(d, result, effect)
  PROVE  AInv'
<1>1. UNCHANGED <<initialized, num, id, list>>
  BY DEF OnContext
<1>2. status' \in Status /\ running' \subseteq Ctx
  <2>1. InTable(d) \subseteq Ctx
    BY TableAssumption DEF AInv, TypeOK, InTable, Ctx
  <2> QED BY <2>1 DEF OnContext, AInv, TypeOK, Status
<1> QED
  BY <1>1, <1>2
     DEF AInv, TypeOK, ListedOnce, ListedTaken, AllListed, OwnIds, Registered, Listed

LEMMA Invariance == Spec => []AInv
<1>1. Init => AInv
  <2> SUFFICES ASSUME Init PROVE AInv
    OBVIOUS
  <2>1. TypeOK
    <3>1. id \in [Ctx -> Id \cup {NoId}] /\ list \in Seq(Ctx) /\ running \subseteq Ctx
      BY DEF Init
    <3>2. initialized \in BOOLEAN
      BY DEF Init
    <3>3. num \in 0 .. NumCtx /\ status \in Status
      BY TableAssumption DEF Init, Status
    <3> QED BY <3>1, <3>2, <3>3 DEF TypeOK
  <2>2. DOMAIN list = {} /\ Registered = {}
    BY DEF Init, Registered
  <2> QED BY <2>1, <2>2 DEF AInv, ListedOnce, ListedTaken, AllListed, OwnIds
<1>2. AInv /\ [Next]_vars => AInv'
  <2> SUFFICES ASSUME AInv, [Next]_vars PROVE AInv'
    OBVIOUS
  <2> USE DEF Status
  <2>1. ASSUME UNCHANGED <<id, list, running>>, num' \in num .. NumCtx,
               status' \in Status, initialized' \in BOOLEAN
        PROVE  AInv'
    <3>1. TypeOK'
      BY <2>1, TableAssumption DEF AInv, TypeOK
    <3>2. \A k \in DOMAIN list : list[k] <= num'
      <4>1. \A k \in DOMAIN list : list[k] \in Nat /\ list[k] <= num
        BY TableAssumption DEF AInv, ListedTaken, TypeOK, Ctx
      <4> QED BY <2>1, <4>1 DEF AInv, TypeOK
    <3> QED
      BY <2>1, <3>1, <3>2
         DEF AInv, ListedOnce, ListedTaken, AllListed, OwnIds, Registered, Listed
  <2>2. CASE InitNet
    <3>1. num \in 0 .. NumCtx /\ initialized \in BOOLEAN
      BY DEF AInv, TypeOK
    <3>2. status' \in Status /\ initialized' \in BOOLEAN
      BY <2>2, <3>1 DEF InitNet
    <3>3. UNCHANGED <<id, list, running>> /\ num' \in num .. NumCtx
      BY <2>2, <3>1, TableAssumption DEF InitNet
    <3> QED BY <2>1, <3>2, <3>3
  <2>3. ASSUME NEW d \in Id, Register(d) PROVE AInv'
    <3>1. num \in 0 .. NumCtx /\ initialized \in BOOLEAN
      BY DEF AInv, TypeOK
    <3>2. CASE ~TableFull /\ initialized /\ num' = num + 1
      BY <2>3, <3>2, RegisterKeeps DEF Register, TableFull
    <3>3. CASE ~TableFull /\ ~initialized /\ num' = num + 1
      BY <2>1, <2>3, <3>1, <3>3, TableAssumption DEF Register, TableFull
    <3>4. CASE TableFull
      BY <2>1, <2>3, <3>1, <3>4, TableAssumption DEF Register
    <3> QED BY <2>3, <3>2, <3>3, <3>4 DEF Register
  <2>4. ASSUME NEW d \in Id, Update(d) \/ Pause(d) \/ Resume(d) PROVE AInv'
    <3>1. running \subseteq Ctx
      BY DEF AInv, TypeOK
    <3>2. Succeeds \in [Ctx -> Status] /\ Starts \in [Ctx -> SUBSET Ctx]
      BY <3>1 DEF Succeeds, Starts
    <3>3. [i \in Ctx |-> running \ {i}] \in [Ctx -> SUBSET Ctx]
      BY <3>1
    <3>4. [i \in Ctx |-> IF i \in running THEN "INTERNAL" ELSE "SUCCESS"] \in [Ctx -> Status]
      OBVIOUS
    <3>5. CASE Update(d)
      BY <3>2, <3>5, CallKeeps DEF Update
    <3>6. CASE Pause(d)
      BY <3>2, <3>3, <3>6, CallKeeps DEF Pause
    <3>7. CASE Resume(d)
      BY <3>2, <3>4, <3>7, CallKeeps DEF Resume
    <3> QED BY <2>4, <3>5, <3>6, <3>7
  <2>5. CASE UNCHANGED vars
    BY <2>1, <2>5, TableAssumption DEF vars, AInv, TypeOK
  <2> QED BY <2>2, <2>3, <2>4, <2>5 DEF Next
<1> QED BY <1>1, <1>2, PTL DEF Spec

\* The table never holds more contexts than it has place for.
THEOREM TypeCorrect == Spec => []TypeOK
<1>1. AInv => TypeOK
  BY DEF AInv
<1> QED BY <1>1, Invariance, PTL

(***************************************************************************)
(* The application's calls and the network's messages find the same        *)
(* context, whatever registrations and initialisations failed before.      *)
(***************************************************************************)
THEOREM LookupsCorrect == Spec => []LookupsAgree
<1>1. AInv => LookupsAgree
  <2> SUFFICES ASSUME AInv, NEW d \in Id PROVE InTable(d) = Heard(d)
    BY DEF LookupsAgree
  <2>1. d # NoId
    BY TableAssumption
  <2>2. /\ list \in Seq(Ctx) /\ DOMAIN list = 1 .. Len(list) /\ Len(list) \in Nat
        /\ num \in 0 .. NumCtx
    BY DEF AInv, TypeOK
  <2>3. ASSUME NEW i \in Heard(d) PROVE i \in InTable(d)
    <3>1. PICK k \in DOMAIN list : list[k] = i /\ id[i] = d
      BY <2>3 DEF Heard
    <3>2. i \in Ctx /\ i <= num
      BY <2>2, <3>1 DEF AInv, ListedTaken
    <3> QED BY <2>2, <3>1, <3>2 DEF InTable, Ctx
  <2>4. ASSUME NEW i \in InTable(d) PROVE i \in Heard(d)
    <3>1. i \in Registered /\ id[i] = d
      BY <2>1, <2>2, TableAssumption DEF InTable, Registered, Ctx
    <3>2. PICK k \in DOMAIN list : list[k] = i
      BY <3>1 DEF AInv, AllListed, Listed
    <3>3. \A h \in 1 .. k - 1 : id[list[h]] # d
      <4> SUFFICES ASSUME NEW h \in 1 .. k - 1, id[list[h]] = d PROVE FALSE
        OBVIOUS
      <4>1. h \in DOMAIN list /\ h # k
        BY <2>2
      <4>2. list[h] \in Registered
        BY <2>1, <2>2, <4>1 DEF Registered
      <4>3. list[h] = i
        BY <3>1, <4>2 DEF AInv, OwnIds
      <4> QED BY <3>2, <4>1, <4>3 DEF AInv, ListedOnce
    <3> QED BY <3>1, <3>2, <3>3 DEF Heard
  <2> QED BY <2>3, <2>4
<1> QED BY <1>1, Invariance, PTL
=============================================================================
