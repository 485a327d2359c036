-------------------------- MODULE CronReloadProofs --------------------------
(***************************************************************************)
(* Proofs about CronReload for any number of items, requests and faults.   *)
(*                                                                         *)
(* CountInv bounds the number of runners by that of the requests. That     *)
(* nothing is forgotten rests on LatestInv: a request that has not yet     *)
(* listed what is stored will list it, and one that has listed it and is   *)
(* not past its registration holds, or has registered, the latest of every *)
(* item; in both cases in the runner that is current, whoever made it.     *)
(* AloneInv follows a request that meets no other.                         *)
(***************************************************************************)
EXTENDS CronReload, FiniteSetTheorems, TLAPS

\* The requests that have not yet made a runner.
Coming == {r \in Requests : pc[r] \in {"save", "assign", "stop", "await"}}

CountInv ==
    /\ created + Cardinality(Coming) =< arrived
    /\ \A r \in Requests : r > arrived => pc[r] = "idle"
    /\ current = created

\* What a request holds at each place.
PlaceInv ==
    \A r \in Requests :
        /\ pc[r] = "assign" => key[r] \in DOMAIN todo[r] /\ key[r] \in Items
        /\ pc[r] \in {"idle", "stop", "await", "list"} => DOMAIN todo[r] = {}

StopInv == ~ up => /\ running = {} /\ \A n \in Runners : entries[n] = {}
                   /\ Active = {}

FreshInv == \A n \in Runners : n > created => entries[n] = {}

Fired(i) == \E e \in entries[current] : e.item = i /\ e.value = memory[i]

\* A request at its registration has, for the current runner, the latest of every item.
Covers(r) ==
    /\ pc[r] = "register"
    /\ \A i \in Items : memory[i] \in Versions =>
           Fired(i) \/ (i \in DOMAIN todo[r] /\ todo[r][i] = memory[i])

WillList(r) == pc[r] \in {"save", "assign", "stop", "await", "list"}

LatestInv == (up /\ ~ broken) => Serves(current) \/ \E r \in Requests : WillList(r) \/ Covers(r)

\* What a request that is alone finds and leaves.
AloneAt(r) ==
    /\ pc[r] \in {"await", "list", "register"} => running = {}
    /\ pc[r] = "list" => entries[current] = {}
    /\ IF pc[r] = "assign" THEN saved = [memory EXCEPT ![key[r]] = todo[r][key[r]]]
                           ELSE saved = memory
    /\ pc[r] = "register" => /\ NothingElse(current)
                             /\ \A i \in DOMAIN todo[r] : todo[r][i] = memory[i]
                             /\ \A e \in entries[current] : e.item \notin DOMAIN todo[r]

AtRest == saved = memory /\ (~ broken => NothingElse(current))

Alone ==
    /\ \A r, q \in Active : r = q
    /\ running \subseteq {current}
    /\ up => /\ \A r \in Active : AloneAt(r)
             /\ Active = {} => AtRest

AloneInv == ~ overlapped => Alone

Inv == TypeOK /\ CountInv /\ PlaceInv /\ StopInv /\ FreshInv
Holds == Inv /\ LatestInv /\ AloneInv

(***************************************************************************)
(* Values for some of the items, and what is left of them.                 *)
(***************************************************************************)

LEMMA PartFacts == ASSUME NEW f \in Parts PROVE DOMAIN f \subseteq Items /\ f \in [DOMAIN f -> Values]
BY DEF Parts

LEMMA PartIs == ASSUME NEW I \in SUBSET Items, NEW f \in [I -> Values] PROVE f \in Parts
BY DEF Parts

LEMMA NothingLeft == <<>> \in Parts /\ DOMAIN <<>> = {}
<1>1. DOMAIN <<>> = {}
  OBVIOUS
<1>2. <<>> \in [{} -> Values]
  BY <1>1
<1>3. QED
  BY <1>1, <1>2, PartIs

LEMMA WithoutPart ==
    ASSUME NEW f \in Parts, NEW i
    PROVE  /\ Without(f, i) \in Parts
           /\ DOMAIN Without(f, i) = DOMAIN f \ {i}
           /\ \A j \in DOMAIN f \ {i} : Without(f, i)[j] = f[j]
<1>1. /\ DOMAIN Without(f, i) = DOMAIN f \ {i}
      /\ \A j \in DOMAIN f \ {i} : Without(f, i)[j] = f[j]
      /\ Without(f, i) \in [DOMAIN f \ {i} -> Values]
  BY PartFacts DEF Without
<1>2. QED
  BY <1>1, PartFacts, PartIs

LEMMA WishIsPart == ASSUME NEW f \in Wishes PROVE f \in Parts
<1>1. PICK I \in SUBSET Items : f \in [I -> Offers]
  BY DEF Wishes
<1>2. f \in [I -> Values]
  BY <1>1, OffersAssumption DEF Values, Versions
<1>3. QED
  BY <1>1, <1>2, PartIs

LEMMA RegisteredEntries ==
    ASSUME NEW values \in [Items -> Values], NEW r \in {Nobody} \cup Requests
    PROVE  /\ Registered(values, r) \subseteq Entries
           /\ \A e \in Registered(values, r) : e.value = values[e.item] /\ e.by = r
           /\ \A e, f \in Registered(values, r) : e.item = f.item => e = f
           /\ \A i \in Items : values[i] \in Versions =>
                  \E e \in Registered(values, r) : e.item = i /\ e.value = values[i]
<1>1. ASSUME NEW e \in Registered(values, r)
      PROVE  \E i \in Items : /\ values[i] \in Versions
                              /\ e = [item |-> i, value |-> values[i], by |-> r]
  BY DEF Registered
<1>2. ASSUME NEW i \in Items, values[i] \in Versions
      PROVE  [item |-> i, value |-> values[i], by |-> r] \in Registered(values, r)
  BY <1>2 DEF Registered
<1>3. Registered(values, r) \subseteq Entries
  BY <1>1 DEF Entries
<1>4. \A e \in Registered(values, r) : e.value = values[e.item] /\ e.by = r
  BY <1>1
<1>5. \A e, f \in Registered(values, r) : e.item = f.item => e = f
  BY <1>1
<1>6. \A i \in Items : values[i] \in Versions =>
          \E e \in Registered(values, r) : e.item = i /\ e.value = values[i]
  BY <1>2
<1>7. QED
  BY <1>3, <1>4, <1>5, <1>6

(***************************************************************************)
(* The types, and the number of runners.                                   *)
(***************************************************************************)

LEMMA Bounds == MaxVersion \in Nat \ {0} /\ MaxRequests \in Nat \ {0} /\ MaxFaults \in Nat
BY BoundsAssumption

\* A request that moves between the places before its runner is made.
LEMMA ComingSame ==
    ASSUME TypeOK, NEW r \in Requests, NEW where,
           pc[r] \in {"save", "assign", "stop", "await"}, where \in {"save", "assign", "stop", "await"},
           pc' = [pc EXCEPT ![r] = where]
    PROVE  Coming' = Coming
BY DEF Coming, TypeOK

LEMMA ComingFinite == IsFiniteSet(Coming) /\ Cardinality(Coming) \in Nat
<1>1. IsFiniteSet(Requests)
  BY Bounds, FS_Interval DEF Requests
<1>2. Coming \subseteq Requests
  BY DEF Coming
<1>3. QED
  BY <1>1, <1>2, FS_Subset, FS_CardinalityType

LEMMA ComingMore ==
    ASSUME TypeOK, NEW r \in Requests, pc[r] = "idle", pc' = [pc EXCEPT ![r] = "save"]
    PROVE  Cardinality(Coming') = Cardinality(Coming) + 1
<1>1. Coming' = Coming \cup {r} /\ r \notin Coming
  BY DEF Coming, TypeOK
<1>2. QED
  BY <1>1, ComingFinite, FS_AddElement

LEMMA ComingLess ==
    ASSUME TypeOK, NEW r \in Requests, NEW where, where \in {"idle", "list"},
           pc[r] \in {"save", "assign", "stop", "await"}, pc' = [pc EXCEPT ![r] = where]
    PROVE  Cardinality(Coming') = Cardinality(Coming) - 1
<1>1. Coming' = Coming \ {r} /\ r \in Coming
  BY DEF Coming, TypeOK
<1>2. QED
  BY <1>1, ComingFinite, FS_RemoveElement

LEMMA ComingUntouched ==
    ASSUME TypeOK, NEW r \in Requests, NEW where, where \in {"idle", "list", "register"},
           pc[r] \in {"list", "register"}, pc' = [pc EXCEPT ![r] = where]
    PROVE  Coming' = Coming
BY DEF Coming, TypeOK

LEMMA ComingNone ==
    ASSUME pc' = [r \in Requests |-> "idle"] PROVE Cardinality(Coming') = 0
<1>1. Coming' = {}
  BY DEF Coming
<1>2. QED
  BY <1>1, FS_EmptySet

\* What a request that leaves does to the requests.
LEMMA LeavesTypes ==
    ASSUME TypeOK, NEW r \in Requests, Leaves(r)
    PROVE  /\ pc' \in [Requests -> {"idle", "save", "assign", "stop", "await", "list", "register"}]
           /\ op' \in [Requests -> {"create", "change"}]
           /\ todo' \in [Requests -> Parts]
           /\ key' \in [Requests -> Items \cup {NoKey}]
           /\ stopped' \in [Requests -> Runners \cup {NoRunner}]
BY NothingLeft DEF Leaves, Goes, TypeOK

LEMMA InitInv == Init => Inv
<1> SUFFICES ASSUME Init PROVE Inv
  OBVIOUS
<1>1. /\ saved \in [Items -> Values] /\ memory \in [Items -> Values]
      /\ 0 \in Runners /\ Nobody \in {Nobody} \cup Requests
  <2>1. {Gone, 1} \subseteq Values /\ 0 \in Runners
    BY Bounds DEF Values, Versions, Runners
  <2>2. QED
    BY <2>1 DEF Init
<1>2. entries \in [Runners -> SUBSET Entries]
  BY <1>1, RegisteredEntries DEF Init
<1>3. /\ todo \in [Requests -> Parts] /\ \A r \in Requests : DOMAIN todo[r] = {}
  BY NothingLeft DEF Init
<1>4. TypeOK
  <2>1. /\ arrived \in 0 .. MaxRequests /\ faults \in 0 .. MaxFaults
        /\ running \subseteq Runners
    BY <1>1, Bounds DEF Init
  <2>2. /\ pc \in [Requests -> {"idle", "save", "assign", "stop", "await", "list", "register"}]
        /\ op \in [Requests -> {"create", "change"}]
        /\ key \in [Requests -> Items \cup {NoKey}]
        /\ stopped \in [Requests -> Runners \cup {NoRunner}]
    BY DEF Init
  <2>3. /\ kind \in Kinds /\ current \in Runners /\ created \in Runners
        /\ job \in Runners \cup {ByHand, NoJob}
    BY <1>1 DEF Init
  <2>4. waiting \in BOOLEAN /\ up \in BOOLEAN /\ overlapped \in BOOLEAN /\ broken \in BOOLEAN
    BY Zenon DEF Init
  <2>5. QED
    BY <1>1, <1>2, <1>3, <2>1, <2>2, <2>3, <2>4 DEF TypeOK
<1>5. CountInv
  <2>1. Coming = {}
    BY DEF Init, Coming
  <2>2. QED
    BY <2>1, FS_EmptySet DEF Init, CountInv
<1>6. PlaceInv /\ StopInv
  BY <1>3 DEF Init, PlaceInv, StopInv
<1>7. FreshInv
  BY DEF Init, FreshInv
<1>8. QED
  BY <1>4, <1>5, <1>6, <1>7 DEF Inv

\* The runners a reload can make are those the requests allow.
LEMMA RunnerFits ==
    ASSUME Inv, NEW r \in Requests, pc[r] = "await"
    PROVE  created + 1 \in Runners
<1>1. r \in Coming
  BY DEF Coming
<1>2. Cardinality(Coming) # 0
  BY <1>1, ComingFinite, FS_EmptySet
<1>3. created + 1 =< arrived
  BY <1>2, ComingFinite, Bounds DEF Inv, CountInv, TypeOK, Runners
<1>4. QED
  BY <1>3, Bounds DEF Inv, TypeOK, Runners

LEMMA TypeStep == Inv /\ [Next]_vars => TypeOK'
<1> SUFFICES ASSUME Inv, [Next]_vars PROVE TypeOK'
  OBVIOUS
<1>0. /\ TypeOK /\ PlaceInv
      /\ MaxRequests \in Nat /\ MaxFaults \in Nat /\ Nobody \in {Nobody} \cup Requests
  BY Bounds DEF Inv
<1>1. ASSUME NEW r \in Requests, NEW o \in {"create", "change"}, NEW values \in Wishes,
             Begin(r, o, values)
      PROVE  TypeOK'
  <2>1. todo' \in [Requests -> Parts] /\ pc'  \in [Requests -> {"idle", "save", "assign", "stop", "await", "list", "register"}]
    BY <1>0, <1>1, WishIsPart DEF Begin, Goes, TypeOK
  <2>2. op' \in [Requests -> {"create", "change"}] /\ arrived' \in 0 .. MaxRequests
    BY <1>0, <1>1 DEF Begin, TypeOK, Requests
  <2>3. overlapped' \in BOOLEAN
    BY <1>1, Zenon DEF Begin
  <2>4. UNCHANGED <<storeVars, cronVars, jobVars, up, key, stopped, faults, broken>>
    BY <1>1 DEF Begin
  <2>5. QED
    BY <1>0, <2>1, <2>2, <2>3, <2>4 DEF TypeOK, storeVars, cronVars, jobVars
<1>2. ASSUME NEW r \in Requests, NEW i \in Items, SaveTask(r, i) PROVE TypeOK'
  <2>1. todo[r][i] \in Values
    BY <1>0, <1>2, PartFacts DEF SaveTask, TypeOK
  <2>2. saved' \in [Items -> Values] /\ memory' \in [Items -> Values]
    BY <1>0, <1>2, <2>1 DEF SaveTask, TypeOK
  <2>3. /\ todo' \in [Requests -> Parts]
        /\ pc' \in [Requests -> {"idle", "save", "assign", "stop", "await", "list", "register"}]
    BY <1>0, <1>2, NothingLeft DEF SaveTask, Goes, TypeOK
  <2>4. UNCHANGED <<kind, cronVars, jobVars, up, op, key, stopped, boundVars, overlapped, broken>>
    BY <1>2 DEF SaveTask
  <2>5. QED
    BY <1>0, <2>2, <2>3, <2>4 DEF TypeOK, cronVars, jobVars, boundVars
<1>3. ASSUME NEW r \in Requests, NEW i \in Items, SaveKey(r, i) PROVE TypeOK'
  <2>1. todo[r][i] \in Values
    BY <1>0, <1>3, PartFacts DEF SaveKey, TypeOK
  <2>2. saved' \in [Items -> Values] /\ key' \in [Requests -> Items \cup {NoKey}]
    BY <1>0, <1>3, <2>1 DEF SaveKey, TypeOK
  <2>3. pc' \in [Requests -> {"idle", "save", "assign", "stop", "await", "list", "register"}]
    BY <1>0, <1>3 DEF SaveKey, Goes, TypeOK
  <2>4. UNCHANGED <<kind, memory, cronVars, jobVars, up, op, todo, stopped, boundVars, overlapped, broken>>
    BY <1>3 DEF SaveKey
  <2>5. QED
    BY <1>0, <2>2, <2>3, <2>4 DEF TypeOK, cronVars, jobVars, boundVars
<1>4. ASSUME NEW r \in Requests, AssignKey(r) PROVE TypeOK'
  <2>1. todo[r][key[r]] \in Values /\ key[r] \in Items /\ todo[r] \in Parts
    BY <1>0, <1>4, PartFacts DEF AssignKey, TypeOK, PlaceInv
  <2>2. memory' \in [Items -> Values] /\ key' \in [Requests -> Items \cup {NoKey}]
    BY <1>0, <1>4, <2>1 DEF AssignKey, TypeOK
  <2>3. /\ todo' \in [Requests -> Parts]
        /\ pc' \in [Requests -> {"idle", "save", "assign", "stop", "await", "list", "register"}]
    BY <1>0, <1>4, <2>1, WithoutPart DEF AssignKey, Goes, TypeOK
  <2>4. UNCHANGED <<kind, saved, cronVars, jobVars, up, op, stopped, boundVars, overlapped, broken>>
    BY <1>4 DEF AssignKey
  <2>5. QED
    BY <1>0, <2>2, <2>3, <2>4 DEF TypeOK, cronVars, jobVars, boundVars
<1>5. ASSUME NEW r \in Requests, SaveFails(r) \/ ListFails(r) PROVE TypeOK'
  <2>1. faults' \in 0 .. MaxFaults
    BY <1>0, <1>5 DEF SaveFails, ListFails, TypeOK
  <2>2. broken' \in BOOLEAN
    BY <1>5, Zenon DEF SaveFails, ListFails
  <2>3. Leaves(r) /\ UNCHANGED <<storeVars, cronVars, jobVars, up, arrived, overlapped>>
    BY <1>5 DEF SaveFails, ListFails
  <2>4. QED
    BY <1>0, <2>1, <2>2, <2>3, LeavesTypes DEF TypeOK, storeVars, cronVars, jobVars
<1>6. ASSUME NEW r \in Requests, StopRunner(r) PROVE TypeOK'
  <2>1. /\ running' \subseteq Runners /\ stopped' \in [Requests -> Runners \cup {NoRunner}]
        /\ pc' \in [Requests -> {"idle", "save", "assign", "stop", "await", "list", "register"}]
    BY <1>0, <1>6 DEF StopRunner, Goes, TypeOK
  <2>2. UNCHANGED <<storeVars, current, created, entries, jobVars, up, op, todo, key, boundVars,
                    overlapped, broken>>
    BY <1>6 DEF StopRunner
  <2>3. QED
    BY <1>0, <2>1, <2>2 DEF TypeOK, storeVars, jobVars, boundVars
<1>7. ASSUME NEW r \in Requests, Replace(r) PROVE TypeOK'
  <2>1. created' \in Runners /\ current' \in Runners
    BY <1>7, RunnerFits DEF Replace
  <2>2. pc' \in [Requests -> {"idle", "save", "assign", "stop", "await", "list", "register"}]
    BY <1>0, <1>7 DEF Replace, Goes, TypeOK
  <2>3. UNCHANGED <<storeVars, running, entries, jobVars, up, op, todo, key, stopped, boundVars,
                    overlapped, broken>>
    BY <1>7 DEF Replace
  <2>4. QED
    BY <1>0, <2>1, <2>2, <2>3 DEF TypeOK, storeVars, jobVars, boundVars
<1>8. ASSUME NEW r \in Requests, List(r) PROVE TypeOK'
  <2>1. PICK values \in [Items -> Values] :
           todo' = [todo EXCEPT ![r] = [i \in {j \in Items : values[j] \notin {Gone, Off}} |-> values[i]]]
    BY <1>8 DEF List
  <2> DEFINE I == {j \in Items : values[j] \notin {Gone, Off}}
             part == [i \in I |-> values[i]]
  <2>2. part \in Parts
    BY PartIs
  <2>3. todo' \in [Requests -> Parts]
    BY <1>0, <2>1, <2>2 DEF TypeOK
  <2>4. /\ pc' \in [Requests -> {"idle", "save", "assign", "stop", "await", "list", "register"}]
        /\ broken' \in BOOLEAN
    BY <1>0, <1>8 DEF List, Goes, TypeOK
  <2>5. UNCHANGED <<storeVars, cronVars, jobVars, up, op, key, stopped, boundVars, overlapped>>
    BY <1>8 DEF List
  <2>6. QED
    BY <1>0, <2>3, <2>4, <2>5 DEF TypeOK, storeVars, cronVars, jobVars, boundVars
<1>9. ASSUME NEW r \in Requests, NEW i \in Items, Register(r, i) PROVE TypeOK'
  <2>1. [item |-> i, value |-> todo[r][i], by |-> r] \in Entries
    BY <1>9 DEF Register, Entries
  <2>2. entries' \in [Runners -> SUBSET Entries]
    BY <1>0, <1>9, <2>1 DEF Register, TypeOK
  <2>3. todo' \in [Requests -> Parts]
    BY <1>0, <1>9, WithoutPart DEF Register, TypeOK
  <2>4. UNCHANGED <<storeVars, current, created, running, jobVars, up, pc, op, key, stopped,
                    boundVars, overlapped, broken>>
    BY <1>9 DEF Register
  <2>5. QED
    BY <1>0, <2>2, <2>3, <2>4 DEF TypeOK, storeVars, jobVars, boundVars
<1>10. ASSUME NEW r \in Requests, NEW i \in Items, RegisterFails(r, i) PROVE TypeOK'
  <2>1. /\ Leaves(r) /\ broken' \in BOOLEAN
        /\ UNCHANGED <<storeVars, cronVars, jobVars, up, boundVars, overlapped>>
    BY <1>10 DEF RegisterFails
  <2>2. QED
    BY <1>0, <2>1, LeavesTypes DEF TypeOK, storeVars, cronVars, jobVars, boundVars
<1>11. ASSUME NEW r \in Requests, StartRunner(r) PROVE TypeOK'
  <2>1. running' \subseteq Runners
    BY <1>0, <1>11 DEF StartRunner, TypeOK
  <2>2. /\ Leaves(r)
        /\ UNCHANGED <<storeVars, current, created, entries, jobVars, up, boundVars, overlapped, broken>>
    BY <1>11 DEF StartRunner
  <2>3. QED
    BY <1>0, <2>1, <2>2, LeavesTypes DEF TypeOK, storeVars, jobVars, boundVars
<1>12. CASE (\E n \in Runners : Fire(n)) \/ JobEnds \/ (\E i \in Items : RunNow(i)) \/ ManualRuns
  BY <1>0, <1>12 DEF TypeOK, Fire, JobEnds, RunNow, ManualRuns, storeVars, cronVars, reqVars, boundVars
<1>13. CASE AgentStops
  <2>1. /\ pc' \in [Requests -> {"idle", "save", "assign", "stop", "await", "list", "register"}]
        /\ op' \in [Requests -> {"create", "change"}]
        /\ todo' \in [Requests -> Parts]
        /\ key' \in [Requests -> Items \cup {NoKey}]
        /\ stopped' \in [Requests -> Runners \cup {NoRunner}]
    BY <1>13, NothingLeft DEF AgentStops
  <2>2. /\ running' \subseteq Runners /\ entries' \in [Runners -> SUBSET Entries]
        /\ job' \in Runners \cup {ByHand, NoJob}
    BY <1>13 DEF AgentStops
  <2>3. faults' \in 0 .. MaxFaults
    BY <1>0, <1>13 DEF AgentStops, TypeOK
  <2>4. waiting' \in BOOLEAN /\ up' \in BOOLEAN
    BY <1>13 DEF AgentStops
  <2>5. UNCHANGED <<storeVars, current, created, arrived, overlapped, broken>>
    BY <1>13 DEF AgentStops
  <2>6. QED
    BY <1>0, <2>1, <2>2, <2>3, <2>4, <2>5 DEF TypeOK, storeVars
<1>14. CASE AgentStarts
  <2>1. /\ 0 \in Runners
        /\ entries' \in [Runners -> SUBSET Entries]
    BY <1>0, <1>14, RegisteredEntries DEF AgentStarts, TypeOK, Runners
  <2>2. /\ memory' \in [Items -> Values] /\ current' \in Runners /\ created' \in Runners
        /\ running' \subseteq Runners
        /\ up' \in BOOLEAN /\ overlapped' \in BOOLEAN /\ broken' \in BOOLEAN
    BY <1>0, <1>14, <2>1 DEF AgentStarts, TypeOK
  <2>3. UNCHANGED <<kind, saved, jobVars, reqVars, boundVars>>
    BY <1>14 DEF AgentStarts
  <2>4. QED
    BY <1>0, <2>1, <2>2, <2>3 DEF TypeOK, jobVars, reqVars, boundVars
<1>15. CASE UNCHANGED vars
  BY <1>0, <1>15 DEF TypeOK, vars, storeVars, cronVars, jobVars, reqVars, boundVars
<1>16. QED
  BY <1>1, <1>2, <1>3, <1>4, <1>5, <1>6, <1>7, <1>8, <1>9, <1>10, <1>11, <1>12, <1>13, <1>14, <1>15
     DEF Next, Saves, Reloads

\* The steps of jobs and of runs by hand, which leave requests and runners alone.
Aside == \/ (\E n \in Runners : Fire(n)) \/ JobEnds \/ (\E i \in Items : RunNow(i)) \/ ManualRuns
         \/ UNCHANGED vars

LEMMA AsideStays ==
    ASSUME Aside
    PROVE  UNCHANGED <<storeVars, cronVars, up, reqVars, boundVars, overlapped, broken>>
BY DEF Aside, Fire, JobEnds, RunNow, ManualRuns, vars, storeVars, cronVars, reqVars, boundVars

LEMMA CountStep == Inv /\ [Next]_vars => CountInv'
<1> SUFFICES ASSUME Inv, [Next]_vars PROVE CountInv'
  OBVIOUS
<1>0. /\ TypeOK /\ CountInv /\ StopInv
      /\ MaxRequests \in Nat /\ created \in Nat /\ arrived \in Nat
      /\ Cardinality(Coming) \in Nat
      /\ pc \in [Requests -> {"idle", "save", "assign", "stop", "await", "list", "register"}]
  BY Bounds, ComingFinite DEF Inv, TypeOK, Runners
<1>1. ASSUME NEW r \in Requests, NEW o \in {"create", "change"}, NEW values \in Wishes,
             Begin(r, o, values)
      PROVE  CountInv'
  <2>1. /\ r = arrived + 1 /\ arrived' = r /\ UNCHANGED <<created, current>>
        /\ pc' = [pc EXCEPT ![r] = "save"]
    BY <1>1 DEF Begin, Goes, cronVars
  <2>2. pc[r] = "idle"
    BY <1>0, <2>1 DEF CountInv
  <2>3. Cardinality(Coming') = Cardinality(Coming) + 1
    BY <1>0, <2>1, <2>2, ComingMore
  <2>4. \A q \in Requests : q > arrived' => pc'[q] = "idle"
    BY <1>0, <2>1 DEF CountInv, Requests
  <2>5. QED
    BY <1>0, <2>1, <2>3, <2>4 DEF CountInv
<1>2. ASSUME NEW r \in Requests, Saves(r) \/ StopRunner(r) PROVE CountInv'
  <2>1. PICK where \in {"save", "assign", "stop", "await"} : pc' = [pc EXCEPT ![r] = where]
    BY <1>2 DEF Saves, SaveTask, SaveKey, AssignKey, StopRunner, Goes
  <2>2. /\ pc[r] \in {"save", "assign", "stop", "await"}
        /\ UNCHANGED <<created, current, arrived>>
    BY <1>2 DEF Saves, SaveTask, SaveKey, AssignKey, StopRunner, cronVars, boundVars
  <2>3. Coming' = Coming
    BY <1>0, <2>1, <2>2, ComingSame
  <2>4. QED
    BY <1>0, <2>1, <2>2, <2>3 DEF CountInv
<1>3. ASSUME NEW r \in Requests, SaveFails(r) PROVE CountInv'
  <2>1. /\ pc[r] = "save" /\ pc' = [pc EXCEPT ![r] = "idle"]
        /\ UNCHANGED <<created, current, arrived>>
    BY <1>3 DEF SaveFails, Leaves, Goes, cronVars
  <2>2. Cardinality(Coming') = Cardinality(Coming) - 1
    BY <1>0, <2>1, ComingLess
  <2>3. QED
    BY <1>0, <2>1, <2>2, ComingFinite DEF CountInv
<1>4. ASSUME NEW r \in Requests, Replace(r) PROVE CountInv'
  <2>1. /\ pc[r] = "await" /\ pc' = [pc EXCEPT ![r] = "list"]
        /\ created' = created + 1 /\ current' = created' /\ arrived' = arrived
    BY <1>4 DEF Replace, Goes, boundVars
  <2>2. Cardinality(Coming') = Cardinality(Coming) - 1
    BY <1>0, <2>1, ComingLess
  <2>3. QED
    BY <1>0, <2>1, <2>2, ComingFinite DEF CountInv
<1>5. ASSUME NEW r \in Requests,
             List(r) \/ ListFails(r) \/ StartRunner(r) \/ \E i \in Items : RegisterFails(r, i)
      PROVE  CountInv'
  <2>1. PICK where \in {"idle", "list", "register"} : pc' = [pc EXCEPT ![r] = where]
    BY <1>5 DEF List, ListFails, RegisterFails, StartRunner, Leaves, Goes
  <2>2. pc[r] \in {"list", "register"} /\ UNCHANGED <<created, current, arrived>>
    BY <1>5 DEF List, ListFails, RegisterFails, StartRunner, cronVars, boundVars
  <2>3. Coming' = Coming
    BY <1>0, <2>1, <2>2, ComingUntouched
  <2>4. QED
    BY <1>0, <2>1, <2>2, <2>3 DEF CountInv
<1>6. ASSUME Aside \/ \E r \in Requests, i \in Items : Register(r, i) PROVE CountInv'
  <2>1. UNCHANGED <<created, current, arrived, pc>>
    BY <1>6, AsideStays DEF Register, cronVars, reqVars, boundVars
  <2>2. QED
    BY <1>0, <2>1 DEF CountInv, Coming
<1>7. CASE AgentStops
  <2>1. /\ Cardinality(Coming') = 0 /\ UNCHANGED <<created, current, arrived>>
        /\ \A r \in Requests : pc'[r] = "idle"
    BY <1>7, ComingNone DEF AgentStops
  <2>2. QED
    BY <1>0, <2>1 DEF CountInv
<1>8. CASE AgentStarts
  <2>1. /\ created' = 0 /\ current' = 0 /\ arrived' = arrived /\ pc' = pc
        /\ \A r \in Requests : pc[r] = "idle"
    BY <1>0, <1>8 DEF AgentStarts, StopInv, Active, boundVars, reqVars
  <2>2. Coming' = Coming
    BY <2>1 DEF Coming
  <2>3. QED
    BY <1>0, <2>1, <2>2 DEF CountInv
<1>9. QED
  BY <1>1, <1>2, <1>3, <1>4, <1>5, <1>6, <1>7, <1>8 DEF Next, Reloads, Aside

\* PlaceInv of one request.
Place(r) == /\ pc[r] = "assign" => key[r] \in DOMAIN todo[r] /\ key[r] \in Items
            /\ pc[r] \in {"idle", "stop", "await", "list"} => DOMAIN todo[r] = {}

LEMMA PlaceOne ==
    ASSUME PlaceInv, NEW r \in Requests, Place(r)',
           \A q \in Requests \ {r} : pc'[q] = pc[q] /\ todo'[q] = todo[q] /\ key'[q] = key[q]
    PROVE  PlaceInv'
<1>1. ASSUME NEW q \in Requests PROVE Place(q)'
  BY DEF PlaceInv, Place
<1>2. QED
  BY <1>1 DEF PlaceInv, Place

LEMMA PlacesStep == Inv /\ [Next]_vars => PlaceInv' /\ StopInv' /\ FreshInv'
<1> SUFFICES ASSUME Inv, [Next]_vars PROVE PlaceInv' /\ StopInv' /\ FreshInv'
  OBVIOUS
<1>0. /\ PlaceInv /\ StopInv /\ FreshInv /\ CountInv /\ todo \in [Requests -> Parts]
      /\ entries \in [Runners -> SUBSET Entries] /\ key \in [Requests -> Items \cup {NoKey}]
      /\ pc \in [Requests -> {"idle", "save", "assign", "stop", "await", "list", "register"}]
      /\ created \in Runners /\ current = created /\ Runners \subseteq Int
  BY Bounds DEF Inv, TypeOK, CountInv, Runners
<1>1. ASSUME NEW r \in Requests, NEW o \in {"create", "change"}, NEW values \in Wishes,
             Begin(r, o, values)
      PROVE  PlaceInv' /\ StopInv' /\ FreshInv'
  BY <1>0, <1>1 DEF Begin, Goes, PlaceInv, StopInv, FreshInv, cronVars
<1>2. ASSUME NEW r \in Requests, Saves(r) \/ SaveFails(r) PROVE PlaceInv' /\ StopInv' /\ FreshInv'
  <2>1. up /\ UNCHANGED <<cronVars, up>>
    BY <1>0, <1>2 DEF Saves, SaveTask, SaveKey, AssignKey, SaveFails, StopInv, Active
  <2>2. ASSUME \E i \in Items : SaveTask(r, i) PROVE PlaceInv'
    <3>1. /\ pc' = [pc EXCEPT ![r] = "stop"] /\ todo' = [todo EXCEPT ![r] = <<>>]
          /\ key' = key
      BY <2>2 DEF SaveTask, Goes
    <3>2. \A q \in Requests \ {r} : pc'[q] = pc[q] /\ todo'[q] = todo[q] /\ key'[q] = key[q]
      BY <1>0, <3>1
    <3>3. pc'[r] # "assign" /\ DOMAIN todo'[r] = {}
      BY <1>0, <3>1, NothingLeft
    <3>4. Place(r)'
      BY <3>3 DEF Place
    <3>5. QED
      BY <1>0, <3>2, <3>4, PlaceOne
  <2>3. ASSUME \E i \in Items : SaveKey(r, i) PROVE PlaceInv'
    <3>1. PICK i \in Items : SaveKey(r, i)
      BY <2>3
    <3>2. /\ pc' = [pc EXCEPT ![r] = "assign"] /\ todo' = todo
          /\ key' = [key EXCEPT ![r] = i] /\ i \in DOMAIN todo[r]
      BY <3>1 DEF SaveKey, Goes
    <3>3. \A q \in Requests \ {r} : pc'[q] = pc[q] /\ todo'[q] = todo[q] /\ key'[q] = key[q]
      BY <1>0, <3>2
    <3>4. pc'[r] = "assign" /\ key'[r] \in DOMAIN todo'[r] /\ key'[r] \in Items
      BY <1>0, <3>2
    <3>5. Place(r)'
      BY <3>4 DEF Place
    <3>6. QED
      BY <1>0, <3>3, <3>5, PlaceOne
  <2>4. ASSUME AssignKey(r) PROVE PlaceInv'
    <3> DEFINE rest == Without(todo[r], key[r])
    <3>1. /\ pc' = [pc EXCEPT ![r] = IF DOMAIN rest = {} THEN "stop" ELSE "save"]
          /\ todo' = [todo EXCEPT ![r] = rest] /\ key' = [key EXCEPT ![r] = NoKey]
      BY <2>4 DEF AssignKey, Goes
    <3> HIDE DEF rest
    <3>2. \A q \in Requests \ {r} : pc'[q] = pc[q] /\ todo'[q] = todo[q] /\ key'[q] = key[q]
      BY <1>0, <3>1
    <3>3. pc'[r] \in {"stop", "save"} /\ (pc'[r] = "stop" => DOMAIN todo'[r] = {})
      BY <1>0, <3>1
    <3>4. Place(r)'
      BY <3>3 DEF Place
    <3>5. QED
      BY <1>0, <3>2, <3>4, PlaceOne
  <2>5. ASSUME SaveFails(r) PROVE PlaceInv'
    <3>1. /\ pc' = [pc EXCEPT ![r] = "idle"] /\ todo' = [todo EXCEPT ![r] = <<>>]
          /\ key' = [key EXCEPT ![r] = NoKey]
      BY <2>5 DEF SaveFails, Leaves, Goes
    <3>2. \A q \in Requests \ {r} : pc'[q] = pc[q] /\ todo'[q] = todo[q] /\ key'[q] = key[q]
      BY <1>0, <3>1
    <3>3. pc'[r] # "assign" /\ DOMAIN todo'[r] = {}
      BY <1>0, <3>1, NothingLeft
    <3>4. Place(r)'
      BY <3>3 DEF Place
    <3>5. QED
      BY <1>0, <3>2, <3>4, PlaceOne
  <2>6. PlaceInv'
    BY <1>2, <2>2, <2>3, <2>4, <2>5 DEF Saves
  <2>7. QED
    BY <1>0, <2>1, <2>6 DEF StopInv, FreshInv, cronVars
<1>3. ASSUME NEW r \in Requests, StopRunner(r) \/ Replace(r) PROVE PlaceInv' /\ StopInv' /\ FreshInv'
  <2>1. up /\ UNCHANGED <<up, entries, todo, key>>
    BY <1>0, <1>3 DEF StopRunner, Replace, StopInv, Active
  <2>2. PlaceInv'
    BY <1>0, <1>3 DEF StopRunner, Replace, Goes, PlaceInv
  <2>3. FreshInv'
    BY <1>0, <1>3 DEF StopRunner, Replace, FreshInv
  <2>4. QED
    BY <2>1, <2>2, <2>3 DEF StopInv
<1>4. ASSUME NEW r \in Requests, List(r) PROVE PlaceInv' /\ StopInv' /\ FreshInv'
  <2>1. up /\ UNCHANGED <<up, cronVars, key>> /\ pc[r] = "list" /\ pc' = [pc EXCEPT ![r] = "register"]
    BY <1>0, <1>4 DEF List, Goes, StopInv, Active
  <2>2. \A q \in Requests \ {r} : todo'[q] = todo[q]
    BY <1>0, <1>4 DEF List
  <2>3. QED
    BY <1>0, <2>1, <2>2 DEF PlaceInv, StopInv, FreshInv, cronVars
<1>5. ASSUME NEW r \in Requests, NEW i \in Items, Register(r, i)
      PROVE  PlaceInv' /\ StopInv' /\ FreshInv'
  <2>1. up /\ UNCHANGED <<up, created, running, pc, key>> /\ pc[r] = "register"
    BY <1>0, <1>5 DEF Register, StopInv, Active
  <2>2. /\ \A q \in Requests \ {r} : todo'[q] = todo[q]
        /\ \A n \in Runners \ {current} : entries'[n] = entries[n]
    BY <1>0, <1>5 DEF Register
  <2>3. QED
    BY <1>0, <2>1, <2>2 DEF PlaceInv, StopInv, FreshInv
<1>6. ASSUME NEW r \in Requests,
             ListFails(r) \/ StartRunner(r) \/ \E i \in Items : RegisterFails(r, i)
      PROVE  PlaceInv' /\ StopInv' /\ FreshInv'
  <2>1. up /\ UNCHANGED <<up, created, entries>> /\ Leaves(r)
    BY <1>0, <1>6 DEF ListFails, StartRunner, RegisterFails, StopInv, Active, cronVars
  <2>2. PlaceInv'
    BY <1>0, <2>1, NothingLeft DEF Leaves, Goes, PlaceInv
  <2>3. QED
    BY <1>0, <2>1, <2>2 DEF StopInv, FreshInv
<1>7. CASE Aside
  BY <1>0, <1>7, AsideStays DEF PlaceInv, StopInv, FreshInv, Active, cronVars, reqVars
<1>8. CASE AgentStops
  <2>1. PlaceInv' /\ StopInv'
    BY <1>8, NothingLeft DEF AgentStops, PlaceInv, StopInv, Active
  <2>2. FreshInv'
    BY <1>8 DEF AgentStops, FreshInv
  <2>3. QED
    BY <2>1, <2>2
<1>9. CASE AgentStarts
  <2>1. PlaceInv'
    BY <1>0, <1>9 DEF AgentStarts, PlaceInv, reqVars
  <2>2. FreshInv' /\ StopInv'
    BY <1>0, <1>9 DEF AgentStarts, FreshInv, StopInv
  <2>3. QED
    BY <2>1, <2>2
<1>10. QED
  BY <1>1, <1>2, <1>3, <1>4, <1>5, <1>6, <1>7, <1>8, <1>9 DEF Next, Reloads, Aside

(***************************************************************************)
(* Nothing is forgotten.                                                   *)
(***************************************************************************)

\* No request is writing an item: a list sees what is in memory.
LEMMA ListSees ==
    ASSUME Inv, NEW r \in Requests, List(r), \A q \in Requests : pc[q] # "assign"
    PROVE  todo'[r] = [i \in {j \in Items : memory[j] \notin {Gone, Off}} |-> memory[i]]
<1>1. \A i \in Items : Readable(i) = {memory[i]}
  BY DEF Readable
<1>2. PICK values \in [Items -> Values] :
         /\ \A i \in Items : values[i] \in Readable(i)
         /\ todo' = [todo EXCEPT ![r] = [i \in {j \in Items : values[j] \notin {Gone, Off}} |-> values[i]]]
  BY DEF List
<1>3. values = memory
  BY <1>1, <1>2 DEF Inv, TypeOK
<1>4. QED
  BY <1>2, <1>3 DEF Inv, TypeOK

LEMMA VersionsWanted == \A v \in Versions : v \notin {Gone, Off, Bad}
BY ValuesAssumption DEF Versions

LEMMA LatestStep == Inv /\ LatestInv /\ [Next]_vars => LatestInv'
<1> SUFFICES ASSUME Inv, LatestInv, [Next]_vars, up', ~ broken'
             PROVE  Serves(current)' \/ \E q \in Requests : WillList(q)' \/ Covers(q)'
  BY DEF LatestInv
<1>0. /\ TypeOK /\ CountInv /\ StopInv /\ todo \in [Requests -> Parts]
      /\ pc \in [Requests -> {"idle", "save", "assign", "stop", "await", "list", "register"}]
      /\ current \in Runners /\ entries \in [Runners -> SUBSET Entries]
      /\ memory \in [Items -> Values] /\ saved \in [Items -> Values]
  BY DEF Inv, TypeOK
<1>1. ASSUME NEW r \in Requests,
             \/ \E o \in {"create", "change"}, values \in Wishes : Begin(r, o, values)
             \/ Saves(r) \/ StopRunner(r) \/ Replace(r)
      PROVE  WillList(r)'
  BY <1>0, <1>1 DEF Begin, Saves, SaveTask, SaveKey, AssignKey, StopRunner, Replace, Goes, WillList
<1>2. ASSUME NEW r \in Requests, SaveFails(r) PROVE Serves(current)'
  <2>1. Serves(current)
    BY <1>2, Zenon DEF SaveFails
  <2>2. UNCHANGED <<storeVars, cronVars>>
    BY <1>2 DEF SaveFails
  <2>3. QED
    BY <2>1, <2>2 DEF Serves, storeVars, cronVars
<1>3. ASSUME NEW r \in Requests, List(r)
      PROVE  \E q \in Requests : WillList(q)' \/ Covers(q)'
  <2>1. pc[r] = "list" /\ pc' = [pc EXCEPT ![r] = "register"] /\ UNCHANGED memory
    BY <1>3 DEF List, Goes, storeVars
  <2>2. CASE \E q \in Requests : pc[q] = "assign"
    BY <1>0, <2>1, <2>2 DEF WillList
  <2>3. CASE \A q \in Requests : pc[q] # "assign"
    <3>1. todo'[r] = [i \in {j \in Items : memory[j] \notin {Gone, Off}} |-> memory[i]]
      BY <1>3, <2>3, ListSees
    <3>2. \A i \in Items : memory[i] \in Versions =>
              i \in DOMAIN todo'[r] /\ todo'[r][i] = memory[i]
      BY <3>1, VersionsWanted
    <3>3. Covers(r)'
      BY <1>0, <2>1, <3>2 DEF Covers
    <3>4. QED
      BY <3>3
  <2>4. QED
    BY <2>2, <2>3
<1>4. ASSUME NEW r \in Requests, ListFails(r) \/ \E i \in Items : RegisterFails(r, i) PROVE FALSE
  BY <1>4 DEF ListFails, RegisterFails
<1>5. ASSUME NEW r \in Requests, NEW i \in Items, Register(r, i)
      PROVE  Serves(current)' \/ \E q \in Requests : WillList(q)' \/ Covers(q)'
  <2>1. UNCHANGED <<memory, running, current, pc, up, broken>>
    BY <1>5 DEF Register, storeVars
  <2>2. entries' = [entries EXCEPT ![current] = @ \cup {[item |-> i, value |-> todo[r][i], by |-> r]}]
    BY <1>5 DEF Register
  <2>3. \A e \in entries[current] : e \in entries'[current]
    BY <1>0, <2>2
  <2>4. \E e \in entries'[current] : e.item = i /\ e.value = todo[r][i]
    <3> DEFINE new == [item |-> i, value |-> todo[r][i], by |-> r]
    <3>1. new \in entries'[current]
      BY <1>0, <2>2
    <3>2. new.item = i /\ new.value = todo[r][i]
      OBVIOUS
    <3>3. QED
      BY <3>1, <3>2
  <2>5. CASE Serves(current)
    BY <2>1, <2>3, <2>5 DEF Serves
  <2>6. CASE \E q \in Requests : WillList(q)
    BY <2>1, <2>6 DEF WillList
  <2>7. ASSUME NEW q \in Requests, Covers(q) PROVE Covers(q)'
    <3>1. \A j \in Items : Fired(j) => Fired(j)'
      BY <2>1, <2>3 DEF Fired
    <3>2. \A j \in DOMAIN todo[q] : (j \in DOMAIN todo'[q] /\ todo'[q][j] = todo[q][j]) \/ (q = r /\ j = i)
      <4>1. CASE q = r
        <5>1. todo'[q] = Without(todo[q], i)
          BY <1>0, <1>5, <4>1 DEF Register
        <5>2. todo[q] \in Parts
          BY <1>0
        <5>3. /\ DOMAIN todo'[q] = DOMAIN todo[q] \ {i}
              /\ \A j \in DOMAIN todo[q] \ {i} : todo'[q][j] = todo[q][j]
          <6> DEFINE rest == Without(todo[q], i)
          <6>1. /\ DOMAIN rest = DOMAIN todo[q] \ {i}
                /\ \A j \in DOMAIN todo[q] \ {i} : rest[j] = todo[q][j]
            BY ONLY <5>2, WithoutPart
          <6>2. todo'[q] = rest
            BY <5>1
          <6> HIDE DEF rest
          <6>3. QED
            BY <6>1, <6>2
        <5>4. QED
          BY <4>1, <5>3
      <4>2. CASE q # r
        BY <1>0, <1>5, <4>2 DEF Register
      <4>3. QED
        BY <4>1, <4>2
    <3>3. ASSUME NEW j \in Items, memory[j] \in Versions
          PROVE  Fired(j)' \/ (j \in DOMAIN todo'[q] /\ todo'[q][j] = memory[j])
      <4>1. CASE Fired(j)
        BY <3>1, <4>1
      <4>2. CASE j \in DOMAIN todo[q] /\ todo[q][j] = memory[j]
        BY <2>1, <2>4, <3>2, <4>2 DEF Fired
      <4>3. QED
        BY <2>7, <3>3, <4>1, <4>2 DEF Covers
    <3>4. QED
      BY <2>1, <2>7, <3>3 DEF Covers
  <2>8. QED
    BY <2>1, <2>5, <2>6, <2>7 DEF LatestInv
<1>6. ASSUME NEW r \in Requests, StartRunner(r)
      PROVE  Serves(current)' \/ \E q \in Requests : WillList(q)' \/ Covers(q)'
  <2>1. /\ UNCHANGED <<memory, entries, current, up, broken>>
        /\ running' = running \cup {current} /\ DOMAIN todo[r] = {} /\ pc[r] = "register"
        /\ \A q \in Requests \ {r} : pc'[q] = pc[q] /\ todo'[q] = todo[q]
    BY <1>0, <1>6 DEF StartRunner, Leaves, Goes, storeVars
  <2>2. CASE Serves(current)
    BY <2>1, <2>2 DEF Serves
  <2>3. ASSUME NEW q \in Requests, WillList(q) PROVE WillList(q)'
    BY <2>1, <2>3 DEF WillList
  <2>4. ASSUME NEW q \in Requests, Covers(q), q # r PROVE Covers(q)'
    BY <2>1, <2>4 DEF Covers, Fired
  <2>5. ASSUME Covers(r) PROVE Serves(current)'
    BY <2>1, <2>5 DEF Covers, Fired, Serves
  <2>6. QED
    BY <2>1, <2>2, <2>3, <2>4, <2>5 DEF LatestInv
<1>7. CASE Aside
  <2>1. UNCHANGED <<memory, current, running, entries, pc, todo, up, broken>>
    BY <1>7, AsideStays DEF storeVars, cronVars, reqVars
  <2>2. Serves(current) \/ \E q \in Requests : WillList(q) \/ Covers(q)
    BY <2>1 DEF LatestInv
  <2>3. Serves(current) => Serves(current)'
    BY <2>1 DEF Serves
  <2>4. \A q \in Requests : (WillList(q) => WillList(q)') /\ (Covers(q) => Covers(q)')
    BY <2>1 DEF WillList, Covers, Fired
  <2>5. QED
    BY <2>2, <2>3, <2>4
<1>8. ASSUME AgentStops PROVE FALSE
  BY <1>8 DEF AgentStops
<1>9. CASE AgentStarts
  <2>1. /\ 0 \in Runners /\ memory' = saved /\ current' = 0 /\ running' = {0}
        /\ entries' = [entries EXCEPT ![0] = Registered(saved, Nobody)]
    BY <1>9, Bounds DEF AgentStarts, Runners
  <2>2. entries'[0] = Registered(saved, Nobody)
    BY <1>0, <2>1
  <2>3. \A i \in Items : saved[i] \in Versions =>
            \E e \in Registered(saved, Nobody) : e.item = i /\ e.value = saved[i]
    BY <1>0, RegisteredEntries
  <2>4. QED
    BY <2>1, <2>2, <2>3 DEF Serves
<1>10. QED
  BY <1>1, <1>2, <1>3, <1>4, <1>5, <1>6, <1>7, <1>8, <1>9 DEF Next, Reloads, Aside

(***************************************************************************)
(* A request that is alone.                                                *)
(***************************************************************************)

LEMMA OnlyActive ==
    ASSUME StopInv, Alone, NEW r \in Requests, pc[r] # "idle"
    PROVE  Active = {r} /\ up /\ AloneAt(r) /\ running \subseteq {current}
<1>1. r \in Active
  BY DEF Active
<1>2. QED
  BY <1>1 DEF Alone, StopInv

\* It suffices to look at the one request that moves.
LEMMA AloneKept ==
    ASSUME NEW r \in Requests, Active \subseteq {r}, \A q \in Requests \ {r} : pc'[q] = pc[q],
           running' \subseteq {current'},
           IF pc'[r] = "idle" THEN AtRest' ELSE AloneAt(r)'
    PROVE  Alone'
<1>1. Active' = IF pc'[r] = "idle" THEN {} ELSE {r}
  BY DEF Active
<1>2. CASE pc'[r] = "idle"
  <2>1. AtRest' /\ Active' = {}
    BY <1>1, <1>2
  <2>2. QED
    BY <2>1 DEF Alone
<1>3. CASE pc'[r] # "idle"
  <2>1. AloneAt(r)' /\ Active' = {r}
    BY <1>1, <1>3
  <2>2. QED
    BY <2>1 DEF Alone
<1>4. QED
  BY <1>2, <1>3

LEMMA AloneStep == Inv /\ AloneInv /\ [Next]_vars => AloneInv'
<1> SUFFICES ASSUME Inv, AloneInv, [Next]_vars, ~ overlapped' PROVE Alone'
  BY DEF AloneInv
<1>0. /\ StopInv /\ FreshInv /\ CountInv /\ PlaceInv /\ todo \in [Requests -> Parts]
      /\ pc \in [Requests -> {"idle", "save", "assign", "stop", "await", "list", "register"}]
      /\ key \in [Requests -> Items \cup {NoKey}]
      /\ current \in Runners /\ created \in Nat /\ entries \in [Runners -> SUBSET Entries]
      /\ memory \in [Items -> Values] /\ saved \in [Items -> Values]
  BY Bounds DEF Inv, TypeOK, Runners
<1>1. ASSUME NEW r \in Requests, NEW o \in {"create", "change"}, NEW values \in Wishes,
             Begin(r, o, values)
      PROVE  Alone'
  <2>1. ~ overlapped /\ Active = {} /\ up
    BY <1>1 DEF Begin
  <2>2. /\ pc' = [pc EXCEPT ![r] = "save"]
        /\ UNCHANGED <<saved, memory, running, current>>
    BY <1>1 DEF Begin, Goes, storeVars, cronVars
  <2>3. saved = memory /\ running \subseteq {current}
    BY <2>1 DEF AloneInv, Alone, AtRest
  <2>4. pc'[r] = "save" /\ \A q \in Requests \ {r} : pc'[q] = pc[q]
    BY <1>0, <2>2
  <2>5. AloneAt(r)'
    BY <2>2, <2>3, <2>4 DEF AloneAt
  <2>6. QED
    BY <2>1, <2>2, <2>3, <2>4, <2>5, AloneKept
<1>2. ASSUME NEW r \in Requests, pc[r] # "idle", overlapped' = overlapped
      PROVE  /\ Active = {r} /\ up /\ AloneAt(r) /\ running \subseteq {current}
             /\ \A q \in Requests \ {r} : pc[q] = "idle"
  <2>1. Alone
    BY <1>2 DEF AloneInv
  <2>2. Active = {r} /\ up /\ AloneAt(r) /\ running \subseteq {current}
    BY <1>0, <1>2, <2>1, OnlyActive
  <2>3. QED
    BY <2>2 DEF Active
<1>3. ASSUME NEW r \in Requests, NEW i \in Items, SaveTask(r, i) PROVE Alone'
  <2>1. pc[r] = "save" /\ overlapped' = overlapped
    BY <1>3 DEF SaveTask
  <2>2. Active = {r} /\ running \subseteq {current}
    BY <1>2, <2>1
  <2>3. /\ pc' = [pc EXCEPT ![r] = "stop"] /\ memory' = saved' /\ UNCHANGED <<running, current>>
    BY <1>3 DEF SaveTask, Goes, cronVars
  <2>4. pc'[r] = "stop" /\ \A q \in Requests \ {r} : pc'[q] = pc[q]
    BY <1>0, <2>3
  <2>5. AloneAt(r)'
    BY <2>3, <2>4 DEF AloneAt
  <2>6. QED
    BY <2>2, <2>3, <2>4, <2>5, AloneKept
<1>4. ASSUME NEW r \in Requests, NEW i \in Items, SaveKey(r, i) PROVE Alone'
  <2>1. pc[r] = "save" /\ overlapped' = overlapped
    BY <1>4 DEF SaveKey
  <2>2. Active = {r} /\ running \subseteq {current} /\ saved = memory
    BY <1>2, <2>1 DEF AloneAt
  <2>3. /\ pc' = [pc EXCEPT ![r] = "assign"] /\ saved' = [saved EXCEPT ![i] = todo[r][i]]
        /\ key' = [key EXCEPT ![r] = i] /\ UNCHANGED <<memory, todo, running, current>>
    BY <1>4 DEF SaveKey, Goes, cronVars
  <2>4. /\ pc'[r] = "assign" /\ \A q \in Requests \ {r} : pc'[q] = pc[q]
        /\ key'[r] = i
    BY <1>0, <2>3
  <2>5. saved' = [memory' EXCEPT ![key'[r]] = todo'[r][key'[r]]]
    BY <2>2, <2>3, <2>4
  <2>6. AloneAt(r)'
    BY <2>4, <2>5 DEF AloneAt
  <2>7. QED
    BY <2>2, <2>3, <2>4, <2>6, AloneKept
<1>5. ASSUME NEW r \in Requests, AssignKey(r) PROVE Alone'
  <2>1. pc[r] = "assign" /\ overlapped' = overlapped
    BY <1>5 DEF AssignKey
  <2>2. /\ Active = {r} /\ running \subseteq {current}
        /\ saved = [memory EXCEPT ![key[r]] = todo[r][key[r]]]
    BY <1>2, <2>1 DEF AloneAt
  <2>3. PICK where \in {"stop", "save"} : pc' = [pc EXCEPT ![r] = where]
    BY <1>5 DEF AssignKey, Goes
  <2>4. /\ memory' = [memory EXCEPT ![key[r]] = todo[r][key[r]]]
        /\ UNCHANGED <<saved, running, current>>
    BY <1>5 DEF AssignKey, cronVars
  <2>5. pc'[r] = where /\ \A q \in Requests \ {r} : pc'[q] = pc[q]
    BY <1>0, <2>3
  <2>6. AloneAt(r)'
    BY <2>2, <2>4, <2>5 DEF AloneAt
  <2>7. QED
    BY <2>2, <2>4, <2>5, <2>6, AloneKept
<1>6. ASSUME NEW r \in Requests, SaveFails(r) PROVE Alone'
  <2>1. pc[r] = "save" /\ overlapped' = overlapped
    BY <1>6 DEF SaveFails
  <2>2. Active = {r} /\ running \subseteq {current} /\ saved = memory
    BY <1>2, <2>1 DEF AloneAt
  <2>3. /\ pc' = [pc EXCEPT ![r] = "idle"]
        /\ UNCHANGED <<saved, memory, entries, running, current>>
    BY <1>6 DEF SaveFails, Leaves, Goes, cronVars, storeVars
  <2>4. pc'[r] = "idle" /\ \A q \in Requests \ {r} : pc'[q] = pc[q]
    BY <1>0, <2>3
  <2>5. ~ broken' => NothingElse(current)
    BY <1>6, Zenon DEF SaveFails
  <2>6. AtRest'
    BY <2>2, <2>3, <2>5 DEF AtRest, NothingElse
  <2>7. QED
    BY <2>2, <2>3, <2>4, <2>6, AloneKept
<1>7. ASSUME NEW r \in Requests, StopRunner(r) PROVE Alone'
  <2>1. pc[r] = "stop" /\ overlapped' = overlapped
    BY <1>7 DEF StopRunner
  <2>2. Active = {r} /\ running \subseteq {current} /\ saved = memory
    BY <1>2, <2>1 DEF AloneAt
  <2>3. /\ pc' = [pc EXCEPT ![r] = "await"] /\ running' = running \ {current}
        /\ UNCHANGED <<saved, memory, current>>
    BY <1>7 DEF StopRunner, Goes, storeVars
  <2>4. pc'[r] = "await" /\ \A q \in Requests \ {r} : pc'[q] = pc[q]
    BY <1>0, <2>3
  <2>5. AloneAt(r)' /\ running' = {}
    BY <2>2, <2>3, <2>4 DEF AloneAt
  <2>6. QED
    BY <2>2, <2>4, <2>5, AloneKept
<1>8. ASSUME NEW r \in Requests, Replace(r) PROVE Alone'
  <2>1. pc[r] = "await" /\ overlapped' = overlapped
    BY <1>8 DEF Replace
  <2>2. Active = {r} /\ running = {} /\ saved = memory
    BY <1>2, <2>1 DEF AloneAt
  <2>3. /\ pc' = [pc EXCEPT ![r] = "list"] /\ current' = created + 1
        /\ UNCHANGED <<saved, memory, running, entries>>
    BY <1>8 DEF Replace, Goes, storeVars
  <2>4. pc'[r] = "list" /\ \A q \in Requests \ {r} : pc'[q] = pc[q]
    BY <1>0, <2>3
  <2>5. entries'[current'] = {}
    <3>1. created + 1 \in Runners
      BY <2>1, RunnerFits
    <3>2. entries[created + 1] = {}
      BY <1>0, <3>1 DEF FreshInv
    <3>3. QED
      BY <2>3, <3>2
  <2>6. AloneAt(r)'
    BY <2>2, <2>3, <2>4, <2>5 DEF AloneAt
  <2>7. QED
    BY <2>2, <2>3, <2>4, <2>6, AloneKept
<1>9. ASSUME NEW r \in Requests, List(r) PROVE Alone'
  <2>1. pc[r] = "list" /\ overlapped' = overlapped
    BY <1>9 DEF List
  <2>2. /\ Active = {r} /\ running = {} /\ saved = memory /\ entries[current] = {}
        /\ \A q \in Requests : pc[q] # "assign"
    BY <1>2, <2>1 DEF AloneAt
  <2>3. /\ pc' = [pc EXCEPT ![r] = "register"]
        /\ UNCHANGED <<saved, memory, running, entries, current>>
    BY <1>9 DEF List, Goes, storeVars, cronVars
  <2>4. pc'[r] = "register" /\ \A q \in Requests \ {r} : pc'[q] = pc[q]
    BY <1>0, <2>3
  <2>5. \A i \in DOMAIN todo'[r] : todo'[r][i] = memory[i]
    BY <1>9, <2>2, ListSees
  <2>6. entries'[current'] = {} /\ NothingElse(current)'
    BY <2>2, <2>3 DEF NothingElse
  <2>7. AloneAt(r)'
    BY <2>2, <2>3, <2>4, <2>5, <2>6 DEF AloneAt
  <2>8. QED
    BY <2>2, <2>3, <2>4, <2>7, AloneKept
<1>10. ASSUME NEW r \in Requests, ListFails(r) \/ \E i \in Items : RegisterFails(r, i) PROVE Alone'
  <2>1. pc[r] \in {"list", "register"} /\ overlapped' = overlapped /\ broken' = TRUE
    BY <1>10 DEF ListFails, RegisterFails
  <2>2. Active = {r} /\ running \subseteq {current} /\ saved = memory
    BY <1>2, <2>1 DEF AloneAt
  <2>3. pc' = [pc EXCEPT ![r] = "idle"] /\ UNCHANGED <<saved, memory, running, current>>
    BY <1>10 DEF ListFails, RegisterFails, Leaves, Goes, storeVars, cronVars
  <2>4. pc'[r] = "idle" /\ \A q \in Requests \ {r} : pc'[q] = pc[q]
    BY <1>0, <2>3
  <2>5. AtRest'
    BY <2>1, <2>2, <2>3 DEF AtRest
  <2>6. QED
    BY <2>2, <2>3, <2>4, <2>5, AloneKept
<1>11. ASSUME NEW r \in Requests, NEW i \in Items, Register(r, i) PROVE Alone'
  <2> DEFINE new == [item |-> i, value |-> todo[r][i], by |-> r]
             rest == Without(todo[r], i)
  <2>1. pc[r] = "register" /\ overlapped' = overlapped /\ i \in DOMAIN todo[r]
    BY <1>11 DEF Register
  <2>2. /\ Active = {r} /\ running = {} /\ saved = memory /\ NothingElse(current)
        /\ \A j \in DOMAIN todo[r] : todo[r][j] = memory[j]
        /\ \A e \in entries[current] : e.item \notin DOMAIN todo[r]
    BY <1>2, <2>1 DEF AloneAt
  <2>3. UNCHANGED <<saved, memory, running, current, pc>>
    BY <1>11 DEF Register, storeVars
  <2>4. entries'[current] = entries[current] \cup {new} /\ todo'[r] = rest
    BY <1>0, <1>11 DEF Register
  <2>5. DOMAIN rest = DOMAIN todo[r] \ {i} /\ \A j \in DOMAIN todo[r] \ {i} : rest[j] = todo[r][j]
    <3>1. todo[r] \in Parts
      BY <1>0
    <3>2. QED
      BY ONLY <3>1, WithoutPart
  <2>6. new.item = i /\ new.value = memory[i]
    BY <2>1, <2>2
  <2> HIDE DEF new, rest
  <2>7. \A e \in entries'[current] : e \in entries[current] \/ e = new
    BY <2>4
  <2>8. NothingElse(current)'
    <3>1. \A e \in entries'[current] : e.value = memory[e.item]
      BY <2>2, <2>6, <2>7 DEF NothingElse
    <3>2. \A e, f \in entries'[current] : e.item = f.item => e = f
      BY <2>1, <2>2, <2>6, <2>7 DEF NothingElse
    <3>3. QED
      BY <2>3, <3>1, <3>2 DEF NothingElse
  <2>9. /\ \A j \in DOMAIN todo'[r] : todo'[r][j] = memory[j]
        /\ \A e \in entries'[current] : e.item \notin DOMAIN todo'[r]
    BY <2>2, <2>4, <2>5, <2>6, <2>7
  <2>10. AloneAt(r)'
    BY <2>1, <2>2, <2>3, <2>8, <2>9 DEF AloneAt
  <2>11. QED
    BY <2>1, <2>2, <2>3, <2>10, AloneKept
<1>12. ASSUME NEW r \in Requests, StartRunner(r) PROVE Alone'
  <2>1. pc[r] = "register" /\ overlapped' = overlapped
    BY <1>12 DEF StartRunner
  <2>2. Active = {r} /\ running = {} /\ saved = memory /\ NothingElse(current)
    BY <1>2, <2>1 DEF AloneAt
  <2>3. /\ pc' = [pc EXCEPT ![r] = "idle"] /\ running' = running \cup {current}
        /\ UNCHANGED <<saved, memory, entries, current>>
    BY <1>12 DEF StartRunner, Leaves, Goes, storeVars
  <2>4. pc'[r] = "idle" /\ \A q \in Requests \ {r} : pc'[q] = pc[q]
    BY <1>0, <2>3
  <2>5. AtRest'
    BY <2>2, <2>3 DEF AtRest, NothingElse
  <2>6. QED
    BY <2>2, <2>3, <2>4, <2>5, AloneKept
<1>13. CASE Aside
  <2>1. UNCHANGED <<saved, memory, current, running, entries, pc, todo, key, up, broken, overlapped>>
    BY <1>13, AsideStays DEF storeVars, cronVars, reqVars
  <2>2. Alone
    BY <2>1 DEF AloneInv
  <2>3. Active' = Active
    BY <2>1 DEF Active
  <2>4. \A r \in Requests : AloneAt(r) => AloneAt(r)'
    BY <2>1 DEF AloneAt, NothingElse
  <2>5. AtRest => AtRest'
    BY <2>1 DEF AtRest, NothingElse
  <2>6. \A r \in Active : r \in Requests
    BY DEF Active
  <2>7. QED
    BY <2>1, <2>2, <2>3, <2>4, <2>5, <2>6 DEF Alone
<1>14. CASE AgentStops
  <2>1. Active' = {} /\ running' = {} /\ up' = FALSE
    BY <1>14 DEF AgentStops, Active
  <2>2. QED
    BY <2>1 DEF Alone
<1>15. CASE AgentStarts
  <2>1. /\ 0 \in Runners /\ memory' = saved /\ saved' = saved /\ current' = 0 /\ running' = {0}
        /\ entries' = [entries EXCEPT ![0] = Registered(saved, Nobody)] /\ pc' = pc
    BY <1>15, Bounds DEF AgentStarts, Runners, reqVars
  <2>2. entries'[current'] = Registered(saved, Nobody)
    BY <1>0, <2>1
  <2>3. NothingElse(current)'
    <3>1. Nobody \in {Nobody} \cup Requests
      OBVIOUS
    <3>2. /\ \A e \in Registered(saved, Nobody) : e.value = saved[e.item]
          /\ \A e, f \in Registered(saved, Nobody) : e.item = f.item => e = f
      BY <1>0, <3>1, RegisteredEntries
    <3>3. QED
      BY <2>1, <2>2, <3>2 DEF NothingElse
  <2>4. Active' = {}
    BY <1>0, <1>15, <2>1 DEF AgentStarts, StopInv, Active
  <2>5. QED
    BY <2>1, <2>3, <2>4 DEF Alone, AtRest
<1>16. QED
  BY <1>1, <1>3, <1>4, <1>5, <1>6, <1>7, <1>8, <1>9, <1>10, <1>11, <1>12, <1>13, <1>14, <1>15
     DEF Next, Saves, Reloads, Aside

(***************************************************************************)
(* The theorems.                                                           *)
(***************************************************************************)

LEMMA InitLatestAlone == Init => LatestInv /\ AloneInv
<1> SUFFICES ASSUME Init PROVE LatestInv /\ AloneInv
  OBVIOUS
<1>1. Inv
  BY InitInv
<1>2. /\ entries[current] = Registered(saved, Nobody) /\ memory = saved /\ running = {current}
      /\ saved \in [Items -> Values] /\ Nobody \in {Nobody} \cup Requests
  BY <1>1, Bounds DEF Init, Inv, TypeOK, Runners
<1>3. Serves(current) /\ NothingElse(current)
  BY <1>2, RegisteredEntries DEF Serves, NothingElse
<1>4. Active = {}
  BY DEF Init, Active
<1>5. QED
  BY <1>2, <1>3, <1>4 DEF LatestInv, AloneInv, Alone, AtRest

LEMMA HoldsAlways == Spec => []Holds
<1>1. Init => Holds
  BY InitInv, InitLatestAlone DEF Holds
<1>2. Holds /\ [Next]_vars => Holds'
  BY TypeStep, CountStep, PlacesStep, LatestStep, AloneStep DEF Holds, Inv
<1>3. QED
  BY <1>1, <1>2, PTL DEF Spec

\* The store, the runners and the requests keep their types; a reload never makes more
\* runners than there are requests (the snapraid and zfs-manager schedulers).
THEOREM CronTypes == Spec => []TypeOK
<1>1. Holds => TypeOK
  BY DEF Holds, Inv
<1>2. QED
  BY <1>1, HoldsAlways, PTL

\* Reschedule and Reload take no lock, and nevertheless the requests that interleave in them
\* leave a current runner that runs and fires the latest version of every wanted item,
\* unless the last reload failed.
THEOREM NothingEverForgotten == Spec => []NothingForgotten
<1>1. Holds => NothingForgotten
  <2> SUFFICES ASSUME Holds, up, Active = {}, ~ broken PROVE Serves(current)
    BY DEF NothingForgotten
  <2>1. \A r \in Requests : pc[r] = "idle"
    BY DEF Active
  <2>2. QED
    BY <2>1 DEF Holds, LatestInv, WillList, Covers
<1>2. QED
  BY <1>1, HoldsAlways, PTL

\* As long as no two requests meet, a reload leaves one runner, which at rest has nothing but
\* what is stored, each item once, and the memory agrees with the store.
THEOREM LatestOnly == Spec => []OnlyTheLatest
<1>1. Holds => OnlyTheLatest
  BY DEF Holds, AloneInv, Alone, AtRest, OnlyTheLatest
<1>2. QED
  BY <1>1, HoldsAlways, PTL

=============================================================================
