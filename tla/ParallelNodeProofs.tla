------------------------ MODULE ParallelNodeProofs -------------------------
(***************************************************************************)
(* What holds of ParallelNode for any number of pipelines and any          *)
(* priorities.  Inv adds to TasksMatchRequests where requests come from:   *)
(* one closure is posted for each call of enqueueTask, and what a closure  *)
(* has taken is no longer in the queue.                                    *)
(***************************************************************************)
EXTENDS ParallelNode, FiniteSetTheorems, TLAPS

Inside == {"work", "call", "plugin", "gate", "asleep", "notify"}
Takers == {i \in PoolTasks : At(i, "take")}

\* Closures that are posted and have not given their thread back.
Present == {i \in PoolTasks : task[i].pc \notin {"new", "gone"}}
\* Closures that may have counted themselves into the plugin.
Entered == {i \in PoolTasks :
              task[i].pc \in {"plugin", "gate", "asleep", "notify", "leaving", "gone"}}

Posting ==
  /\ posted = Cardinality(called)
  /\ \A i \in PoolTasks : At(i, "new") <=> i > posted
  /\ mRequestQueue \subseteq called
  /\ \A i \in Holding : task[i].p \in called \ mRequestQueue
  /\ \A p \in Pipelines \ called : notified[p] = 0

Counting ==
  /\ mNodeThreadNum = Cardinality(Present)
  /\ mInPluginThreadNum <= Cardinality(Entered)

Inv == TypeOK /\ Posting /\ Counting /\ TasksMatchRequests

-----------------------------------------------------------------------------
(* Finite sets *)

LEMMA SetsFinite ==
  ASSUME NEW S, S \subseteq PoolTasks \/ S \subseteq Pipelines
  PROVE  IsFiniteSet(S) /\ Cardinality(S) \in Nat
<1>1. IsFiniteSet(Pipelines) /\ Cardinality(Pipelines) \in Nat
  BY ParallelNodeAssumption, FS_CardinalityType
<1>2. IsFiniteSet(PoolTasks)
  BY <1>1, FS_Interval DEF PoolTasks
<1>3. IsFiniteSet(S)
  BY <1>1, <1>2, FS_Subset
<1> QED BY <1>3, FS_CardinalityType

LEMMA OneMore ==
  ASSUME NEW S, S \subseteq PoolTasks \/ S \subseteq Pipelines, NEW x, x \notin S
  PROVE  Cardinality(S \cup {x}) = Cardinality(S) + 1
BY SetsFinite, FS_AddElement

LEMMA OneLess ==
  ASSUME NEW S, S \subseteq PoolTasks \/ S \subseteq Pipelines, NEW x \in S
  PROVE  Cardinality(S \ {x}) = Cardinality(S) - 1 /\ Cardinality(S) >= 1
<1>1. IsFiniteSet(S) /\ Cardinality(S) \in Nat /\ Cardinality(S \ {x}) \in Nat
  BY SetsFinite
<1>2. Cardinality(S \ {x}) = Cardinality(S) - 1
  BY <1>1, FS_RemoveElement
<1> QED BY <1>1, <1>2

LEMMA NotMore ==
  ASSUME NEW S, NEW T, T \subseteq PoolTasks \/ T \subseteq Pipelines, S \subseteq T
  PROVE  Cardinality(S) <= Cardinality(T)
BY SetsFinite, FS_Subset

LEMMA NumberOfTasks ==
  /\ Cardinality(Pipelines) \in Nat /\ Cardinality(PoolTasks) = Cardinality(Pipelines)
  /\ \A n : n \in PoolTasks \cup {0} <=> n \in Nat /\ n <= Cardinality(Pipelines)
<1>1. Cardinality(Pipelines) \in Nat
  BY SetsFinite
<1> QED BY <1>1, FS_Interval DEF PoolTasks

\* The queue has a head: of the sets of requests before a given one, one is minimal.
LEMMA TopIsThere ==
  ASSUME NEW queue, queue \subseteq Pipelines, queue # {}
  PROVE  Top(queue) \in queue
<1> DEFINE Before(p) == {q \in queue : Priority[q] > Priority[p]}
           All == {Before(p) : p \in queue}
<1>1. IsFiniteSet(queue)
  BY SetsFinite
<1>2. All \subseteq FiniteSubsetsOf(queue) /\ All # {}
  <2>1. FiniteSubsetsOf(queue) = SUBSET queue
    BY <1>1, FS_FiniteSubsetsOfFinite
  <2>2. \A p \in queue : Before(p) \in SUBSET queue
    OBVIOUS
  <2> HIDE DEF Before
  <2> QED BY <2>1, <2>2
<1>3. \E x \in All : \A y \in All : <<y, x>> \notin StrictSubsetOrdering(queue)
  BY <1>2, FS_StrictSubsetOrderingWellFounded, WFMin
<1>4. PICK p \in queue : \A q \in queue : <<Before(q), Before(p)>> \notin StrictSubsetOrdering(queue)
  BY <1>3
<1>5. \A q \in queue : Priority[q] <= Priority[p]
  <2> SUFFICES ASSUME NEW q \in queue, ~(Priority[q] <= Priority[p]) PROVE FALSE
    OBVIOUS
  <2>1. \A r \in queue : Priority[r] \in Int
    BY ParallelNodeAssumption
  <2>2. Priority[q] > Priority[p]
    BY <2>1
  <2>3. Before(q) \subseteq Before(p) /\ q \in Before(p) /\ q \notin Before(q)
    BY <2>1, <2>2
  <2>4. Before(q) \in SUBSET queue /\ Before(p) \in SUBSET queue /\ Before(q) # Before(p)
    BY <2>3
  <2>5. <<Before(q), Before(p)>> \in StrictSubsetOrdering(queue)
    BY <2>3, <2>4 DEF StrictSubsetOrdering
  <2> QED BY <1>4, <2>5
<1> QED BY <1>5 DEF Top

-----------------------------------------------------------------------------
LEMMA InvInit == Init => Inv
<1> SUFFICES ASSUME Init PROVE Inv
  OBVIOUS
<1>1. TypeOK
  BY DEF Init, TypeOK
<1>2. \A i \in PoolTasks : task[i].pc = "new" /\ i > 0
  BY NumberOfTasks DEF Init, PoolTasks
<1>3. Holding = {} /\ Takers = {} /\ Present = {} /\ Entered = {} /\ Cardinality({}) = 0
  BY <1>2, FS_EmptySet DEF Holding, Takers, Present, Entered, At
<1>4. Posting
  BY <1>2, <1>3 DEF Init, Posting, At
<1>5. Counting
  BY <1>3 DEF Init, Counting
<1>6. TasksMatchRequests
  BY <1>3 DEF Init, TasksMatchRequests, Takers
<1> QED BY <1>1, <1>4, <1>5, <1>6 DEF Inv

-----------------------------------------------------------------------------
(* Steps *)

Closures == [pc : {"new", "take", "work", "call", "plugin", "gate", "asleep",
                   "notify", "leaving", "gone"},
             p : Pipelines \cup {NoPipeline}, ok : BOOLEAN]

\* Closure i becomes what r says.
Becomes(i, r) == r \in Closures /\ task' = [task EXCEPT ![i] = r]

LEMMA Became ==
  ASSUME TypeOK, NEW i \in PoolTasks, NEW r, Becomes(i, r)
  PROVE  /\ task' \in [PoolTasks -> Closures]
         /\ \A j \in PoolTasks : task'[j] = IF j = i THEN r ELSE task[j]
BY DEF TypeOK, Becomes, Closures

\* A step of a closure that holds a request goes on holding it.
Within(i) ==
  RequestFails(i) \/ TaskEffective(i) \/ CallPlugin(i) \/ PassInputOn(i) \/ PluginReturns(i)
    \/ PassGate(i) \/ SpuriousWakeup(i)

LEMMA WithinStep ==
  ASSUME TypeOK, NEW i \in PoolTasks, Within(i)
  PROVE  /\ task[i].pc \in Inside \ {"notify"}
         /\ \E r : Becomes(i, r) /\ r.pc \in Inside /\ r.p = task[i].p
                   /\ (task[i].pc \in {"plugin", "gate", "asleep"} => r.pc \in {"gate", "asleep", "notify"})
                   /\ (task[i].pc = "call" => r.pc \in {"plugin", "notify"})
         /\ UNCHANGED <<mRequestQueue, mNodeThreadNum, posted, pipeVars, mQuickFinishMux>>
<1> DEFINE R(l, b) == [pc |-> l, p |-> task[i].p, ok |-> b]
<1>1. task[i] \in Closures /\ task[i] = [pc |-> task[i].pc, p |-> task[i].p, ok |-> task[i].ok]
  BY DEF TypeOK, Closures
<1>2. ASSUME NEW l \in Inside, NEW b \in BOOLEAN
      PROVE  R(l, b) \in Closures /\ R(l, b).pc = l /\ R(l, b).p = task[i].p
  BY <1>1, <1>2 DEF Closures, Inside
<1>3. ASSUME NEW l \in Inside, task' = [task EXCEPT ![i].pc = l]
      PROVE  Becomes(i, R(l, task[i].ok))
  <2>1. [task[i] EXCEPT !.pc = l] = R(l, task[i].ok)
    BY <1>1
  <2>2. task' = [task EXCEPT ![i] = [task[i] EXCEPT !.pc = l]]
    BY <1>3
  <2>3. R(l, task[i].ok) \in Closures
    BY <1>1, <1>2 DEF Closures
  <2> QED BY <2>1, <2>2, <2>3 DEF Becomes
<1>4. ASSUME NEW l \in Inside, NEW b \in BOOLEAN, task' = [task EXCEPT ![i].pc = l, ![i].ok = b]
      PROVE  Becomes(i, R(l, b))
  <2> DEFINE first == [task EXCEPT ![i].pc = l]
  <2>1. first = [task EXCEPT ![i] = R(l, task[i].ok)]
    <3>1. [task[i] EXCEPT !.pc = l] = R(l, task[i].ok)
      BY <1>1
    <3> QED BY <3>1
  <2>2. task' = [first EXCEPT ![i] = [first[i] EXCEPT !.ok = b]]
    BY <1>4
  <2>3. first[i] = R(l, task[i].ok)
    BY <2>1 DEF TypeOK
  <2>4. [first[i] EXCEPT !.ok = b] = R(l, b)
    BY <2>3
  <2>5. task' = [task EXCEPT ![i] = R(l, b)]
    <3> HIDE DEF first, R
    <3> QED BY <2>1, <2>2, <2>4
  <2> QED BY <1>2, <2>5 DEF Becomes
<1> HIDE DEF R
<1>5. task[i].ok \in BOOLEAN
  BY <1>1 DEF Closures
<1>6. UNCHANGED <<mRequestQueue, mNodeThreadNum, posted, pipeVars, mQuickFinishMux>>
  BY DEF Within, RequestFails, TaskEffective, CallPlugin, PassInputOn, PluginReturns, PassGate,
         SpuriousWakeup, gateVars
<1>7. CASE RequestFails(i)
  <2>1. task' = [task EXCEPT ![i].pc = "notify", ![i].ok = FALSE] /\ task[i].pc \in {"work", "call"}
    BY <1>7 DEF RequestFails, At
  <2> QED BY <1>2, <1>4, <1>6, <2>1 DEF Inside
<1>8. CASE TaskEffective(i)
  <2>1. task' = [task EXCEPT ![i].pc = "call"] /\ task[i].pc = "work"
    BY <1>8 DEF TaskEffective, At, Goto
  <2> QED BY <1>2, <1>3, <1>5, <1>6, <2>1 DEF Inside
<1>9. CASE CallPlugin(i)
  <2>1. task' = [task EXCEPT ![i].pc = "plugin"] /\ task[i].pc = "call"
    BY <1>9 DEF CallPlugin, At, Goto
  <2> QED BY <1>2, <1>3, <1>5, <1>6, <2>1 DEF Inside
<1>10. CASE PassInputOn(i)
  <2>1. task' = [task EXCEPT ![i].pc = "notify"] /\ task[i].pc = "work"
    BY <1>10 DEF PassInputOn, At, Goto
  <2> QED BY <1>2, <1>3, <1>5, <1>6, <2>1 DEF Inside
<1>11. CASE PluginReturns(i)
  <2>1. PICK b \in BOOLEAN : task' = [task EXCEPT ![i].pc = "gate", ![i].ok = b]
    BY <1>11 DEF PluginReturns
  <2>2. task[i].pc = "plugin"
    BY <1>11 DEF PluginReturns, At
  <2> QED BY <1>2, <1>4, <1>6, <2>1, <2>2 DEF Inside
<1>12. CASE PassGate(i)
  <2>1. PICK l \in {"notify", "asleep"} : task' = [task EXCEPT ![i].pc = l]
    BY <1>12 DEF PassGate, Goto
  <2>2. task[i].pc = "gate"
    BY <1>12 DEF PassGate, At
  <2> QED BY <1>2, <1>3, <1>5, <1>6, <2>1, <2>2 DEF Inside
<1>13. CASE SpuriousWakeup(i)
  <2>1. task' = [task EXCEPT ![i].pc = "gate"] /\ task[i].pc = "asleep"
    BY <1>13 DEF SpuriousWakeup, At, Goto
  <2> QED BY <1>2, <1>3, <1>5, <1>6, <2>1 DEF Inside
<1> QED BY <1>7, <1>8, <1>9, <1>10, <1>11, <1>12, <1>13 DEF Within

LEMMA InvWithin ==
  ASSUME Inv, NEW i \in PoolTasks, Within(i)
  PROVE  Inv'
<1>1. TypeOK /\ Posting /\ Counting /\ TasksMatchRequests /\ Within(i)
  BY DEF Inv
<1>2. /\ task[i].pc \in Inside \ {"notify"}
      /\ UNCHANGED <<mRequestQueue, mNodeThreadNum, posted, pipeVars, mQuickFinishMux>>
  BY <1>1, WithinStep
<1>3. PICK r : /\ Becomes(i, r) /\ r.pc \in Inside /\ r.p = task[i].p
               /\ (task[i].pc \in {"plugin", "gate", "asleep"} => r.pc \in {"gate", "asleep", "notify"})
               /\ (task[i].pc = "call" => r.pc \in {"plugin", "notify"})
  BY <1>1, WithinStep
<1>4. /\ task' \in [PoolTasks -> Closures]
      /\ \A j \in PoolTasks : task'[j] = IF j = i THEN r ELSE task[j]
  BY <1>1, <1>3, Became
<1>5. UNCHANGED <<kind, called, mFlushStatus, notified>>
  BY <1>2 DEF pipeVars
<1>6. Holding' = Holding /\ Takers' = Takers /\ Present' = Present
  BY <1>2, <1>3, <1>4 DEF Holding, Takers, Present, Inside, At
<1>7. \A j \in PoolTasks : task'[j].p = task[j].p /\ (At(j, "new")' <=> At(j, "new"))
  BY <1>2, <1>3, <1>4 DEF Inside, At
<1>8. mInPluginThreadNum' \in Nat /\ mInPluginThreadNum' <= Cardinality(Entered')
  <2>1. /\ Entered \subseteq PoolTasks /\ Entered' \subseteq PoolTasks
        /\ Cardinality(Entered) \in Nat /\ Cardinality(Entered') \in Nat
        /\ mInPluginThreadNum \in Nat
    BY <1>1, SetsFinite, NumberOfTasks DEF Entered, TypeOK
  <2>2. CASE CallPlugin(i)
    <3>1. task[i].pc = "call" /\ mInPluginThreadNum' = mInPluginThreadNum + 1 /\ r.pc = "plugin"
      <4>1. task' = [task EXCEPT ![i].pc = "plugin"] /\ task[i].pc = "call"
            /\ mInPluginThreadNum' = mInPluginThreadNum + 1
        BY <2>2 DEF CallPlugin, At, Goto, CountIn
      <4> QED BY <1>1, <1>4, <4>1 DEF TypeOK
    <3>2. Entered' = Entered \cup {i} /\ i \notin Entered
      BY <1>4, <3>1 DEF Entered
    <3> QED BY <1>1, <2>1, <3>1, <3>2, OneMore DEF Counting
  <2>3. CASE ~CallPlugin(i)
    <3>1. \/ mInPluginThreadNum' = mInPluginThreadNum
          \/ mInPluginThreadNum = 1 /\ mInPluginThreadNum' = 0
      <4>1. CASE PassGate(i)
        BY <4>1 DEF PassGate, EvaluateGate, Decremented
      <4>2. CASE ~PassGate(i)
        BY <1>1, <2>3, <4>2 DEF Within, RequestFails, TaskEffective, PassInputOn, PluginReturns,
                                SpuriousWakeup, gateVars
      <4> QED BY <4>1, <4>2
    <3>2. Entered \subseteq Entered'
      BY <1>2, <1>3, <1>4 DEF Entered, Inside
    <3>3. Cardinality(Entered) <= Cardinality(Entered')
      BY <2>1, <3>2, NotMore
    <3> QED BY <1>1, <2>1, <3>1, <3>3 DEF Counting
  <2> QED BY <2>2, <2>3
<1>9. mInPluginThreadNum' \in PoolTasks \cup {0}
  <2>1. Cardinality(Entered') <= Cardinality(PoolTasks)
    BY NotMore DEF Entered
  <2>2. Cardinality(Entered') \in Nat
    BY SetsFinite DEF Entered
  <2> QED BY <1>8, <2>1, <2>2, NumberOfTasks
<1>10. TypeOK'
  BY <1>1, <1>2, <1>4, <1>5, <1>9 DEF TypeOK, Closures
<1>11. Posting'
  BY <1>1, <1>2, <1>5, <1>6, <1>7 DEF Posting, Holding
<1>12. Counting'
  BY <1>1, <1>2, <1>6, <1>8 DEF Counting
<1>13. TasksMatchRequests'
  <2>1. Cardinality(Takers') = Cardinality(mRequestQueue')
    BY <1>1, <1>2, <1>6 DEF TasksMatchRequests, Takers
  <2>2. \A j, k \in Holding' : task'[j].p = task'[k].p => j = k
    BY <1>1, <1>6, <1>7 DEF TasksMatchRequests, Holding
  <2>3. \A p \in called' : notified'[p] =
          IF p \in mRequestQueue' \/ \E j \in Holding' : task'[j].p = p THEN 0 ELSE 1
    <3>1. \A p : (\E j \in Holding' : task'[j].p = p) <=> (\E j \in Holding : task[j].p = p)
      BY <1>6, <1>7 DEF Holding
    <3> QED BY <1>1, <1>2, <1>5, <3>1 DEF TasksMatchRequests
  <2> QED BY <2>1, <2>2, <2>3 DEF TasksMatchRequests, Takers
<1> QED BY <1>10, <1>11, <1>12, <1>13 DEF Inv

LEMMA InvEnqueue ==
  ASSUME Inv, NEW p \in Pipelines, enqueueTask(p)
  PROVE  Inv'
<1> DEFINE i == posted + 1
           r == [task[i] EXCEPT !.pc = "take"]
<1>1. TypeOK /\ Posting /\ Counting /\ TasksMatchRequests
  BY DEF Inv
<1>2. /\ p \notin called /\ called' = called \cup {p} /\ mRequestQueue' = mRequestQueue \cup {p}
      /\ mNodeThreadNum' = mNodeThreadNum + 1 /\ posted' = posted + 1
      /\ UNCHANGED <<kind, mFlushStatus, notified, gateVars>>
  BY DEF enqueueTask
<1>3. /\ called \subseteq Pipelines /\ mRequestQueue \subseteq called /\ p \notin mRequestQueue
      /\ posted = Cardinality(called)
  BY <1>1, <1>2 DEF TypeOK, Posting
<1>4. posted' = Cardinality(called') /\ posted' \in PoolTasks /\ i \in PoolTasks /\ posted \in Nat
  <2>1. Cardinality(called') = Cardinality(called) + 1 /\ Cardinality(called) \in Nat
    BY <1>2, <1>3, OneMore, SetsFinite
  <2>2. Cardinality(called') <= Cardinality(Pipelines)
    BY <1>2, <1>3, NotMore
  <2> QED BY <1>2, <1>3, <2>1, <2>2, NumberOfTasks DEF PoolTasks
<1>5. /\ task[i].pc = "new"
      /\ \A j \in PoolTasks : j > posted + 1 <=> j > posted /\ j # i
  BY <1>1, <1>4, NumberOfTasks DEF Posting, At, PoolTasks
<1>6. /\ task' \in [PoolTasks -> Closures] /\ task'[i].pc = "take"
      /\ \A j \in PoolTasks : j # i => task'[j] = task[j]
  <2>1. r \in Closures /\ r.pc = "take"
    BY <1>1, <1>4 DEF TypeOK, Closures
  <2>2. task' = [task EXCEPT ![i] = r]
    BY DEF enqueueTask
  <2>3. Becomes(i, r)
    BY <2>1, <2>2 DEF Becomes
  <2> HIDE DEF i, r
  <2> QED BY <1>1, <1>4, <2>1, <2>3, Became
<1> HIDE DEF i, r
<1>7. /\ Holding' = Holding /\ Entered' = Entered
      /\ Takers' = Takers \cup {i} /\ i \notin Takers
      /\ Present' = Present \cup {i} /\ i \notin Present
      /\ i \notin Holding
  BY <1>4, <1>5, <1>6 DEF Holding, Takers, Present, Entered, At
<1>8. \A j \in Holding : task'[j].p = task[j].p
  BY <1>6, <1>7 DEF Holding
<1>9. /\ Cardinality(Takers') = Cardinality(Takers) + 1
      /\ Cardinality(mRequestQueue') = Cardinality(mRequestQueue) + 1
      /\ Cardinality(Present') = Cardinality(Present) + 1
      /\ Cardinality(Present') \in Nat /\ Cardinality(Present') <= Cardinality(PoolTasks)
  <2>1. Takers \subseteq PoolTasks /\ Present \subseteq PoolTasks /\ Present' \subseteq PoolTasks
    BY DEF Takers, Present
  <2>2. mRequestQueue \subseteq Pipelines
    BY <1>3
  <2> QED BY <1>2, <1>3, <1>7, <2>1, <2>2, OneMore, SetsFinite, NotMore
<1>10. TypeOK'
  <2>1. mNodeThreadNum' = Cardinality(Present')
    BY <1>1, <1>2, <1>9 DEF Counting
  <2>2. mNodeThreadNum' \in PoolTasks \cup {0}
    BY <1>9, <2>1, NumberOfTasks
  <2> QED BY <1>1, <1>2, <1>3, <1>4, <1>6, <2>2 DEF TypeOK, Closures, gateVars
<1>11. Posting'
  <2>1. \A j \in PoolTasks : At(j, "new")' <=> j > posted'
    <3> SUFFICES ASSUME NEW j \in PoolTasks PROVE task'[j].pc = "new" <=> j > posted + 1
      BY <1>2 DEF At
    <3>1. task[j].pc = "new" <=> j > posted
      BY <1>1 DEF Posting, At
    <3> QED BY <1>5, <1>6, <3>1
  <2>2. \A j \in Holding' : task'[j].p \in called' \ mRequestQueue'
    <3> SUFFICES ASSUME NEW j \in Holding PROVE task[j].p \in called' \ mRequestQueue'
      BY <1>7, <1>8
    <3>1. task[j].p \in called \ mRequestQueue
      BY <1>1 DEF Posting
    <3> QED BY <1>2, <3>1
  <2>3. \A q \in Pipelines \ called' : notified'[q] = 0
    BY <1>1, <1>2 DEF Posting
  <2>4. mRequestQueue' \subseteq called'
    BY <1>2, <1>3
  <2> QED BY <1>4, <2>1, <2>2, <2>3, <2>4 DEF Posting
<1>12. Counting'
  BY <1>1, <1>2, <1>7, <1>9 DEF Counting, gateVars
<1>13. TasksMatchRequests'
  <2>1. Cardinality(Takers') = Cardinality(mRequestQueue')
    BY <1>1, <1>9 DEF TasksMatchRequests, Takers
  <2>2. \A j, k \in Holding' : task'[j].p = task'[k].p => j = k
    BY <1>1, <1>7, <1>8 DEF TasksMatchRequests
  <2>3. ASSUME NEW q \in called'
        PROVE  notified'[q] = IF q \in mRequestQueue' \/ \E j \in Holding' : task'[j].p = q THEN 0 ELSE 1
    <3>1. (\E j \in Holding' : task'[j].p = q) <=> (\E j \in Holding : task[j].p = q)
      BY <1>7, <1>8
    <3>2. CASE q = p
      BY <1>1, <1>2, <3>2 DEF Posting
    <3>3. CASE q # p
      BY <1>1, <1>2, <2>3, <3>1, <3>3 DEF TasksMatchRequests
    <3> QED BY <3>2, <3>3
  <2> QED BY <2>1, <2>2, <2>3 DEF TasksMatchRequests, Takers
<1> QED BY <1>10, <1>11, <1>12, <1>13 DEF Inv

LEMMA InvTake ==
  ASSUME Inv, NEW i \in PoolTasks, Take(i)
  PROVE  Inv'
<1> DEFINE p == Top(mRequestQueue)
           r == [task[i] EXCEPT !.pc = "work", !.p = p]
<1>1. TypeOK /\ Posting /\ Counting /\ TasksMatchRequests
  BY DEF Inv
<1>2. At(i, "take") /\ UNCHANGED <<mNodeThreadNum, posted, pipeVars, gateVars>>
  BY DEF Take
<1>3. mRequestQueue \subseteq Pipelines /\ mRequestQueue # {}
  <2>1. mRequestQueue \subseteq Pipelines /\ i \in Takers /\ Takers \subseteq PoolTasks
    BY <1>1, <1>2 DEF TypeOK, Takers
  <2>2. Cardinality(Takers) >= 1 /\ Cardinality(Takers) = Cardinality(mRequestQueue)
    BY <1>1, <2>1, OneLess DEF TasksMatchRequests, Takers
  <2> QED BY <2>1, <2>2, FS_EmptySet
<1>4. p \in mRequestQueue
  BY <1>3, TopIsThere
<1>5. task' = [task EXCEPT ![i].pc = "work", ![i].p = p] /\ mRequestQueue' = mRequestQueue \ {p}
  BY <1>3 DEF Take
<1> HIDE DEF p
<1>6. /\ task' \in [PoolTasks -> Closures] /\ task'[i].pc = "work" /\ task'[i].p = p
      /\ \A j \in PoolTasks : j # i => task'[j] = task[j]
  <2>1. task \in [PoolTasks -> Closures] /\ p \in Pipelines
    BY <1>1, <1>3, <1>4 DEF TypeOK, Closures
  <2> QED BY <1>5, <2>1 DEF Closures
<1> HIDE DEF r
<1>7. /\ Holding' = Holding \cup {i} /\ i \notin Holding
      /\ Takers' = Takers \ {i} /\ i \in Takers
      /\ Present' = Present /\ Entered' = Entered
  BY <1>2, <1>6 DEF Holding, Takers, Present, Entered, At
<1>8. \A j \in Holding : task'[j].p = task[j].p /\ task[j].p # p /\ task[j].p \in called \ mRequestQueue
  <2> SUFFICES ASSUME NEW j \in Holding
               PROVE  task'[j].p = task[j].p /\ task[j].p # p /\ task[j].p \in called \ mRequestQueue
    OBVIOUS
  <2>1. j \in PoolTasks /\ j # i
    BY <1>7 DEF Holding
  <2>2. task[j].p \in called \ mRequestQueue
    BY <1>1 DEF Posting
  <2> QED BY <1>4, <1>6, <2>1, <2>2
<1>9. UNCHANGED <<kind, called, mFlushStatus, notified, mInPluginThreadNum, mQuickFinishMux>>
  BY <1>2 DEF pipeVars, gateVars
<1>10. TypeOK'
  BY <1>1, <1>2, <1>3, <1>5, <1>6, <1>9 DEF TypeOK, Closures
<1>11. Posting'
  <2>1. \A j \in PoolTasks : At(j, "new")' <=> j > posted'
    <3> SUFFICES ASSUME NEW j \in PoolTasks PROVE task'[j].pc = "new" <=> j > posted
      BY <1>2 DEF At
    <3>1. task[j].pc = "new" <=> j > posted
      BY <1>1 DEF Posting, At
    <3> QED BY <1>2, <1>6, <3>1 DEF At
  <2>2. \A j \in Holding' : task'[j].p \in called' \ mRequestQueue'
    <3> SUFFICES ASSUME NEW j \in Holding' PROVE task'[j].p \in called \ (mRequestQueue \ {p})
      BY <1>5, <1>9
    <3>1. CASE j = i
      BY <1>1, <1>4, <1>6, <3>1 DEF Posting
    <3>2. CASE j # i
      BY <1>7, <1>8, <3>2
    <3> QED BY <3>1, <3>2
  <2> QED BY <1>1, <1>2, <1>5, <1>9, <2>1, <2>2 DEF Posting
<1>12. Counting'
  BY <1>1, <1>2, <1>7, <1>9 DEF Counting
<1>13. TasksMatchRequests'
  <2>1. Cardinality(Takers') = Cardinality(mRequestQueue')
    <3>1. Takers \subseteq PoolTasks
      BY DEF Takers
    <3>2. /\ Cardinality(Takers') = Cardinality(Takers) - 1
          /\ Cardinality(mRequestQueue') = Cardinality(mRequestQueue) - 1
      BY <1>3, <1>4, <1>5, <1>7, <3>1, OneLess
    <3> QED BY <1>1, <3>2 DEF TasksMatchRequests, Takers
  <2>2. \A j, k \in Holding' : task'[j].p = task'[k].p => j = k
    <3> SUFFICES ASSUME NEW j \in Holding', NEW k \in Holding', task'[j].p = task'[k].p
                 PROVE  j = k
      OBVIOUS
    <3>1. CASE j # i /\ k # i
      BY <1>1, <1>7, <1>8, <3>1 DEF TasksMatchRequests
    <3>2. CASE j = i /\ k # i
      BY <1>6, <1>7, <1>8, <3>2
    <3>3. CASE j # i /\ k = i
      BY <1>6, <1>7, <1>8, <3>3
    <3> QED BY <3>1, <3>2, <3>3
  <2>3. ASSUME NEW q \in called'
        PROVE  notified'[q] = IF q \in mRequestQueue' \/ \E j \in Holding' : task'[j].p = q THEN 0 ELSE 1
    <3>1. q \in called /\ notified'[q] = notified[q]
      BY <1>9, <2>3
    <3>2. (q \in mRequestQueue' \/ \E j \in Holding' : task'[j].p = q)
            <=> (q \in mRequestQueue \/ \E j \in Holding : task[j].p = q)
      <4>1. (\E j \in Holding' : task'[j].p = q) <=> (q = p \/ \E j \in Holding : task[j].p = q)
        BY <1>6, <1>7, <1>8
      <4> QED BY <1>4, <1>5, <4>1
    <3> QED BY <1>1, <3>1, <3>2 DEF TasksMatchRequests
  <2> QED BY <2>1, <2>2, <2>3 DEF TasksMatchRequests, Takers
<1> QED BY <1>10, <1>11, <1>12, <1>13 DEF Inv

\* Of what a closure that holds no request has in it, nothing counts but its place.
LEMMA InvNotify ==
  ASSUME Inv, NEW i \in PoolTasks, notifyNextNode(i)
  PROVE  Inv'
<1>1. TypeOK /\ Posting /\ Counting /\ TasksMatchRequests
  BY DEF Inv
<1>2. PICK p : p = task[i].p
  OBVIOUS
<1>3. /\ task[i].pc = "notify" /\ task' = [task EXCEPT ![i].pc = "leaving"]
      /\ notified' = [notified EXCEPT ![p] = @ + 1]
      /\ UNCHANGED <<mRequestQueue, mNodeThreadNum, posted, kind, called, mFlushStatus, gateVars>>
  BY <1>2 DEF notifyNextNode, At, Goto
<1>4. /\ task' \in [PoolTasks -> Closures] /\ task'[i].pc = "leaving"
      /\ \A j \in PoolTasks : j # i => task'[j] = task[j]
  <2>1. task \in [PoolTasks -> Closures]
    BY <1>1 DEF TypeOK, Closures
  <2> QED BY <1>3, <2>1 DEF Closures
<1>5. /\ Holding' = Holding \ {i} /\ i \in Holding
      /\ Takers' = Takers /\ Present' = Present /\ Entered' = Entered
  BY <1>3, <1>4 DEF Holding, Takers, Present, Entered, At
<1>6. p \in called /\ p \notin mRequestQueue /\ called \subseteq Pipelines
  BY <1>1, <1>2, <1>5 DEF Posting, TypeOK
<1>7. \A j \in Holding' : task'[j].p = task[j].p /\ task[j].p # p
  <2> SUFFICES ASSUME NEW j \in Holding' PROVE task'[j].p = task[j].p /\ task[j].p # p
    OBVIOUS
  <2>1. j \in Holding /\ j # i /\ j \in PoolTasks
    BY <1>5 DEF Holding
  <2> QED BY <1>1, <1>2, <1>4, <1>5, <2>1 DEF TasksMatchRequests
<1>8. notified[p] = 0
  BY <1>1, <1>2, <1>5, <1>6 DEF TasksMatchRequests
<1>9. notified' \in [Pipelines -> Nat] /\ \A q \in Pipelines : notified'[q] = IF q = p THEN 1 ELSE notified[q]
  BY <1>1, <1>3, <1>6, <1>8 DEF TypeOK
<1>10. TypeOK'
  BY <1>1, <1>3, <1>4, <1>9 DEF TypeOK, Closures, gateVars
<1>11. Posting'
  <2>1. \A j \in PoolTasks : At(j, "new")' <=> j > posted'
    <3> SUFFICES ASSUME NEW j \in PoolTasks PROVE task'[j].pc = "new" <=> j > posted
      BY <1>3 DEF At
    <3>1. task[j].pc = "new" <=> j > posted
      BY <1>1 DEF Posting, At
    <3> QED BY <1>3, <1>4, <3>1
  <2>2. \A j \in Holding' : task'[j].p \in called' \ mRequestQueue'
    BY <1>1, <1>3, <1>5, <1>7 DEF Posting
  <2>3. \A q \in Pipelines \ called' : notified'[q] = 0
    BY <1>1, <1>3, <1>6, <1>9 DEF Posting
  <2> QED BY <1>1, <1>3, <2>1, <2>2, <2>3 DEF Posting
<1>12. Counting'
  BY <1>1, <1>3, <1>5 DEF Counting, gateVars
<1>13. TasksMatchRequests'
  <2>1. Cardinality(Takers') = Cardinality(mRequestQueue')
    BY <1>1, <1>3, <1>5 DEF TasksMatchRequests, Takers
  <2>2. \A j, k \in Holding' : task'[j].p = task'[k].p => j = k
    BY <1>1, <1>5, <1>7 DEF TasksMatchRequests
  <2>3. ASSUME NEW q \in called'
        PROVE  notified'[q] = IF q \in mRequestQueue' \/ \E j \in Holding' : task'[j].p = q THEN 0 ELSE 1
    <3>1. CASE q = p
      <4>1. q \notin mRequestQueue' /\ ~(\E j \in Holding' : task'[j].p = q)
        BY <1>3, <1>6, <1>7, <3>1
      <4> QED BY <1>6, <1>9, <3>1, <4>1
    <3>2. CASE q # p
      <4>1. (\E j \in Holding' : task'[j].p = q) <=> (\E j \in Holding : task[j].p = q)
        BY <1>2, <1>5, <1>7, <3>2
      <4> QED BY <1>1, <1>3, <1>6, <1>9, <2>3, <3>2, <4>1 DEF TasksMatchRequests
    <3> QED BY <3>1, <3>2
  <2> QED BY <2>1, <2>2, <2>3 DEF TasksMatchRequests, Takers
<1> QED BY <1>10, <1>11, <1>12, <1>13 DEF Inv

LEMMA InvGone ==
  ASSUME Inv, NEW i \in PoolTasks, ThreadGone(i)
  PROVE  Inv'
<1>1. TypeOK /\ Posting /\ Counting /\ TasksMatchRequests
  BY DEF Inv
<1>2. /\ task[i].pc = "leaving" /\ task' = [task EXCEPT ![i].pc = "gone"]
      /\ mNodeThreadNum' = mNodeThreadNum - 1
      /\ UNCHANGED <<mRequestQueue, posted, pipeVars, gateVars>>
  BY DEF ThreadGone, At, Goto
<1>3. /\ task' \in [PoolTasks -> Closures] /\ task'[i].pc = "gone"
      /\ \A j \in PoolTasks : j # i => task'[j] = task[j]
  <2>1. task \in [PoolTasks -> Closures]
    BY <1>1 DEF TypeOK, Closures
  <2> QED BY <1>2, <2>1 DEF Closures
<1>4. /\ Holding' = Holding /\ i \notin Holding /\ Takers' = Takers /\ Entered' = Entered
      /\ Present' = Present \ {i} /\ i \in Present
  BY <1>2, <1>3 DEF Holding, Takers, Present, Entered, At
<1>5. \A j \in Holding : task'[j] = task[j]
  BY <1>3, <1>4 DEF Holding
<1>6. /\ Cardinality(Present') = Cardinality(Present) - 1 /\ Cardinality(Present') \in Nat
      /\ Cardinality(Present') <= Cardinality(PoolTasks)
  BY <1>4, OneLess, SetsFinite, NotMore DEF Present
<1>7. TypeOK'
  <2>1. mNodeThreadNum' = Cardinality(Present')
    BY <1>1, <1>2, <1>6 DEF Counting
  <2>2. mNodeThreadNum' \in PoolTasks \cup {0}
    BY <1>6, <2>1, NumberOfTasks
  <2> QED BY <1>1, <1>2, <1>3, <2>2 DEF TypeOK, Closures, pipeVars, gateVars
<1>8. Posting'
  <2>1. \A j \in PoolTasks : At(j, "new")' <=> j > posted'
    <3> SUFFICES ASSUME NEW j \in PoolTasks PROVE task'[j].pc = "new" <=> j > posted
      BY <1>2 DEF At
    <3>1. task[j].pc = "new" <=> j > posted
      BY <1>1 DEF Posting, At
    <3> QED BY <1>2, <1>3, <3>1
  <2>2. \A j \in Holding' : task'[j].p \in called' \ mRequestQueue'
    BY <1>1, <1>2, <1>4, <1>5 DEF Posting, pipeVars
  <2> QED BY <1>1, <1>2, <2>1, <2>2 DEF Posting, pipeVars
<1>9. Counting'
  BY <1>1, <1>2, <1>4, <1>6 DEF Counting, gateVars
<1>10. TasksMatchRequests'
  <2>1. Cardinality(Takers') = Cardinality(mRequestQueue')
    BY <1>1, <1>2, <1>4 DEF TasksMatchRequests, Takers
  <2>2. \A j, k \in Holding' : task'[j].p = task'[k].p => j = k
    BY <1>1, <1>4, <1>5 DEF TasksMatchRequests
  <2>3. \A q \in called' :
          notified'[q] = IF q \in mRequestQueue' \/ \E j \in Holding' : task'[j].p = q THEN 0 ELSE 1
    <3>1. \A q : (\E j \in Holding' : task'[j].p = q) <=> (\E j \in Holding : task[j].p = q)
      BY <1>4, <1>5
    <3> QED BY <1>1, <1>2, <3>1 DEF TasksMatchRequests, pipeVars
  <2> QED BY <2>1, <2>2, <2>3 DEF TasksMatchRequests, Takers
<1> QED BY <1>7, <1>8, <1>9, <1>10 DEF Inv

\* Nothing that Inv speaks of changes.
LEMMA InvQuiet ==
  ASSUME Inv, UNCHANGED <<mRequestQueue, mNodeThreadNum, posted, task, kind, called, notified, gateVars>>,
         mFlushStatus' \in [Pipelines -> {"NoFlush", "ForcedFlush"}]
  PROVE  Inv'
<1>1. TypeOK'
  BY DEF Inv, TypeOK, gateVars
<1>2. Holding' = Holding /\ Present' = Present /\ Entered' = Entered
  BY DEF Holding, Present, Entered
<1>3. Posting' /\ Counting'
  BY <1>2 DEF Inv, Posting, Counting, At, gateVars
<1>4. TasksMatchRequests'
  BY <1>2 DEF Inv, TasksMatchRequests, At
<1> QED BY <1>1, <1>3, <1>4 DEF Inv

LEMMA InvNext == Inv /\ [Next]_vars => Inv'
<1> SUFFICES ASSUME Inv, [Next]_vars PROVE Inv'
  OBVIOUS
<1>1. ASSUME NEW p \in Pipelines, ForceFlush(p) PROVE Inv'
  <2>1. mFlushStatus' \in [Pipelines -> {"NoFlush", "ForcedFlush"}]
    BY <1>1 DEF ForceFlush, Inv, TypeOK
  <2> QED BY <1>1, <2>1, InvQuiet DEF ForceFlush
<1>2. CASE UNCHANGED vars
  <2>1. mFlushStatus' \in [Pipelines -> {"NoFlush", "ForcedFlush"}]
    BY <1>2 DEF vars, pipeVars, Inv, TypeOK
  <2> QED BY <1>2, <2>1, InvQuiet DEF vars, pipeVars
<1> QED BY <1>1, <1>2, InvEnqueue, InvTake, InvWithin, InvNotify, InvGone
        DEF Next, processTask, Within

LEMMA InvAlways == Spec => []Inv
BY InvInit, InvNext, PTL DEF Spec, Safe

\* Every reachable state of the node is well typed; mNodeThreadNum and the count of
\* the gate stay in their range.
THEOREM TypeCorrect == Spec => []TypeOK
<1>1. Inv => TypeOK
  BY DEF Inv
<1> QED BY <1>1, InvAlways, PTL

\* Although a closure takes whatever request is at the head, closures and requests
\* come out even, and a request leaves the node exactly once.
THEOREM RequestsLeaveOnce == Spec => []TasksMatchRequests
<1>1. Inv => TasksMatchRequests
  BY DEF Inv
<1> QED BY <1>1, InvAlways, PTL
=============================================================================
