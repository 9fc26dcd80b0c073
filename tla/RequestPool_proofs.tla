-------------------------- MODULE RequestPool_proofs --------------------------
(***************************************************************************)
(* Theorems about the request pool, for every number of threads, tables,   *)
(* views and row groups and every assignment of queries to threads.        *)
(***************************************************************************)
EXTENDS RequestPool, FiniteSetTheorems, TLAPS

USE PoolAssumption

\* A thread that was given a view was given one that exists.
GivenViewExists ==
  \A t \in Threads : pc[t] \in {"fill"} \cup Using => id[t] \in Ids

TypeInv == PoolTypeOK /\ GivenViewExists

LEMMA NoRequestType == NoRequest \in Request
  BY DEF NoRequest, Request

LEMMA ViewType ==
  ASSUME TypeInv, NEW t \in Threads
  PROVE  /\ id[t] \in Ids => View(t) \in Views
         /\ pc[t] \in {"fill"} \cup Using => View(t) \in Views
  BY DEF TypeInv, PoolTypeOK, GivenViewExists, View, Views, Request

LEMMA PlannedType ==
  ASSUME PoolTypeOK, NEW t \in Threads, View(t) \in Views
  PROVE  Planned(t) \subseteq Nat
  BY DEF PoolTypeOK, Planned

LEMMA LeaveType ==
  ASSUME TypeInv, NEW t \in Threads, NEW outcome \in Resting, NEW groups \in SUBSET Nat,
         Leave(t, outcome, groups)
  PROVE  /\ pc' \in [Threads -> Phase]
         /\ req' \in [Threads -> Request]
         /\ id' \in [Threads -> 0 .. MaxViews]
         /\ unset' \in [Threads -> SUBSET Field]
         /\ lo' \in [Threads -> Nat]
         /\ hi' \in [Threads -> Nat]
         /\ scanned' \in [Threads -> SUBSET Nat]
         /\ GivenViewExists'
  BY DEF Leave, TypeInv, PoolTypeOK, GivenViewExists, Phase, Resting, Using

LEMMA TypeInvStep == TypeInv /\ [PoolNext]_poolVars => TypeInv'
<1> SUFFICES ASSUME TypeInv, [PoolNext]_poolVars PROVE TypeInv'
  OBVIOUS
<1> USE DEF TypeInv, PoolTypeOK, Phase, Using
<1>1. ASSUME NEW t \in Threads, NEW r \in Requests[t], Ask(t, r) PROVE TypeInv'
  <2>1. r \in Request
    OBVIOUS
  <2>2. QED
    BY <1>1, <2>1 DEF Ask, record, GivenViewExists, Resting
<1>2. ASSUME NEW t \in Threads, FindFree(t) PROVE TypeInv'
  BY <1>2 DEF FindFree, record, GivenViewExists, Resting
<1>3. ASSUME NEW t \in Threads, FindBusy(t) PROVE TypeInv'
  BY <1>3 DEF FindBusy, record, GivenViewExists, Ids
<1>4. ASSUME NEW t \in Threads, Exhausted(t) PROVE TypeInv'
  BY <1>4, LeaveType DEF Exhausted, record, Resting
<1>5. ASSUME NEW t \in Threads, NEW f \in Field, Fill(t, f) PROVE TypeInv'
  <2>1. req[t].offset \in Nat /\ req[t].count \in Nat
    BY DEF Request
  <2>2. offset' \in [Views -> Nat] /\ count' \in [Views -> Nat] /\ freed' \in [Views -> BOOLEAN]
    BY <1>5, <2>1 DEF Fill
  <2>3. QED
    BY <1>5, <2>2 DEF Fill, GivenViewExists
<1>6. ASSUME NEW t \in Threads, ReadStart(t) PROVE TypeInv'
  BY <1>6, ViewType DEF ReadStart, record, GivenViewExists
<1>7. ASSUME NEW t \in Threads, ReadBound(t) PROVE TypeInv'
  BY <1>7, ViewType DEF ReadBound, record, GivenViewExists
<1>8. ASSUME NEW t \in Threads, ReadLength(t) PROVE TypeInv'
  <2>1. Planned(t) \subseteq Nat
    BY <1>8, ViewType, PlannedType DEF ReadLength
  <2>2. QED
    BY <1>8, <2>1 DEF ReadLength, record, GivenViewExists
<1>9. ASSUME NEW t \in Threads, OutOfRange(t) PROVE TypeInv'
  BY <1>9, LeaveType, ViewType DEF OutOfRange, record, Resting
<1>10. ASSUME NEW t \in Threads, Raise(t) PROVE TypeInv'
  BY <1>10, LeaveType, ViewType DEF Raise, record, Resting
<1>11. ASSUME NEW t \in Threads, FreeRequest(t) PROVE TypeInv'
  <2>1. freed' \in [Views -> BOOLEAN]
    BY <1>11 DEF FreeRequest
  <2>2. PICK outcome \in Resting, groups \in SUBSET Nat : Leave(t, outcome, groups)
    BY <1>11 DEF FreeRequest, Resting
  <2>3. QED
    BY <1>11, <2>1, <2>2, LeaveType DEF FreeRequest
<1>12. CASE UNCHANGED poolVars
  BY <1>12 DEF poolVars, record, progress, GivenViewExists
<1>13. QED
  BY <1>1, <1>2, <1>3, <1>4, <1>5, <1>6, <1>7, <1>8, <1>9, <1>10, <1>11, <1>12
  DEF PoolNext, Exec

\* Every variable of the pool keeps its type, and a view is only given out if
\* the table has it.
THEOREM PoolTypeCorrect == PoolSpec => [](PoolTypeOK /\ GivenViewExists)
<1>1. PoolInit => TypeInv
  BY NoRequestType DEF PoolInit, TypeInv, PoolTypeOK, GivenViewExists, Phase, Resting, Using
<1>2. QED
  BY <1>1, TypeInvStep, PTL DEF PoolSpec, TypeInv

-----------------------------------------------------------------------------
(***************************************************************************)
(* Slots are held or leaked.                                               *)
(***************************************************************************)
LEMMA HeldOrLeakedStep ==
  TypeInv /\ HeldOrLeaked /\ [PoolNext]_poolVars => HeldOrLeaked'
<1> SUFFICES ASSUME TypeInv, HeldOrLeaked, [PoolNext]_poolVars,
                    NEW v \in Views, ~ freed'[v], v \notin leaked'
             PROVE  \E t \in Threads : Holds(t, v)'
  BY DEF HeldOrLeaked
<1> USE DEF TypeInv, PoolTypeOK
\* A record that was in use before the step, and a thread that held it.
<1> DEFINE Before == ~ freed[v] /\ v \notin leaked
<1>1. Before => \E h \in Threads : Holds(h, v)
  BY DEF HeldOrLeaked
<1>2. ASSUME NEW t \in Threads, NEW r \in Requests[t], Ask(t, r)
      PROVE  \E h \in Threads : Holds(h, v)'
  BY <1>1, <1>2 DEF Ask, record, Holds, View, Resting, Using
<1>3. ASSUME NEW t \in Threads, FindFree(t)
      PROVE  \E h \in Threads : Holds(h, v)'
  BY <1>1, <1>3 DEF FindFree, record, Holds, View, Using
<1>4. ASSUME NEW t \in Threads, FindBusy(t)
      PROVE  \E h \in Threads : Holds(h, v)'
  BY <1>1, <1>4 DEF FindBusy, record, Holds, View, Using
<1>5. ASSUME NEW t \in Threads, Exhausted(t)
      PROVE  \E h \in Threads : Holds(h, v)'
  BY <1>1, <1>5 DEF Exhausted, Leave, record, Holds, View, Using
<1>6. ASSUME NEW t \in Threads, NEW f \in Field, Fill(t, f)
      PROVE  \E h \in Threads : Holds(h, v)'
  <2>1. \A h \in Threads : Holds(h, v) => Holds(h, v)'
    BY <1>6 DEF Fill, Holds, View, Using
  <2>2. v = View(t) => Holds(t, v)'
    BY <1>6 DEF Fill, Holds, View, Using
  <2>3. v # View(t) => Before
    BY <1>6 DEF Fill
  <2>4. QED
    BY <1>1, <2>1, <2>2, <2>3
<1>7. ASSUME NEW t \in Threads, ReadStart(t) \/ ReadBound(t) \/ ReadLength(t)
      PROVE  \E h \in Threads : Holds(h, v)'
  BY <1>1, <1>7 DEF ReadStart, ReadBound, ReadLength, record, Holds, View, Using
<1>8. ASSUME NEW t \in Threads, OutOfRange(t) \/ Raise(t)
      PROVE  \E h \in Threads : Holds(h, v)'
  <2>1. v # View(t) /\ Before
    BY <1>8 DEF OutOfRange, Raise, record
  <2>2. \A h \in Threads : Holds(h, v) => Holds(h, v)'
    BY <1>8, <2>1 DEF OutOfRange, Raise, Leave, Holds, View, Using
  <2>3. QED
    BY <1>1, <2>1, <2>2
<1>9. ASSUME NEW t \in Threads, FreeRequest(t)
      PROVE  \E h \in Threads : Holds(h, v)'
  <2>1. v # View(t) /\ Before
    BY <1>9 DEF FreeRequest
  <2>2. \A h \in Threads : Holds(h, v) => Holds(h, v)'
    BY <1>9, <2>1 DEF FreeRequest, Leave, Holds, View, Using
  <2>3. QED
    BY <1>1, <2>1, <2>2
<1>10. CASE UNCHANGED poolVars
  BY <1>1, <1>10 DEF poolVars, record, progress, Holds, View
<1>11. QED
  BY <1>2, <1>3, <1>4, <1>5, <1>6, <1>7, <1>8, <1>9, <1>10 DEF PoolNext, Exec

\* A record is marked in use only while a thread executes a query on its view,
\* or after a query on it raised, although no step of fill and free is atomic.
THEOREM SlotsAreHeldOrLeaked == PoolSpec => []HeldOrLeaked
<1>1. PoolInit => HeldOrLeaked
  BY DEF PoolInit, HeldOrLeaked
<1>2. QED
  BY <1>1, HeldOrLeakedStep, PoolTypeCorrect, PTL DEF PoolSpec, TypeInv

-----------------------------------------------------------------------------
(***************************************************************************)
(* As many views as clients are enough.  The search is not atomic, so a    *)
(* thread could find every record in use although they never are all in    *)
(* use at once.  It cannot, because a thread passes record i only while    *)
(* another one sits there: at most N - i of the N threads are at record i  *)
(* or beyond.                                                              *)
(***************************************************************************)
Beyond(i) == {t \in Threads : id[t] >= i}

FewBeyond ==
  \A i \in 0 .. MaxViews :
    i <= Cardinality(Threads) => Cardinality(Beyond(i)) <= Cardinality(Threads) - i

EnoughInv == leaked = {} => FewBeyond /\ EnoughViews

LEMMA BeyondFinite ==
  ASSUME IsFiniteSet(Threads), NEW i \in Nat
  PROVE  IsFiniteSet(Beyond(i)) /\ Cardinality(Beyond(i)) \in Nat
  BY FS_Subset, FS_CardinalityType DEF Beyond

\* A step that moves no thread to a later record keeps the counts small.
LEMMA FewBeyondShrinks ==
  ASSUME IsFiniteSet(Threads), FewBeyond, id' \in [Threads -> Nat], id \in [Threads -> Nat],
         \A t \in Threads : id'[t] <= id[t]
  PROVE  FewBeyond'
<1> SUFFICES ASSUME NEW i \in 0 .. MaxViews, i <= Cardinality(Threads)
             PROVE  Cardinality(Beyond(i)') <= Cardinality(Threads) - i
  BY DEF FewBeyond
<1>1. Beyond(i)' \subseteq Beyond(i)
  BY DEF Beyond
<1>2. IsFiniteSet(Beyond(i)) /\ Cardinality(Beyond(i)) \in Nat
  BY BeyondFinite
<1>3. IsFiniteSet(Beyond(i)') /\ Cardinality(Beyond(i)') <= Cardinality(Beyond(i))
  BY <1>1, <1>2, FS_Subset
<1>4. Cardinality(Beyond(i)') \in Nat
  BY <1>3, FS_CardinalityType
<1>5. Cardinality(Beyond(i)) <= Cardinality(Threads) - i
  BY DEF FewBeyond
<1>6. Cardinality(Threads) \in Nat
  BY FS_CardinalityType
<1>7. QED
  BY <1>2, <1>3, <1>4, <1>5, <1>6

LEMMA FewBeyondPasses ==
  ASSUME IsFiniteSet(Threads), TypeInv, HeldOrLeaked, leaked = {}, FewBeyond,
         NEW t \in Threads, FindBusy(t)
  PROVE  FewBeyond'
<1> SUFFICES ASSUME NEW i \in 0 .. MaxViews, i <= Cardinality(Threads)
             PROVE  Cardinality(Beyond(i)') <= Cardinality(Threads) - i
  BY DEF FewBeyond
<1> USE DEF TypeInv, PoolTypeOK
<1>1. id' = [id EXCEPT ![t] = @ + 1] /\ id[t] \in Ids
  BY DEF FindBusy
<1>2. CASE i # id[t] + 1
  <2>1. Beyond(i)' = Beyond(i)
    BY <1>1, <1>2 DEF Beyond
  <2>2. QED
    BY <2>1 DEF FewBeyond
<1>3. CASE i = id[t] + 1
  <2>1. PICK h \in Threads : h # t /\ id[h] = id[t]
    BY ViewType DEF FindBusy, HeldOrLeaked, Holds, View, Using
  <2>2. Beyond(i)' \subseteq Beyond(id[t]) \ {h} /\ h \in Beyond(id[t])
    BY <1>1, <1>3, <2>1 DEF Beyond
  <2> DEFINE S == Beyond(id[t])
  <2>3. IsFiniteSet(S) /\ Cardinality(S) \in Nat
    BY <1>1, BeyondFinite DEF Ids
  <2>4. IsFiniteSet(S \ {h}) /\ Cardinality(S \ {h}) = Cardinality(S) - 1
    BY <2>2, <2>3, FS_RemoveElement
  <2>5. Cardinality(Beyond(i)') <= Cardinality(Beyond(id[t])) - 1
    BY <2>2, <2>4, FS_Subset
  <2>6. Cardinality(Beyond(id[t])) <= Cardinality(Threads) - id[t]
    BY <1>1, <1>3, FS_CardinalityType DEF FewBeyond, Ids
  <2>7. Cardinality(Beyond(i)') \in Nat
    BY <2>2, <2>4, FS_Subset, FS_CardinalityType
  <2>8. id[t] \in Nat /\ Cardinality(Threads) \in Nat
    BY <1>1, FS_CardinalityType DEF Ids
  <2>9. \A a, b, c, n \in Nat : a <= b - 1 /\ b <= n - c => a <= n - (c + 1)
    OBVIOUS
  <2>10. Cardinality(Beyond(i)') <= Cardinality(Threads) - (id[t] + 1)
    BY <2>3, <2>5, <2>6, <2>7, <2>8, <2>9, Zenon
  <2> QED
    BY <1>3, <2>10
<1>4. QED
  BY <1>2, <1>3

LEMMA NoneBeyondAll ==
  ASSUME IsFiniteSet(Threads), TypeInv, FewBeyond, Cardinality(Threads) <= MaxViews,
         NEW t \in Threads
  PROVE  id[t] \in Ids
<1>1. Cardinality(Threads) \in Nat
  BY FS_CardinalityType
<1>2. Cardinality(Beyond(Cardinality(Threads))) = 0
  BY <1>1, BeyondFinite DEF FewBeyond
<1>3. Beyond(Cardinality(Threads)) = {}
  BY <1>1, <1>2, BeyondFinite, FS_EmptySet
<1>4. QED
  BY <1>1, <1>3 DEF Beyond, Ids, TypeInv, PoolTypeOK

LEMMA EnoughStep ==
  ASSUME IsFiniteSet(Threads), TypeInv, HeldOrLeaked, EnoughInv, [PoolNext]_poolVars
  PROVE  EnoughInv'
<1> SUFFICES ASSUME leaked' = {} PROVE FewBeyond' /\ EnoughViews'
  BY DEF EnoughInv
<1>1. leaked = {}
  BY DEF PoolNext, Exec, Ask, FindFree, FindBusy, Exhausted, Fill, ReadStart, ReadBound,
         ReadLength, OutOfRange, Raise, FreeRequest, poolVars
<1>2. FewBeyond /\ EnoughViews
  BY <1>1 DEF EnoughInv
<1>3. TypeInv'
  BY TypeInvStep
<1>4. id \in [Threads -> Nat] /\ id' \in [Threads -> Nat]
  BY <1>3 DEF TypeInv, PoolTypeOK
<1>5. CASE \E t \in Threads : FindBusy(t)
  BY <1>1, <1>2, <1>5, FewBeyondPasses DEF FindBusy, EnoughViews
<1>6. CASE ~ \E t \in Threads : FindBusy(t)
  <2>1. \A t \in Threads : id'[t] <= id[t]
    BY <1>4, <1>6 DEF PoolNext, Exec, Ask, FindFree, Exhausted, Fill, ReadStart, ReadBound,
         ReadLength, OutOfRange, Raise, FreeRequest, Leave, poolVars, progress
  <2>2. FewBeyond'
    BY <1>2, <1>4, <2>1, FewBeyondShrinks
  <2>3. Cardinality(Threads) <= MaxViews => ~ \E t \in Threads : Exhausted(t)
    BY <1>2, NoneBeyondAll DEF Exhausted
  <2>4. Cardinality(Threads) <= MaxViews => \A t \in Threads : pc'[t] # "exhausted"
    BY <1>2, <1>6, <2>3 DEF EnoughViews, TypeInv, PoolTypeOK, PoolNext, Exec, Ask, FindFree,
       Fill, ReadStart, ReadBound, ReadLength, OutOfRange, Raise, FreeRequest, Leave, poolVars
  <2>5. QED
    BY <2>2, <2>4 DEF EnoughViews
<1>7. QED
  BY <1>5, <1>6

\* A server with at least as many views per table as it has threads never
\* throws "out of requests" as long as no query has raised an exception, however
\* searches, fills and frees interleave.
THEOREM EnoughViewsWithoutLeaks ==
  ASSUME IsFiniteSet(Threads)
  PROVE  PoolSpec => []EnoughViewsUnlessLeaked
<1>1. PoolInit => EnoughInv
  <2> SUFFICES ASSUME PoolInit PROVE FewBeyond /\ EnoughViews
    BY DEF EnoughInv
  <2>1. EnoughViews
    BY DEF PoolInit, EnoughViews
  <2>2. ASSUME NEW i \in 0 .. MaxViews, i <= Cardinality(Threads)
        PROVE  Cardinality(Beyond(i)) <= Cardinality(Threads) - i
    <3>1. CASE i = 0
      <4>1. Beyond(i) = Threads
        BY <3>1 DEF PoolInit, Beyond
      <4>2. QED
        BY <3>1, <4>1, FS_CardinalityType
    <3>2. CASE i > 0
      <4>1. Beyond(i) = {}
        BY <3>2 DEF PoolInit, Beyond
      <4>2. QED
        BY <2>2, <4>1, FS_EmptySet, FS_CardinalityType
    <3>3. QED
      BY <3>1, <3>2
  <2>3. QED
    BY <2>1, <2>2 DEF FewBeyond
<1>2. EnoughInv => EnoughViewsUnlessLeaked
  BY DEF EnoughInv, EnoughViewsUnlessLeaked
<1>3. TypeInv /\ HeldOrLeaked /\ EnoughInv /\ [PoolNext]_poolVars => EnoughInv'
  BY EnoughStep
<1>4. QED
  BY <1>1, <1>2, <1>3, PoolTypeCorrect, SlotsAreHeldOrLeaked, PTL DEF PoolSpec, TypeInv

-----------------------------------------------------------------------------
(***************************************************************************)
(* Ranges of the same length, torn or not, are in the file.                *)
(***************************************************************************)
\* What a thread has in req, once it has asked, is one of its queries.
ReqKnown == \A t \in Threads : pc[t] # "idle" => req[t] \in Requests[t]

\* Offset o is where some query on table tb starts, or a fresh record's.
Start(tb, o) ==
  o = 0 \/ \E t \in Threads : \E r \in Requests[t] : r.table = tb /\ r.offset = o

\* Every record's offset is a start of its table and its count at most everybody's.
Starts ==
  /\ ReqKnown
  /\ \A v \in Views : Start(v[1], offset[v])
  /\ \A t \in Threads : pc[t] = "length" => Start(req[t].table, hi[t])
  /\ \A v \in Views, t \in Threads : \A r \in Requests[t] : count[v] <= r.count

Uniform == \A t, u \in Threads : \A q \in Requests[t], r \in Requests[u] : q.count = r.count

LEMMA StartsStep ==
  ASSUME Uniform, TypeInv, Starts, [PoolNext]_poolVars
  PROVE  Starts'
<1> USE DEF TypeInv, PoolTypeOK
<1>1. ReqKnown'
  <2>1. ASSUME NEW t \in Threads, NEW r \in Requests[t], Ask(t, r) PROVE ReqKnown'
    BY <2>1 DEF Starts, ReqKnown, Ask
  <2>2. ASSUME NEW t \in Threads, Exec(t)
        PROVE  req' = req /\ \A u \in Threads : pc[u] = "idle" => pc'[u] = "idle"
    <3> DEFINE Steps == req' = req /\ \A u \in Threads : pc[u] = "idle" => pc'[u] = "idle"
    <3>1. ASSUME NEW f \in Field, Fill(t, f) PROVE Steps
      BY <3>1 DEF Fill
    <3>2. CASE FindFree(t) \/ FindBusy(t) \/ ReadStart(t) \/ ReadBound(t) \/ ReadLength(t)
      BY <3>2 DEF FindFree, FindBusy, ReadStart, ReadBound, ReadLength
    <3>3. CASE Exhausted(t) \/ OutOfRange(t) \/ Raise(t) \/ FreeRequest(t)
      BY <3>3 DEF Exhausted, OutOfRange, Raise, FreeRequest, Leave, Using
    <3> QED
      BY <2>2, <3>1, <3>2, <3>3 DEF Exec
  <2>3. ASSUME NEW t \in Threads, Exec(t) PROVE ReqKnown'
    BY <2>2, <2>3 DEF Starts, ReqKnown
  <2>4. CASE UNCHANGED poolVars
    BY <2>4 DEF poolVars, progress, Starts, ReqKnown
  <2> QED
    BY <2>1, <2>3, <2>4 DEF PoolNext
<1>2. ASSUME NEW t \in Threads, NEW f \in Field, Fill(t, f) PROVE Starts'
  <2>1. View(t) \in Views /\ View(t)[1] = req[t].table /\ req[t] \in Requests[t]
    BY <1>2, ViewType DEF Fill, View, Starts, ReqKnown
  <2>2. Start(View(t)[1], req[t].offset)
    BY <2>1 DEF Start
  <2>3. \A u \in Threads : \A r \in Requests[u] : req[t].count <= r.count
    <3>1. \A u \in Threads : \A r \in Requests[u] : req[t].count = r.count
      BY <2>1 DEF Uniform
    <3>2. req[t].count \in Nat
      BY DEF Request
    <3> QED
      BY <3>1, <3>2
  <2>4. \A v \in Views : offset'[v] = offset[v] \/ (v = View(t) /\ offset'[v] = req[t].offset)
    BY <1>2 DEF Fill
  <2>5. \A v \in Views : count'[v] = count[v] \/ count'[v] = req[t].count
    BY <1>2 DEF Fill
  <2>6. \A u \in Threads : pc'[u] = "length" => pc[u] = "length"
    BY <1>2 DEF Fill
  <2>7. \A v \in Views : Start(v[1], offset'[v])
    BY <2>2, <2>4 DEF Starts
  <2>8. \A u \in Threads : pc'[u] = "length" => Start(req'[u].table, hi'[u])
    BY <1>2, <2>6 DEF Fill, Starts
  <2>9. \A v \in Views, u \in Threads : \A r \in Requests[u] : count'[v] <= r.count
    BY <2>3, <2>5 DEF Starts
  <2> QED
    BY <1>1, <2>7, <2>8, <2>9 DEF Starts, Start
<1>3. ASSUME NEW t \in Threads, ReadBound(t) PROVE Starts'
  <2>1. View(t) \in Views /\ View(t)[1] = req[t].table
    BY <1>3, ViewType DEF ReadBound, View, Using
  <2>2. Start(req[t].table, offset[View(t)])
    BY <2>1 DEF Starts
  <2>3. \A u \in Threads : pc'[u] = "length" => Start(req'[u].table, hi'[u])
    BY <1>3, <2>2 DEF ReadBound, Starts
  <2> QED
    BY <1>1, <1>3, <2>3 DEF ReadBound, Starts, Start, record
<1>4. ASSUME offset' = offset, count' = count,
             \A u \in Threads : pc'[u] = "length" =>
               pc[u] = "length" /\ req'[u] = req[u] /\ hi'[u] = hi[u]
      PROVE  Starts'
  BY <1>1, <1>4 DEF Starts, Start
<1>5. ASSUME NEW t \in Threads, NEW r \in Requests[t], Ask(t, r) PROVE Starts'
  BY <1>4, <1>5 DEF Ask, record, Resting
<1>6. ASSUME NEW t \in Threads,
             FindFree(t) \/ FindBusy(t) \/ Exhausted(t) \/ ReadStart(t) \/ ReadLength(t)
      PROVE Starts'
  BY <1>4, <1>6 DEF FindFree, FindBusy, Exhausted, ReadStart, ReadLength, Leave, record
<1>7. ASSUME NEW t \in Threads, OutOfRange(t) \/ Raise(t) \/ FreeRequest(t) PROVE Starts'
  BY <1>4, <1>7 DEF OutOfRange, Raise, FreeRequest, Leave, record
<1>8. CASE UNCHANGED poolVars
  BY <1>4, <1>8 DEF poolVars, record, progress
<1> QED
  BY <1>2, <1>3, <1>5, <1>6, <1>7, <1>8 DEF PoolNext, Exec

\* Clients that ask for equally long ranges never plan a row group beyond the file,
\* although two of them may mix their ranges on one record (createPartitionsParquet).
THEOREM UniformRangesAreInFile == PoolSpec => []UniformInRange
<1>1. ASSUME Uniform, PoolInit PROVE Starts
  BY <1>1 DEF PoolInit, Starts, ReqKnown, Start, Request
<1>2. ASSUME Uniform, TypeInv, Starts, NEW t \in Threads, pc[t] = "length",
             NEW g \in Planned(t)
      PROVE  g < NumGroups[req[t].table]
  <2> USE <1>2 DEF TypeInv, PoolTypeOK
  <2>1. View(t) \in Views /\ req[t] \in Requests[t]
    BY ViewType DEF Starts, ReqKnown, Using
  <2>2. /\ lo[t] \in Nat /\ hi[t] \in Nat /\ count[View(t)] \in Nat /\ req[t] \in Request
        /\ NumGroups[req[t].table] \in Nat
    BY <2>1 DEF Request
  <2>3. g \in Int /\ g <= hi[t] + count[View(t)] - 1
    BY <2>2 DEF Planned
  <2>4. CASE hi[t] = 0
    <3>1. count[View(t)] <= req[t].count /\ req[t].offset + req[t].count <= NumGroups[req[t].table]
      BY <2>1 DEF Starts
    <3>2. req[t].offset \in Nat /\ req[t].count \in Nat
      BY <2>2 DEF Request
    <3> QED
      BY <2>2, <2>3, <2>4, <3>1, <3>2
  <2>5. CASE hi[t] # 0
    <3>1. PICK u \in Threads : \E r \in Requests[u] : r.table = req[t].table /\ r.offset = hi[t]
      BY <2>5 DEF Starts, Start
    <3>2. PICK r \in Requests[u] : r.table = req[t].table /\ r.offset = hi[t]
      BY <3>1
    <3>3. r \in Request /\ r.count \in Nat
      BY DEF Request
    <3>4. count[View(t)] <= r.count /\ r.offset + r.count <= NumGroups[r.table]
      BY <2>1 DEF Starts
    <3> QED
      BY <2>2, <2>3, <3>2, <3>3, <3>4
  <2> QED
    BY <2>4, <2>5
<1>3. Uniform /\ TypeInv /\ Starts => UniformInRange
  BY <1>2 DEF UniformInRange
<1>4. ~ Uniform => UniformInRange
  BY DEF UniformInRange, Uniform
<1>5. Uniform => (PoolSpec => [](TypeInv /\ Starts))
  <2> SUFFICES ASSUME Uniform PROVE PoolSpec => [](TypeInv /\ Starts)
    OBVIOUS
  <2>1. PoolInit => TypeInv /\ Starts
    BY <1>1, NoRequestType DEF PoolInit, TypeInv, PoolTypeOK, GivenViewExists, Phase, Resting, Using
  <2>2. TypeInv /\ Starts /\ [PoolNext]_poolVars => TypeInv' /\ Starts'
    BY TypeInvStep, StartsStep
  <2> QED
    BY <2>1, <2>2, PTL DEF PoolSpec
<1>6. Uniform => (PoolSpec => []UniformInRange)
  <2> SUFFICES ASSUME Uniform PROVE PoolSpec => []UniformInRange
    OBVIOUS
  <2>1. TypeInv /\ Starts => UniformInRange
    BY <1>3
  <2> QED
    BY <1>5, <2>1, PTL
<1>7. ~ Uniform => (PoolSpec => []UniformInRange)
  <2> SUFFICES ASSUME ~ Uniform PROVE PoolSpec => []UniformInRange
    OBVIOUS
  <2>1. UniformInRange
    BY <1>4
  <2> QED
    BY <2>1, PTL
<1> QED
  BY <1>6, <1>7

-----------------------------------------------------------------------------
(***************************************************************************)
(* The pool implements ScanService for the clients that share no table     *)
(* with another client, however many other clients race on other tables.   *)
(***************************************************************************)
\* A view is leaked by a thread that queries its table, and a thread that never
\* raises leaks only when another thread has overwritten its record.
LeakedByUser ==
  \A v \in leaked : \E t \in Threads :
    /\ \E r \in Requests[t] : r.table = v[1]
    /\ t \in Faulty \/ ~ Alone(t)

\* The record of a client that shares no table holds what the client wrote.
OwnRecord(t) ==
  /\ pc[t] = "fill" =>
        /\ "offset" \notin unset[t] => offset[View(t)] = req[t].offset
        /\ "count" \notin unset[t] => count[View(t)] = req[t].count
  /\ pc[t] \in Using => offset[View(t)] = req[t].offset /\ count[View(t)] = req[t].count
  /\ pc[t] \in {"bound", "length"} => lo[t] = req[t].offset
  /\ pc[t] = "length" => hi[t] = req[t].offset
  /\ pc[t] = "run" => scanned[t] = Groups(req[t])
  /\ pc[t] = "find" /\ t \notin Faulty => id[t] = 0

AloneInv == ReqKnown /\ LeakedByUser /\ \A t \in AloneThreads : OwnRecord(t)

FullInv == TypeInv /\ HeldOrLeaked /\ AloneInv

-----------------------------------------------------------------------------
LEMMA AloneTables ==
  ASSUME ReqKnown, NEW t \in AloneThreads, NEW u \in Threads, u # t,
         pc[t] # "idle", pc[u] # "idle"
  PROVE  req[t].table # req[u].table
  BY DEF ReqKnown, AloneThreads, Alone

LEMMA AloneFindsFree ==
  ASSUME FullInv, NEW t \in AloneThreads, t \notin Faulty, pc[t] = "find"
  PROVE  id[t] \in Ids /\ freed[View(t)]
<1> USE DEF FullInv, AloneInv
<1>1. id[t] = 0 /\ id[t] \in Ids /\ t \in Threads
  BY DEF OwnRecord, AloneThreads, Ids
<1>2. View(t) \in Views
  BY <1>1, ViewType
<1>3. View(t) \notin leaked
  <2> SUFFICES ASSUME View(t) \in leaked PROVE FALSE
    OBVIOUS
  <2>1. PICK u \in Threads : /\ \E r \in Requests[u] : r.table = req[t].table
                             /\ u \in Faulty \/ ~ Alone(u)
    BY DEF LeakedByUser, View
  <2>2. req[t] \in Requests[t]
    BY <1>1 DEF ReqKnown
  <2>3. QED
    BY <1>1, <2>1, <2>2 DEF AloneThreads, Alone
<1>4. \A u \in Threads : ~ Holds(u, View(t))
  <2> SUFFICES ASSUME NEW u \in Threads, Holds(u, View(t)) PROVE FALSE
    OBVIOUS
  <2>1. u # t /\ pc[u] # "idle"
    BY DEF Holds, Using
  <2>2. req[u].table = req[t].table
    BY DEF Holds, View
  <2>3. QED
    BY <2>1, <2>2, AloneTables
<1>5. QED
  BY <1>1, <1>2, <1>3, <1>4 DEF HeldOrLeaked

\* The range an alone client plans is the range it asked for, and in the file.
LEMMA AlonePlans ==
  ASSUME FullInv, NEW t \in AloneThreads, pc[t] = "length"
  PROVE  /\ Planned(t) = Groups(req[t])
         /\ \A g \in Planned(t) : g < NumGroups[req[t].table]
<1> USE DEF FullInv, AloneInv
<1>1. t \in Threads /\ req[t] \in Requests[t] /\ req[t] \in Request
  BY DEF AloneThreads, ReqKnown, TypeInv, PoolTypeOK
<1>2. Planned(t) = Groups(req[t])
  BY DEF OwnRecord, Using, Planned, Groups
<1>3. req[t].offset + req[t].count <= NumGroups[req[t].table]
  BY <1>1
<1>4. NumGroups[req[t].table] \in Nat /\ req[t].offset \in Nat /\ req[t].count \in Nat
  BY <1>1 DEF Request
<1>5. QED
  BY <1>2, <1>3, <1>4 DEF Groups

LEMMA AloneInRange ==
  ASSUME FullInv, NEW t \in AloneThreads
  PROVE  ~ OutOfRange(t)
<1> SUFFICES ASSUME OutOfRange(t) PROVE FALSE
  OBVIOUS
<1>1. t \in Threads /\ View(t) \in Views
  BY ViewType DEF OutOfRange, FullInv, Using, AloneThreads
<1>2. \A g \in Planned(t) : g \in Nat /\ g < NumGroups[req[t].table]
  BY <1>1, AlonePlans, PlannedType DEF OutOfRange, FullInv, TypeInv
<1>3. NumGroups[req[t].table] \in Nat
  BY <1>1 DEF FullInv, TypeInv, PoolTypeOK, Request
<1>4. QED
  BY <1>2, <1>3 DEF OutOfRange

\* A step of another thread leaves the record and the progress of t alone.
Step(u) == (\E r \in Requests[u] : Ask(u, r)) \/ Exec(u)

LEMMA OthersStep ==
  ASSUME FullInv, NEW t \in AloneThreads, NEW u \in Threads, u # t, Step(u)
  PROVE  /\ pc'[t] = pc[t] /\ req'[t] = req[t] /\ id'[t] = id[t] /\ unset'[t] = unset[t]
         /\ lo'[t] = lo[t] /\ hi'[t] = hi[t] /\ scanned'[t] = scanned[t]
         /\ pc[t] # "idle" => /\ offset'[View(t)] = offset[View(t)]
                              /\ count'[View(t)] = count[View(t)]
<1> USE DEF FullInv, AloneInv, TypeInv, PoolTypeOK
<1>1. t \in Threads
  BY DEF AloneThreads
<1>2. /\ pc'[t] = pc[t] /\ req'[t] = req[t] /\ id'[t] = id[t] /\ unset'[t] = unset[t]
      /\ lo'[t] = lo[t] /\ hi'[t] = hi[t] /\ scanned'[t] = scanned[t]
  BY <1>1 DEF Step, Exec, Ask, FindFree, FindBusy, Exhausted, Fill, ReadStart, ReadBound,
     ReadLength, OutOfRange, Raise, FreeRequest, Leave, progress
<1>3. ASSUME pc[t] # "idle", NEW f \in Field, Fill(u, f)
      PROVE  offset'[View(t)] = offset[View(t)] /\ count'[View(t)] = count[View(t)]
  <2>1. View(u) # View(t)
    BY <1>3, AloneTables DEF Fill, View
  <2>2. QED
    BY <1>3, <2>1 DEF Fill
<1>4. ASSUME \A f \in Field : ~ Fill(u, f)
      PROVE  offset' = offset /\ count' = count
  BY <1>4 DEF Step, Exec, Ask, FindFree, FindBusy, Exhausted, ReadStart, ReadBound,
     ReadLength, OutOfRange, Raise, FreeRequest, record
<1>5. QED
  BY <1>2, <1>3, <1>4

LEMMA OwnStep ==
  ASSUME FullInv, NEW t \in AloneThreads, Step(t)
  PROVE  OwnRecord(t)'
<1> USE DEF FullInv, AloneInv, TypeInv, PoolTypeOK
<1>1. t \in Threads /\ OwnRecord(t)
  BY DEF AloneThreads
<1>2. ASSUME NEW r \in Requests[t], Ask(t, r) PROVE OwnRecord(t)'
  BY <1>1, <1>2 DEF Ask, OwnRecord, Using
<1>3. CASE FindFree(t)
  BY <1>1, <1>3 DEF FindFree, OwnRecord, Using, Field
<1>4. CASE FindBusy(t)
  BY <1>1, <1>4, AloneFindsFree DEF FindBusy, OwnRecord, Using
<1>5. CASE Exhausted(t)
  BY <1>1, <1>5 DEF Exhausted, Leave, OwnRecord, Using
<1>6. ASSUME NEW f \in Field, Fill(t, f) PROVE OwnRecord(t)'
  <2>1. View(t) \in Views /\ View(t)' = View(t) /\ unset[t] \subseteq Field
    BY <1>1, <1>6, ViewType DEF Fill, View
  <2>2. "offset" \notin unset'[t] => offset'[View(t)] = req[t].offset
    BY <1>1, <1>6, <2>1 DEF Fill, OwnRecord, Field
  <2>3. "count" \notin unset'[t] => count'[View(t)] = req[t].count
    BY <1>1, <1>6, <2>1 DEF Fill, OwnRecord, Field
  <2>4. pc'[t] \in {"fill", "start"} /\ (pc'[t] = "start" => unset'[t] = {})
    BY <1>1, <1>6 DEF Fill
  <2>5. req'[t] = req[t]
    BY <1>6 DEF Fill
  <2>6. QED
    BY <2>1, <2>2, <2>3, <2>4, <2>5 DEF OwnRecord, Using
<1>7. CASE ReadStart(t)
  BY <1>1, <1>7 DEF ReadStart, OwnRecord, Using, record, View
<1>8. CASE ReadBound(t)
  BY <1>1, <1>8 DEF ReadBound, OwnRecord, Using, record, View
<1>9. CASE ReadLength(t)
  <2>1. Planned(t) = Groups(req[t])
    BY <1>9, AlonePlans DEF ReadLength
  <2>2. QED
    BY <1>1, <1>9, <2>1 DEF ReadLength, OwnRecord, Using, record, View, Groups
<1>10. CASE OutOfRange(t) \/ Raise(t)
  BY <1>1, <1>10 DEF OutOfRange, Raise, Leave, OwnRecord, Using, Resting
<1>11. CASE FreeRequest(t)
  BY <1>1, <1>11 DEF FreeRequest, Leave, OwnRecord, Using
<1>12. QED
  BY <1>2, <1>3, <1>4, <1>5, <1>6, <1>7, <1>8, <1>9, <1>10, <1>11 DEF Step, Exec

LEMMA LeakedByUserStep ==
  ASSUME FullInv, [PoolNext]_poolVars
  PROVE  LeakedByUser'
<1> USE DEF FullInv, AloneInv
<1>1. ASSUME NEW t \in Threads, OutOfRange(t) \/ Raise(t)
      PROVE  LeakedByUser'
  <2>1. req[t] \in Requests[t] /\ View(t)[1] = req[t].table
    BY <1>1 DEF OutOfRange, Raise, ReqKnown, View, Using
  <2>2. t \in Faulty \/ ~ Alone(t)
    <3>1. Raise(t) => t \in Faulty
      BY DEF Raise
    <3>2. OutOfRange(t) => t \notin AloneThreads
      BY AloneInRange
    <3>3. QED
      BY <1>1, <3>1, <3>2 DEF AloneThreads
  <2>3. leaked' = leaked \cup {View(t)}
    BY <1>1 DEF OutOfRange, Raise
  <2>4. QED
    BY <2>1, <2>2, <2>3 DEF LeakedByUser, Alone
<1>2. CASE UNCHANGED leaked
  BY <1>2 DEF LeakedByUser, Alone
<1>3. QED
  BY <1>1, <1>2 DEF PoolNext, Exec, Ask, FindFree, FindBusy, Exhausted, Fill, ReadStart,
     ReadBound, ReadLength, FreeRequest, poolVars

LEMMA AloneInvStep ==
  ASSUME FullInv, [PoolNext]_poolVars
  PROVE  AloneInv'
<1> USE DEF FullInv, AloneInv
<1>1. ReqKnown'
  <2>1. ASSUME NEW t \in Threads, pc'[t] # "idle", pc[t] = "idle"
        PROVE  req'[t] \in Requests[t]
    BY <2>1 DEF TypeInv, PoolTypeOK, PoolNext, Exec, Ask, FindFree, FindBusy, Exhausted, Fill,
       ReadStart, ReadBound, ReadLength, OutOfRange, Raise, FreeRequest, Leave, Using,
       progress, poolVars
  <2>2. ASSUME NEW t \in Threads, pc[t] # "idle"
        PROVE  req'[t] \in Requests[t]
    BY <2>2 DEF ReqKnown, TypeInv, PoolTypeOK, PoolNext, Exec, Ask, FindFree, FindBusy,
       Exhausted, Fill, ReadStart, ReadBound, ReadLength, OutOfRange, Raise, FreeRequest,
       Leave, progress, poolVars
  <2>3. QED
    BY <2>1, <2>2 DEF ReqKnown
<1>2. LeakedByUser'
  BY LeakedByUserStep
<1>3. ASSUME NEW t \in AloneThreads PROVE OwnRecord(t)'
  <2>1. CASE UNCHANGED poolVars
    BY <2>1 DEF poolVars, record, progress, OwnRecord, View, Groups
  <2>2. ASSUME NEW u \in Threads, Step(u) PROVE OwnRecord(t)'
    <3>1. CASE u = t
      BY <2>2, <3>1, OwnStep
    <3>2. CASE u # t
      <4>1. OwnRecord(t)
        OBVIOUS
      <4>2. View(t)' = View(t)
        BY <2>2, <3>2, OthersStep DEF View
      <4>3. QED
        BY <2>2, <3>2, <4>1, <4>2, OthersStep DEF OwnRecord, Using, Groups
    <3>3. QED
      BY <3>1, <3>2
  <2>3. QED
    BY <2>1, <2>2 DEF PoolNext, Step
<1>4. QED
  BY <1>1, <1>2, <1>3 DEF AloneThreads, Alone

LEMMA FullInvariant == PoolSpec => []FullInv
<1>1. PoolInit => AloneInv
  BY DEF PoolInit, AloneInv, ReqKnown, LeakedByUser, OwnRecord, AloneThreads, Using
<1>2. FullInv /\ [PoolNext]_poolVars => AloneInv'
  BY AloneInvStep
<1>3. QED
  BY <1>1, <1>2, PoolTypeCorrect, SlotsAreHeldOrLeaked, PTL DEF PoolSpec, FullInv, TypeInv

-----------------------------------------------------------------------------
\* What a client that shares no table was last answered.
AnswersAreGroups ==
  \A t \in AloneThreads : pc[t] = "answered" => scanned[t] = Groups(req[t])

LEMMA AnswersStep ==
  ASSUME FullInv, AnswersAreGroups, [PoolNext]_poolVars
  PROVE  AnswersAreGroups'
<1> SUFFICES ASSUME NEW t \in AloneThreads, pc'[t] = "answered"
             PROVE  scanned'[t] = Groups(req'[t])
  BY DEF AnswersAreGroups, AloneThreads, Alone, Groups
<1> USE DEF FullInv, AloneInv, TypeInv, PoolTypeOK
<1>1. t \in Threads /\ OwnRecord(t)
  BY DEF AloneThreads
<1>2. CASE UNCHANGED poolVars
  BY <1>2 DEF AnswersAreGroups, poolVars, progress
<1>3. ASSUME NEW u \in Threads, u # t, Step(u)
      PROVE  scanned'[t] = Groups(req'[t])
  BY <1>3, OthersStep DEF AnswersAreGroups
<1>4. CASE Step(t)
  <2>1. FreeRequest(t)
    BY <1>1, <1>4 DEF Step, Exec, Ask, FindFree, FindBusy, Exhausted, Fill, ReadStart, ReadBound,
       ReadLength, OutOfRange, Raise, Leave, Using
  <2>2. scanned'[t] = scanned[t] /\ req'[t] = req[t]
    BY <1>1, <2>1 DEF FreeRequest, Leave
  <2>3. QED
    BY <1>1, <2>1, <2>2 DEF FreeRequest, OwnRecord
<1>5. QED
  BY <1>2, <1>3, <1>4 DEF PoolNext, Step

LEMMA AnswersInvariant == PoolSpec => []AnswersAreGroups
<1>1. PoolInit => AnswersAreGroups
  BY DEF PoolInit, AnswersAreGroups, AloneThreads
<1>2. FullInv /\ AnswersAreGroups /\ [PoolNext]_poolVars => AnswersAreGroups'
  BY AnswersStep
<1>3. QED
  BY <1>1, <1>2, FullInvariant, PTL DEF PoolSpec

-----------------------------------------------------------------------------
\* A step of one client changes what the service shows of that client only.
LEMMA OneClientChanges ==
  ASSUME FullInv, NEW t \in AloneThreads, Step(t)
  PROVE  /\ ClientStatus' = [ClientStatus EXCEPT ![t] = Status(t)']
         /\ ClientQuery'  = [ClientQuery EXCEPT ![t] = req'[t]]
         /\ ClientAnswer' = [ClientAnswer EXCEPT ![t] =
                               IF pc'[t] = "answered" THEN scanned'[t] ELSE {}]
<1>1. ASSUME NEW u \in AloneThreads, u # t
      PROVE  pc'[u] = pc[u] /\ req'[u] = req[u] /\ scanned'[u] = scanned[u]
  BY <1>1, OthersStep DEF AloneThreads
<1>2. QED
  BY <1>1 DEF ClientStatus, ClientQuery, ClientAnswer, Status, AloneThreads, Alone

LEMMA OtherClientsStutter ==
  ASSUME FullInv, NEW u \in Threads \ AloneThreads, Step(u)
  PROVE  UNCHANGED <<ClientStatus, ClientQuery, ClientAnswer>>
<1>1. ASSUME NEW t \in AloneThreads
      PROVE  pc'[t] = pc[t] /\ req'[t] = req[t] /\ scanned'[t] = scanned[t]
  BY OthersStep
<1>2. QED
  BY <1>1 DEF ClientStatus, ClientQuery, ClientAnswer, Status, AloneThreads, Alone

\* Every step of an alone client maps to a step of the service or to a stutter.
LEMMA AloneStepRefines ==
  ASSUME FullInv, NEW t \in AloneThreads, Step(t)
  PROVE  Service!Next \/ UNCHANGED <<ClientStatus, ClientQuery, ClientAnswer>>
<1> USE DEF FullInv, AloneInv
<1>1. /\ t \in Threads
      /\ pc \in [Threads -> Phase] /\ req \in [Threads -> Request]
      /\ scanned \in [Threads -> SUBSET Nat]
  BY DEF AloneThreads, TypeInv, PoolTypeOK
<1>2. /\ ClientStatus[t] = Status(t) /\ ClientQuery[t] = req[t]
      /\ ClientAnswer[t] = IF pc[t] = "answered" THEN scanned[t] ELSE {}
  BY DEF ClientStatus, ClientQuery, ClientAnswer
<1>3. /\ ClientStatus = [ClientStatus EXCEPT ![t] = ClientStatus[t]]
      /\ ClientQuery = [ClientQuery EXCEPT ![t] = ClientQuery[t]]
      /\ ClientAnswer = [ClientAnswer EXCEPT ![t] = ClientAnswer[t]]
  BY DEF ClientStatus, ClientQuery, ClientAnswer
\* An intermediate step: the query stays pending and unanswered.
<1>4. ASSUME Status(t) = "pending", Status(t)' = "pending", req'[t] = req[t]
      PROVE  UNCHANGED <<ClientStatus, ClientQuery, ClientAnswer>>
  <2>1. pc[t] # "answered" /\ pc'[t] # "answered"
    BY <1>4 DEF Status
  <2>2. ClientStatus' = [ClientStatus EXCEPT ![t] = ClientStatus[t]]
    BY <1>2, <1>4, OneClientChanges
  <2>3. ClientQuery' = [ClientQuery EXCEPT ![t] = ClientQuery[t]]
    BY <1>2, <1>4, OneClientChanges
  <2>4. ClientAnswer' = [ClientAnswer EXCEPT ![t] = ClientAnswer[t]]
    BY <1>2, <2>1, OneClientChanges
  <2>5. QED
    BY <1>3, <2>2, <2>3, <2>4
<1>5. ASSUME NEW r \in Requests[t], Ask(t, r) PROVE Service!Ask(t, r)
  <2>1. Status(t) # "pending" /\ Status(t)' = "pending" /\ req'[t] = r /\ pc'[t] # "answered"
    BY <1>1, <1>5 DEF Ask, Status, Resting
  <2>2. ClientStatus' = [ClientStatus EXCEPT ![t] = "pending"]
    BY <1>5, <2>1, OneClientChanges
  <2>3. ClientQuery' = [ClientQuery EXCEPT ![t] = r]
    BY <1>5, <2>1, OneClientChanges
  <2>4. ClientAnswer' = [ClientAnswer EXCEPT ![t] = {}]
    BY <1>5, <2>1, OneClientChanges
  <2>5. QED
    BY <1>2, <2>1, <2>2, <2>3, <2>4 DEF Service!Ask
<1>6. ASSUME FindFree(t) \/ FindBusy(t) \/ (\E f \in Field : Fill(t, f)) \/ ReadStart(t)
             \/ ReadBound(t) \/ ReadLength(t)
      PROVE  UNCHANGED <<ClientStatus, ClientQuery, ClientAnswer>>
  <2>1. req'[t] = req[t] /\ Status(t) = "pending" /\ Status(t)' = "pending"
    BY <1>1, <1>6 DEF FindFree, FindBusy, Fill, ReadStart, ReadBound, ReadLength, Status
  <2>2. QED
    BY <1>4, <2>1
<1>7. ASSUME pc[t] \in {"find"} \cup Using, t \in Faulty, req'[t] = req[t],
             pc'[t] \in {"failed", "exhausted"}
      PROVE  Service!Refuse(t)
  <2>1. Status(t) = "pending" /\ Status(t)' = "refused" /\ pc'[t] # "answered" /\ pc[t] # "answered"
    BY <1>1, <1>7 DEF Status, Using
  <2>2. ClientStatus[t] = "pending" /\ ClientStatus' = [ClientStatus EXCEPT ![t] = "refused"]
    BY <1>2, <2>1, OneClientChanges
  <2>3. ClientQuery' = ClientQuery
    BY <1>2, <1>3, <1>7, OneClientChanges
  <2>4. ClientAnswer' = ClientAnswer
    BY <1>2, <1>3, <2>1, OneClientChanges
  <2>5. QED
    BY <1>7, <2>2, <2>3, <2>4 DEF Service!Refuse
<1>8. CASE Exhausted(t)
  <2>1. t \in Faulty
    BY <1>8, AloneFindsFree DEF Exhausted
  <2>2. QED
    BY <1>1, <1>7, <1>8, <2>1 DEF Exhausted, Leave, Service!Next, Service!Reply
<1>9. ~ OutOfRange(t)
  BY AloneInRange
<1>10. CASE Raise(t)
  BY <1>1, <1>7, <1>10 DEF Raise, Leave, Service!Next, Service!Reply
<1>11. CASE FreeRequest(t)
  <2>1. CASE Leave(t, "answered", scanned[t])
    <3>1. /\ Status(t) = "pending" /\ Status(t)' = "answered" /\ req'[t] = req[t]
          /\ pc'[t] = "answered" /\ scanned'[t] = Groups(req[t])
      BY <1>1, <1>11, <2>1 DEF FreeRequest, Leave, Status, OwnRecord
    <3>2. Service!Answer(t)
      BY <1>2, <1>3, <3>1, OneClientChanges DEF Service!Answer, Service!Range, Groups
    <3>3. QED
      BY <3>2 DEF Service!Next, Service!Reply
  <2>2. CASE t \in Faulty /\ Leave(t, "failed", {})
    BY <1>1, <1>7, <1>11, <2>2 DEF FreeRequest, Leave, Using, Service!Next, Service!Reply
  <2>3. QED
    BY <1>11, <2>1, <2>2 DEF FreeRequest
<1>12. QED
  BY <1>5, <1>6, <1>8, <1>9, <1>10, <1>11 DEF Step, Exec, Service!Next

\* A client that shares its tables with no other client is served as if the
\* server were atomic, for every number of clients racing on other tables: its
\* queries read exactly the row groups they ask for, and are refused only when
\* they raise.
THEOREM AloneClientsAreServed == PoolSpec => ServesAlone
<1>1. PoolInit => Service!Init
  BY DEF PoolInit, Service!Init, ClientStatus, ClientQuery, ClientAnswer, Status, AloneThreads
<1>2. ASSUME FullInv, [PoolNext]_poolVars
      PROVE  [Service!Next]_(Service!serviceVars)
  <2>1. CASE UNCHANGED poolVars
    <3>1. pc' = pc /\ req' = req /\ scanned' = scanned
      BY <2>1 DEF poolVars, progress
    <3>2. \A t \in AloneThreads : Status(t)' = Status(t)
      BY <3>1 DEF Status
    <3>3. UNCHANGED <<ClientStatus, ClientQuery, ClientAnswer>>
      BY <3>1, <3>2 DEF ClientStatus, ClientQuery, ClientAnswer, AloneThreads, Alone
    <3>4. QED
      BY <3>3 DEF Service!serviceVars
  <2>2. ASSUME NEW u \in Threads, Step(u) PROVE [Service!Next]_(Service!serviceVars)
    <3>1. CASE u \in AloneThreads
      BY <1>2, <2>2, <3>1, AloneStepRefines DEF Service!serviceVars
    <3>2. CASE u \notin AloneThreads
      BY <1>2, <2>2, <3>2, OtherClientsStutter DEF Service!serviceVars
    <3>3. QED
      BY <3>1, <3>2
  <2>3. QED
    BY <1>2, <2>1, <2>2 DEF PoolNext, Step
<1>3. QED
  BY <1>1, <1>2, FullInvariant, PTL DEF PoolSpec, ServesAlone, Service!Spec
=============================================================================
