---------------------------- MODULE MkCalls_proofs ----------------------------
(***************************************************************************)
(* With interrupts off around a call, and READY tasks named in the waits   *)
(* and the stops, MkCalls implements MkKernel, and the links always form   *)
(* two lists.  First what the list code does to links and to a rotated     *)
(* queue, with no state at all; then one lemma per action.                 *)
(***************************************************************************)
EXTENDS MkCallsRefinement, SeqSets_proofs, FiniteSetTheorems,
        WellFoundedInduction

-----------------------------------------------------------------------------
(* The links.                                                              *)

LEMMA TaskFacts ==
    /\ MaxTasks \in Nat \ {0} /\ Task = 0..(MaxTasks - 1) /\ Nil \notin Task
    /\ K!Task = Task /\ K!Idle \notin Task
BY KernelConstants DEF K!KernelAssumption, Task, K!Task, Nil, K!Idle

Link == Task \cup {Nil}

\* The links nx lead from head through w, and end there; pv leads back.
Linked(nx, head, w) ==
    /\ head = IF w = <<>> THEN Nil ELSE w[1]
    /\ \A i \in 1..Len(w) : nx[w[i]] = IF i < Len(w) THEN w[i + 1] ELSE Nil

Mirrored(pv, w) ==
    \A i \in 1..Len(w) : pv[w[i]] = IF i = 1 THEN Nil ELSE w[i - 1]

\* Two lists, w that can be walked both ways and s, share the links.
TwoLists(nx, pv, wHead, sHead, w, s) ==
    /\ nx \in [Task -> Link] /\ pv \in [Task -> Link]
    /\ w \in Seq(Task) /\ Once(w) /\ Linked(nx, wHead, w) /\ Mirrored(pv, w)
    /\ s \in Seq(Task) /\ Once(s) /\ Linked(nx, sHead, s)
    /\ Elems(w) \cap Elems(s) = {}

\* A list without duplicates is no longer than the pool.
LEMMA NoLongerThanPool ==
    ASSUME NEW w \in Seq(Task), Once(w)
    PROVE  Len(w) <= MaxTasks
<1> SUFFICES ASSUME Len(w) > MaxTasks PROVE FALSE
  BY TaskFacts
<1> DEFINE D == 1..(MaxTasks + 1)
           f == [i \in D |-> w[i]]
<1>1. IsFiniteSet(D) /\ Cardinality(D) = MaxTasks + 1
  BY FS_Interval, TaskFacts
<1>2. IsFiniteSet(Task) /\ Cardinality(Task) = MaxTasks
  BY FS_Interval, TaskFacts
<1>3. D \subseteq DOMAIN w
  BY TaskFacts
<1>4. f \in [D -> Task]
  BY <1>3
<1>5. Cardinality(Task) < Cardinality(D)
  BY <1>1, <1>2, TaskFacts
<1>6. PICK i, j \in D : i # j /\ f[i] = f[j]
  <2> HIDE DEF D, f
  <2> QED BY <1>1, <1>2, <1>4, <1>5, FS_PigeonHole
<1> QED BY <1>3, <1>6 DEF Once

\* Chain with the links as a parameter.
ChainOf(nx, head) ==
    LET at[i \in 0..MaxTasks] ==
          IF i = 0 THEN head
          ELSE IF at[i - 1] = Nil THEN Nil ELSE nx[at[i - 1]]
    IN  [i \in 1..Cardinality({j \in 0..MaxTasks : at[j] # Nil}) |-> at[i - 1]]

LEMMA ChainIsOf ==
    /\ Chain(waitingHead) = ChainOf(next, waitingHead)
    /\ Chain(stoppedHead) = ChainOf(next, stoppedHead)
    /\ Chain(waitingHead)' = ChainOf(next', waitingHead')
    /\ Chain(stoppedHead)' = ChainOf(next', stoppedHead')
BY DEF Chain, ChainOf

\* Following the links of a list gives the list.
LEMMA ChainFacts ==
    ASSUME NEW nx, NEW head, NEW w \in Seq(Task), Once(w), Linked(nx, head, w)
    PROVE  ChainOf(nx, head) = w
<1> DEFINE n == Len(w)
           Step(f) == [i \in 0..MaxTasks |->
                         IF i = 0 THEN head
                         ELSE IF f[i - 1] = Nil THEN Nil ELSE nx[f[i - 1]]]
           g == [i \in 0..MaxTasks |-> IF i < n THEN w[i + 1] ELSE Nil]
           at == CHOOSE f : f = Step(f)
<1>1. n \in Nat /\ n <= MaxTasks /\ MaxTasks \in Nat
  BY NoLongerThanPool, TaskFacts
<1>2. \A i \in 1..n : w[i] \in Task /\ w[i] # Nil
  BY TaskFacts
<1>3. w = <<>> <=> n = 0
  OBVIOUS
<1>4. g = Step(g)
  <2>1. ASSUME NEW i \in 0..MaxTasks PROVE g[i] = Step(g)[i]
    <3>1. CASE i = 0
      BY <1>1, <1>3, <3>1 DEF Linked
    <3>2. CASE i # 0 /\ i <= n
      <4>1. i \in 1..n /\ i - 1 \in 0..MaxTasks /\ g[i - 1] = w[i]
        BY <1>1, <3>2
      <4>2. Step(g)[i] = nx[w[i]]
        BY <1>2, <3>2, <4>1
      <4> QED BY <1>1, <4>1, <4>2 DEF Linked
    <3>3. CASE i > n
      <4>1. i - 1 \in 0..MaxTasks /\ g[i - 1] = Nil /\ g[i] = Nil /\ i # 0
        BY <1>1, <3>3
      <4> QED BY <4>1
    <3> QED BY <1>1, <3>1, <3>2, <3>3
  <2> QED BY <2>1
<1> HIDE DEF g
<1>5. at = Step(at)
  <2>1. \E f : f = Step(f)
    BY <1>4, Zenon
  <2> QED BY <2>1, Zenon
<1> HIDE DEF at
<1>6. at = g
  <2> DEFINE B == {i \in 0..MaxTasks : at[i] # g[i]}
  <2>0. B \subseteq Nat
    BY <1>1
  <2>1. CASE B = {}
    <3>1. \A i \in 0..MaxTasks : at[i] = g[i]
      BY <2>1
    <3>2. /\ at = [i \in 0..MaxTasks |-> at[i]]
          /\ g = [i \in 0..MaxTasks |-> g[i]]
      BY <1>4, <1>5
    <3> QED BY <3>1, <3>2
  <2>2. CASE B # {}
    <3>1. \E j \in B : \A l \in B : <<l, j>> \notin OpToRel(<, Nat)
      <4> HIDE DEF B
      <4> QED BY <2>0, <2>2, NatLessThanWellFounded, WFMin
    <3>2. PICK j \in B : \A l \in B : <<l, j>> \notin OpToRel(<, Nat)
      BY <3>1
    <3>3. j \in 0..MaxTasks /\ at[j] # g[j]
      OBVIOUS
    <3>4. j # 0
      <4>1. at[0] = head /\ g[0] = head
        <5>1. 0 \in 0..MaxTasks   BY <1>1
        <5> QED BY <1>4, <1>5, <5>1
      <4> QED BY <3>3, <4>1
    <3>5. j - 1 \in 0..MaxTasks /\ j - 1 < j
      BY <1>1, <3>3, <3>4
    <3>6. at[j - 1] = g[j - 1]
      <4>1. j - 1 \in Nat /\ j \in Nat
        BY <1>1, <3>3, <3>5
      <4> QED BY <3>2, <3>5, <4>1 DEF OpToRel
    <3> HIDE DEF B
    <3>7. at[j] = g[j]
      BY <1>4, <1>5, <3>3, <3>4, <3>6
    <3> QED BY <3>3, <3>7
  <2> QED BY <2>1, <2>2
<1>7. {j \in 0..MaxTasks : g[j] # Nil} = 0..(n - 1)
  <2>1. ASSUME NEW j \in 0..MaxTasks PROVE g[j] # Nil <=> j < n
    BY <1>1, <1>2 DEF g
  <2> QED BY <1>1, <2>1
<1>8. Cardinality(0..(n - 1)) = n
  <2>1. ASSUME NEW m \in Nat PROVE Cardinality(0..(m - 1)) = m
    BY FS_Interval
  <2> QED BY <1>1, <2>1
<1>9. ChainOf(nx, head) = [i \in 1..n |-> g[i - 1]]
  <2>1. ChainOf(nx, head)
          = [i \in 1..Cardinality({j \in 0..MaxTasks : at[j] # Nil}) |-> at[i - 1]]
    BY DEF ChainOf, at
  <2> QED BY <1>6, <1>7, <1>8, <2>1
<1>10. [i \in 1..n |-> g[i - 1]] = w
  <2>1. \A i \in 1..n : g[i - 1] = w[i]
    BY <1>1 DEF g
  <2>2. w = [i \in 1..n |-> w[i]]
    OBVIOUS
  <2> QED BY <2>1, <2>2
<1> QED BY <1>9, <1>10
-----------------------------------------------------------------------------
(* What the list code does to the links.                                   *)

\* Positions in a list without duplicates.
LEMMA ListFacts ==
    ASSUME NEW w \in Seq(Task), Once(w)
    PROVE  /\ Len(w) \in Nat
           /\ w = <<>> <=> Len(w) = 0
           /\ \A i \in 1..Len(w) : w[i] \in Task /\ w[i] # Nil
           /\ \A i, j \in 1..Len(w) : w[i] = w[j] => i = j
BY OnceFacts, TaskFacts

\* mk_sched_addStoppedTask and the first sleeper: t in front of a list.
LEMMA PushFront ==
    ASSUME NEW nx \in [Task -> Link], NEW head, NEW s \in Seq(Task), Once(s),
           Linked(nx, head, s), NEW t \in Task, t \notin Elems(s)
    PROVE  Linked([nx EXCEPT ![t] = head], t, InsertAt(s, 1, t))
<1> DEFINE r == InsertAt(s, 1, t)
           nx2 == [nx EXCEPT ![t] = head]
<1>1. /\ r \in Seq(Task) /\ Len(r) = Len(s) + 1 /\ Len(s) \in Nat
      /\ r[1] = t /\ \A j \in 2..Len(r) : r[j] = s[j - 1]
  BY InsertAtPositions, ListFacts
<1> HIDE DEF r
<1>2. \A j \in 1..Len(s) : s[j] \in Task /\ s[j] # t
  BY ElemsFacts
<1>3. nx2[t] = head /\ \A u \in Task \ {t} : nx2[u] = nx[u]
  OBVIOUS
<1> HIDE DEF nx2
<1>4. ASSUME NEW j \in 1..Len(r)
      PROVE  nx2[r[j]] = IF j < Len(r) THEN r[j + 1] ELSE Nil
  <2>1. CASE j = 1
    <3>1. CASE s = <<>>
      <4>1. Len(s) = 0   BY <3>1
      <4> QED BY <1>1, <1>3, <2>1, <3>1, <4>1 DEF Linked
    <3>2. CASE s # <<>>
      <4>1. Len(s) > 0   BY <3>2, ListFacts
      <4>2. head = s[1]   BY <3>2 DEF Linked
      <4>3. r[2] = s[1]   BY <1>1, <4>1
      <4> QED BY <1>1, <1>3, <2>1, <4>1, <4>2, <4>3
    <3> QED BY <3>1, <3>2
  <2>2. CASE j # 1
    <3>1. j - 1 \in 1..Len(s) /\ r[j] = s[j - 1]
      BY <1>1, <2>2
    <3>2. nx2[r[j]] = nx[s[j - 1]]
      BY <1>2, <1>3, <3>1
    <3>3. nx[s[j - 1]] = IF j - 1 < Len(s) THEN s[j] ELSE Nil
      BY <1>1, <3>1 DEF Linked
    <3>4. ASSUME j < Len(r) PROVE r[j + 1] = s[j]
      <4>1. j + 1 \in 2..Len(r) /\ j + 1 - 1 = j   BY <1>1, <2>2, <3>4
      <4> QED BY <1>1, <4>1
    <3> QED BY <1>1, <3>1, <3>2, <3>3, <3>4
  <2> QED BY <2>1, <2>2
<1>5. r # <<>>
  BY <1>1
<1> QED BY <1>1, <1>4, <1>5 DEF Linked, r, nx2

\* A store to a link that is not of the list does not change the list.
LEMMA LinkedElsewhere ==
    ASSUME NEW nx, NEW nx2, NEW head, NEW s, Linked(nx, head, s),
           \A i \in 1..Len(s) : nx2[s[i]] = nx[s[i]]
    PROVE  Linked(nx2, head, s)
BY DEF Linked

LEMMA MirroredElsewhere ==
    ASSUME NEW pv, NEW pv2, NEW w, Mirrored(pv, w),
           \A i \in 1..Len(w) : pv2[w[i]] = pv[w[i]]
    PROVE  Mirrored(pv2, w)
BY DEF Mirrored

LEMMA StoppedGrows ==
    ASSUME NEW nx, NEW pv, NEW wHead, NEW sHead, NEW w, NEW s,
           TwoLists(nx, pv, wHead, sHead, w, s),
           NEW t \in Task, t \notin Elems(w), t \notin Elems(s)
    PROVE  TwoLists([nx EXCEPT ![t] = sHead], pv, wHead, t, w, InsertAt(s, 1, t))
<1> DEFINE r == InsertAt(s, 1, t)
           nx2 == [nx EXCEPT ![t] = sHead]
<1>1. /\ nx \in [Task -> Link] /\ pv \in [Task -> Link]
      /\ w \in Seq(Task) /\ Once(w) /\ Linked(nx, wHead, w) /\ Mirrored(pv, w)
      /\ s \in Seq(Task) /\ Once(s) /\ Linked(nx, sHead, s)
      /\ Elems(w) \cap Elems(s) = {}
  BY DEF TwoLists
<1>2. sHead \in Link
  BY <1>1, ListFacts DEF Linked, Link
<1>3. nx2 \in [Task -> Link]
  BY <1>1, <1>2
<1>4. r \in Seq(Task) /\ Elems(r) = Elems(s) \cup {t} /\ Once(r)
  <2>1. 1 \in 1..(Len(s) + 1)   BY <1>1, ListFacts
  <2> QED BY <1>1, <2>1, InsertAtFacts
<1>5. Linked(nx2, t, r)
  BY <1>1, PushFront
<1>6. Linked(nx2, wHead, w)
  <2>1. \A i \in 1..Len(w) : w[i] \in Task /\ w[i] # t
    BY <1>1, ElemsFacts
  <2>2. \A i \in 1..Len(w) : nx2[w[i]] = nx[w[i]]
    BY <1>1, <2>1
  <2> HIDE DEF nx2
  <2> QED BY <1>1, <2>2, LinkedElsewhere
<1> HIDE DEF r, nx2
<1>7. TwoLists(nx2, pv, wHead, t, w, r)
  BY <1>1, <1>3, <1>4, <1>5, <1>6 DEF TwoLists
<1> QED BY <1>7 DEF r, nx2

\* A sleeper t inserted at place k of w: its neighbours and it are linked, all
\* other links are as they were.
Inserted(nx, pv, head, nx2, pv2, head2, w, t, k) ==
    /\ nx2 \in [Task -> Link] /\ pv2 \in [Task -> Link]
    /\ head2 = IF k = 1 THEN t ELSE head
    /\ nx2[t] = IF k <= Len(w) THEN w[k] ELSE Nil
    /\ pv2[t] = IF k = 1 THEN Nil ELSE w[k - 1]
    /\ k > 1 => nx2[w[k - 1]] = t
    /\ k <= Len(w) => pv2[w[k]] = t
    /\ \A u \in Task \ {t} : ~(k > 1 /\ u = w[k - 1]) => nx2[u] = nx[u]
    /\ \A u \in Task \ {t} : ~(k <= Len(w) /\ u = w[k]) => pv2[u] = pv[u]

LEMMA WaitingGrows ==
    ASSUME NEW nx, NEW pv, NEW wHead, NEW sHead, NEW w, NEW s,
           TwoLists(nx, pv, wHead, sHead, w, s),
           NEW t \in Task, t \notin Elems(w), t \notin Elems(s),
           NEW k \in 1..(Len(w) + 1),
           NEW nx2, NEW pv2, NEW wHead2,
           Inserted(nx, pv, wHead, nx2, pv2, wHead2, w, t, k)
    PROVE  TwoLists(nx2, pv2, wHead2, sHead, InsertAt(w, k, t), s)
<1> DEFINE r == InsertAt(w, k, t)
           n == Len(w)
<1>1. /\ nx \in [Task -> Link] /\ pv \in [Task -> Link]
      /\ w \in Seq(Task) /\ Once(w) /\ Linked(nx, wHead, w) /\ Mirrored(pv, w)
      /\ s \in Seq(Task) /\ Once(s) /\ Linked(nx, sHead, s)
      /\ Elems(w) \cap Elems(s) = {}
  BY DEF TwoLists
<1>0. /\ nx2 \in [Task -> Link] /\ pv2 \in [Task -> Link]
      /\ wHead2 = IF k = 1 THEN t ELSE wHead
      /\ nx2[t] = IF k <= n THEN w[k] ELSE Nil
      /\ pv2[t] = IF k = 1 THEN Nil ELSE w[k - 1]
      /\ k > 1 => nx2[w[k - 1]] = t
      /\ k <= n => pv2[w[k]] = t
      /\ \A u \in Task \ {t} : ~(k > 1 /\ u = w[k - 1]) => nx2[u] = nx[u]
      /\ \A u \in Task \ {t} : ~(k <= n /\ u = w[k]) => pv2[u] = pv[u]
  BY DEF Inserted
<1>2. /\ n \in Nat /\ (w = <<>> <=> n = 0)
      /\ \A i \in 1..n : w[i] \in Task /\ w[i] # Nil /\ w[i] # t
                         /\ w[i] \in Elems(w)
      /\ \A i, j \in 1..n : w[i] = w[j] => i = j
  BY <1>1, ListFacts, ElemsFacts
<1>3. /\ r \in Seq(Task) /\ Len(r) = n + 1
      /\ \A j \in 1..(n + 1) :
           r[j] = IF j < k THEN w[j] ELSE IF j = k THEN t ELSE w[j - 1]
  <2>1. w \in Seq(Task) /\ t \in Task /\ k \in 1..(Len(w) + 1)
    BY <1>1
  <2>2. r \in Seq(Task) /\ Len(r) = Len(w) + 1
    BY <2>1, InsertAtPositions
  <2>3. \A j \in 1..(Len(w) + 1) :
           r[j] = IF j < k THEN w[j] ELSE IF j = k THEN t ELSE w[j - 1]
    BY <2>1, InsertAtPositions
  <2> QED BY <2>2, <2>3, Zenon
<1>4. Elems(r) = Elems(w) \cup {t} /\ Once(r)
  BY <1>1, InsertAtFacts
<1>5. \A i \in 1..n : nx[w[i]] = IF i < n THEN w[i + 1] ELSE Nil
  BY <1>1 DEF Linked
<1>6. \A i \in 1..n : pv[w[i]] = IF i = 1 THEN Nil ELSE w[i - 1]
  BY <1>1 DEF Mirrored
<1>7. wHead = IF n = 0 THEN Nil ELSE w[1]
  BY <1>1, <1>2 DEF Linked
<1> HIDE DEF r, n
<1>8. k \in 1..(n + 1)
  BY DEF n
<1>9. /\ nx2[t] = IF k <= n THEN w[k] ELSE Nil
      /\ \A i \in 1..n : i # k - 1 => nx2[w[i]] = nx[w[i]]
      /\ k > 1 => nx2[w[k - 1]] = t
  <2>1. ASSUME NEW i \in 1..n, i # k - 1 PROVE nx2[w[i]] = nx[w[i]]
    <3>1. w[i] \in Task \ {t}   BY <1>2
    <3>2. k > 1 => k - 1 \in 1..n   BY <1>2, <1>8
    <3>3. ~(k > 1 /\ w[i] = w[k - 1])   BY <1>2, <2>1, <3>2
    <3> QED BY <1>0, <3>1, <3>3
  <2> QED BY <1>0, <2>1
<1>10. /\ pv2[t] = IF k = 1 THEN Nil ELSE w[k - 1]
       /\ \A i \in 1..n : i # k => pv2[w[i]] = pv[w[i]]
       /\ k <= n => pv2[w[k]] = t
  <2>1. ASSUME NEW i \in 1..n, i # k PROVE pv2[w[i]] = pv[w[i]]
    <3>1. w[i] \in Task \ {t}   BY <1>2
    <3>2. k <= n => k \in 1..n   BY <1>2, <1>8
    <3>3. ~(k <= n /\ w[i] = w[k])   BY <1>2, <2>1, <3>2
    <3> QED BY <1>0, <3>1, <3>3
  <2> QED BY <1>0, <2>1
<1>11. wHead2 = r[1] /\ r # <<>>
  <2>1. r[1] = IF k = 1 THEN t ELSE w[1]
    BY <1>2, <1>3, <1>8
  <2>2. k # 1 => n # 0
    BY <1>2, <1>8
  <2> QED BY <1>0, <1>2, <1>3, <1>7, <2>1, <2>2
<1>12. ASSUME NEW j \in 1..(n + 1)
       PROVE  nx2[r[j]] = IF j < n + 1 THEN r[j + 1] ELSE Nil
  <2>1. j < n + 1 => j + 1 \in 1..(n + 1)
    BY <1>2
  <2>2. CASE j = k
    BY <1>2, <1>3, <1>8, <1>9, <2>1, <2>2
  <2>3. CASE j = k - 1
    <3>1. r[j] = w[k - 1] /\ r[j + 1] = t /\ j < n + 1
      BY <1>2, <1>3, <1>8, <2>3
    <3> QED BY <1>8, <1>9, <2>3, <3>1
  <2>4. CASE j < k - 1
    <3>1. j \in 1..n /\ j + 1 \in 1..n /\ r[j] = w[j] /\ r[j + 1] = w[j + 1]
      BY <1>2, <1>3, <1>8, <2>4
    <3> QED BY <1>2, <1>5, <1>8, <1>9, <2>4, <3>1
  <2>5. CASE j > k
    <3>1. /\ j - 1 \in 1..n /\ r[j] = w[j - 1] /\ j - 1 # k - 1
          /\ j < n + 1 => r[j + 1] = w[j]
      BY <1>2, <1>3, <1>8, <2>5
    <3>2. nx2[r[j]] = IF j - 1 < n THEN w[j - 1 + 1] ELSE Nil
      BY <1>5, <1>9, <3>1
    <3>3. j - 1 + 1 = j /\ (j - 1 < n <=> j < n + 1)
      BY <1>2, <1>8, <2>5
    <3> QED BY <3>1, <3>2, <3>3
  <2> QED BY <1>8, <2>2, <2>3, <2>4, <2>5
<1>13. ASSUME NEW j \in 1..(n + 1)
       PROVE  pv2[r[j]] = IF j = 1 THEN Nil ELSE r[j - 1]
  <2>1. j # 1 => j - 1 \in 1..(n + 1)
    BY <1>2
  <2>2. CASE j = k
    BY <1>2, <1>3, <1>8, <1>10, <2>1, <2>2
  <2>3. CASE j = k + 1
    <3>1. r[j] = w[k] /\ r[j - 1] = t /\ j # 1 /\ k <= n
      BY <1>2, <1>3, <1>8, <2>3
    <3> QED BY <1>10, <3>1
  <2>4. CASE j < k
    <3>1. j \in 1..n /\ r[j] = w[j] /\ (j # 1 => r[j - 1] = w[j - 1])
      BY <1>2, <1>3, <1>8, <2>1, <2>4
    <3> QED BY <1>2, <1>6, <1>8, <1>10, <2>4, <3>1
  <2>5. CASE j > k + 1
    <3>1. /\ j - 1 \in 1..n /\ r[j] = w[j - 1] /\ j - 1 # k /\ j - 1 # 1 /\ j # 1
          /\ r[j - 1] = w[j - 1 - 1]
      BY <1>2, <1>3, <1>8, <2>5
    <3>2. pv2[r[j]] = w[j - 1 - 1]
      BY <1>6, <1>10, <3>1
    <3> QED BY <3>1, <3>2
  <2> QED BY <1>8, <2>2, <2>3, <2>4, <2>5
<1>14. Linked(nx2, wHead2, r)
  BY <1>3, <1>11, <1>12 DEF Linked
<1>15. Mirrored(pv2, r)
  BY <1>3, <1>13 DEF Mirrored
<1>16. Linked(nx2, sHead, s)
  <2>1. ASSUME NEW i \in 1..Len(s) PROVE nx2[s[i]] = nx[s[i]]
    <3>1. s[i] \in Task \ {t} /\ s[i] \in Elems(s)   BY <1>1, ElemsFacts
    <3>2. k > 1 => w[k - 1] \in Elems(w)   BY <1>2, <1>8
    <3> QED BY <1>0, <1>1, <3>1, <3>2
  <2> QED BY <1>1, <2>1, LinkedElsewhere
<1>17. TwoLists(nx2, pv2, wHead2, sHead, r, s)
  BY <1>0, <1>1, <1>3, <1>4, <1>14, <1>15, <1>16 DEF TwoLists
<1> QED BY <1>17 DEF r

\* mk_sched_removeWaitingTask: the first sleeper leaves.
LEMMA WaitingShrinks ==
    ASSUME NEW nx, NEW pv, NEW wHead, NEW sHead, NEW w, NEW s,
           TwoLists(nx, pv, wHead, sHead, w, s), w # <<>>,
           NEW pv2,
           pv2 = IF nx[wHead] = Nil THEN pv ELSE [pv EXCEPT ![nx[wHead]] = Nil]
    PROVE  TwoLists(nx, pv2, nx[wHead], sHead, Tail(w), s)
<1> DEFINE r == Tail(w)
           n == Len(r)
<1>1. /\ nx \in [Task -> Link] /\ pv \in [Task -> Link]
      /\ w \in Seq(Task) /\ Once(w) /\ Linked(nx, wHead, w) /\ Mirrored(pv, w)
      /\ s \in Seq(Task) /\ Once(s) /\ Linked(nx, sHead, s)
      /\ Elems(w) \cap Elems(s) = {}
  BY DEF TwoLists
<1>2. /\ r \in Seq(Task) /\ Len(w) = n + 1 /\ n \in Nat
      /\ \A i \in 1..n : r[i] = w[i + 1]
      /\ Elems(w) = Elems(r) \cup {Head(w)} /\ Once(r)
      /\ r = <<>> <=> n = 0
  BY <1>1, TailFacts, ListFacts
<1>3. /\ \A i \in 1..(n + 1) : w[i] \in Task /\ w[i] # Nil
      /\ \A i, j \in 1..(n + 1) : w[i] = w[j] => i = j
  BY <1>1, <1>2, ListFacts
<1> HIDE DEF r, n
<1>4. wHead = w[1]
  BY <1>1 DEF Linked
<1>5. \A i \in 1..(n + 1) : nx[w[i]] = IF i < n + 1 THEN w[i + 1] ELSE Nil
  BY <1>1, <1>2 DEF Linked
<1>6. nx[wHead] = IF n = 0 THEN Nil ELSE r[1]
  BY <1>2, <1>4, <1>5
<1>7. ASSUME NEW j \in 1..n PROVE nx[r[j]] = IF j < n THEN r[j + 1] ELSE Nil
  <2>1. j + 1 \in 1..(n + 1) /\ r[j] = w[j + 1]
    BY <1>2
  <2>2. nx[r[j]] = IF j + 1 < n + 1 THEN w[j + 1 + 1] ELSE Nil
    BY <1>5, <2>1
  <2>3. j < n => r[j + 1] = w[j + 1 + 1]
    BY <1>2
  <2> QED BY <1>2, <2>2, <2>3
<1>8. Linked(nx, nx[wHead], r)
  BY <1>2, <1>6, <1>7 DEF Linked, n
<1>9. pv2 \in [Task -> Link]
  BY <1>1 DEF Link
<1>10. ASSUME NEW j \in 1..n PROVE pv2[r[j]] = IF j = 1 THEN Nil ELSE r[j - 1]
  <2>1. j + 1 \in 1..(n + 1) /\ r[j] = w[j + 1] /\ r[1] = w[2] /\ 2 \in 1..(n + 1)
    BY <1>2
  <2>2. n # 0 /\ r[1] # Nil /\ r[1] \in Task /\ r[j] \in Task
    BY <1>3, <2>1
  <2>3. pv2 = [pv EXCEPT ![r[1]] = Nil]
    BY <1>6, <2>2
  <2>4. CASE j = 1
    BY <1>1, <2>2, <2>3, <2>4
  <2>5. CASE j # 1
    <3>1. r[j] # r[1]
      BY <1>3, <2>1, <2>5
    <3>2. pv2[r[j]] = pv[w[j + 1]]
      BY <1>1, <2>1, <2>2, <2>3, <3>1
    <3>3. pv[w[j + 1]] = w[j + 1 - 1]
      BY <1>1, <1>2, <2>1, <2>5 DEF Mirrored
    <3>4. r[j - 1] = w[j - 1 + 1] /\ j + 1 - 1 = j - 1 + 1
      BY <1>2, <2>5
    <3> QED BY <2>5, <3>2, <3>3, <3>4
  <2> QED BY <2>4, <2>5
<1>11. Mirrored(pv2, r)
  BY <1>10 DEF Mirrored, n
<1>12. Elems(r) \cap Elems(s) = {}
  BY <1>1, <1>2
<1>13. TwoLists(nx, pv2, nx[wHead], sHead, r, s)
  BY <1>1, <1>2, <1>8, <1>9, <1>11, <1>12 DEF TwoLists
<1> QED BY <1>13 DEF r
-----------------------------------------------------------------------------
(* The rotation of a ready queue.                                          *)

\* p is the place of t in q, if it has one.
PlaceOf(q, t, p) ==
    /\ p \in 1..(Len(q) + 1)
    /\ \A i \in 1..Len(q) : q[i] = t <=> i = p

\* r is q when its first i have been popped and pushed again, without the
\* one at place p.
Turned(r, q, i, p) ==
    LET n == Len(q)
        m == IF p <= i THEN i - 1 ELSE i     \* pushed again
    IN  /\ r \in Seq(Task) /\ Len(r) = n - i + m
        /\ \A j \in 1..(n - i) : r[j] = q[i + j]
        /\ \A j \in 1..m : r[n - i + j] = IF j < p THEN q[j] ELSE q[j + 1]

LEMMA PlaceExists ==
    ASSUME NEW q \in Seq(Task), Once(q), NEW t
    PROVE  \E p \in Nat : PlaceOf(q, t, p)
<1>1. Len(q) \in Nat /\ \A i, j \in 1..Len(q) : q[i] = q[j] => i = j
  BY ListFacts
<1>2. CASE \E i \in 1..Len(q) : q[i] = t
  <2>1. PICK i \in 1..Len(q) : q[i] = t   BY <1>2
  <2>2. PlaceOf(q, t, i)   BY <1>1, <2>1 DEF PlaceOf
  <2> QED BY <1>1, <2>1, <2>2
<1>3. CASE ~ \E i \in 1..Len(q) : q[i] = t
  <2>1. PlaceOf(q, t, Len(q) + 1)   BY <1>1, <1>3 DEF PlaceOf
  <2> QED BY <1>1, <2>1
<1> QED BY <1>2, <1>3

LEMMA TurnedStart ==
    ASSUME NEW q \in Seq(Task), NEW p \in Nat, p >= 1
    PROVE  Turned(q, q, 0, p)
BY DEF Turned

\* The pop takes the next of q, and unless that is the target the push puts
\* it at the end.
LEMMA TurnedPop ==
    ASSUME NEW q \in Seq(Task), NEW r, NEW i \in 0..(Len(q) - 1), NEW p \in Nat,
           NEW t, PlaceOf(q, t, p), Turned(r, q, i, p)
    PROVE  /\ r # <<>> /\ Head(r) \in Task /\ Tail(r) \in Seq(Task)
           /\ Head(r) = t => Turned(Tail(r), q, i + 1, p)
           /\ Head(r) # t => Turned(Append(Tail(r), Head(r)), q, i + 1, p)
<1> DEFINE n == Len(q)
           m == IF p <= i THEN i - 1 ELSE i
           h == Head(r)
           s == Tail(r)
           a == Append(s, h)
<1>1. /\ n \in Nat /\ i \in Nat /\ i < n
      /\ p \in 1..(n + 1) /\ \A j \in 1..n : q[j] = t <=> j = p
  BY DEF PlaceOf
<1>2. /\ r \in Seq(Task) /\ Len(r) = n - i + m
      /\ \A j \in 1..(n - i) : r[j] = q[i + j]
      /\ \A j \in 1..m : r[n - i + j] = IF j < p THEN q[j] ELSE q[j + 1]
  BY DEF Turned
<1>3. m \in Nat /\ (p <= i => m = i - 1) /\ (p > i => m = i)
  BY <1>1
<1> HIDE DEF n, m
<1>4. r # <<>>
  BY <1>1, <1>2, <1>3
<1>5. /\ h \in Task /\ s \in Seq(Task) /\ Len(s) = n - i + m - 1
      /\ h = r[1] /\ \A j \in 1..(n - i + m - 1) : s[j] = r[j + 1]
  BY <1>1, <1>2, <1>3, <1>4
<1> HIDE DEF h, s
<1>6. h = q[i + 1]
  BY <1>1, <1>2, <1>5
<1>7. h = t <=> p = i + 1
  BY <1>1, <1>6
<1>8. \A j \in 1..(n - (i + 1)) : s[j] = q[i + 1 + j]
  <2> SUFFICES ASSUME NEW j \in 1..(n - (i + 1)) PROVE s[j] = q[i + 1 + j]
    OBVIOUS
  <2>1. j + 1 \in 1..(n - i) /\ j \in 1..(n - i + m - 1) /\ i + (j + 1) = i + 1 + j
    BY <1>1, <1>3
  <2>2. r[j + 1] = q[i + (j + 1)]
    BY <1>2, <2>1
  <2> QED BY <1>5, <2>1, <2>2
<1>9. \A j \in 1..m : s[n - (i + 1) + j] = IF j < p THEN q[j] ELSE q[j + 1]
  <2> SUFFICES ASSUME NEW j \in 1..m
               PROVE  s[n - (i + 1) + j] = IF j < p THEN q[j] ELSE q[j + 1]
    OBVIOUS
  <2>1. /\ n - (i + 1) + j \in 1..(n - i + m - 1)
        /\ n - (i + 1) + j + 1 = n - i + j
    BY <1>1, <1>3
  <2>2. s[n - (i + 1) + j] = r[n - i + j]
    BY <1>5, <2>1
  <2> QED BY <1>2, <2>2
<1>10. ASSUME h = t PROVE Turned(s, q, i + 1, p)
  <2>1. p = i + 1 /\ m = i /\ p <= i + 1 /\ i + 1 - 1 = m
    BY <1>1, <1>3, <1>7, <1>10
  <2>2. Len(s) = n - (i + 1) + (i + 1 - 1)
    BY <1>1, <1>5, <2>1
  <2> QED BY <1>5, <1>8, <1>9, <2>1, <2>2 DEF Turned, n
<1>11. ASSUME h # t PROVE Turned(a, q, i + 1, p)
  <2>1. p # i + 1
    BY <1>7, <1>11
  <2> DEFINE m2 == IF p <= i + 1 THEN i + 1 - 1 ELSE i + 1
  <2>2. m2 = m + 1
    BY <1>1, <1>3, <2>1
  <2>3. /\ a \in Seq(Task) /\ Len(a) = n - i + m
        /\ \A j \in 1..(n - i + m - 1) : a[j] = s[j]
        /\ a[n - i + m] = h
    BY <1>1, <1>3, <1>5
  <2> HIDE DEF a, m2
  <2>4. \A j \in 1..(n - (i + 1)) : a[j] = q[i + 1 + j]
    BY <1>1, <1>3, <1>8, <2>3
  <2>5. ASSUME NEW j \in 1..(m + 1)
        PROVE  a[n - (i + 1) + j] = IF j < p THEN q[j] ELSE q[j + 1]
    <3>1. CASE j <= m
      <4>1. n - (i + 1) + j \in 1..(n - i + m - 1) /\ j \in 1..m
        BY <1>1, <1>3, <3>1
      <4>2. a[n - (i + 1) + j] = s[n - (i + 1) + j]
        BY <2>3, <4>1
      <4> QED BY <1>9, <4>1, <4>2
    <3>2. CASE j = m + 1
      <4>1. n - (i + 1) + j = n - i + m
        BY <1>1, <1>3, <3>2
      <4>2. a[n - (i + 1) + j] = q[i + 1]
        BY <1>6, <2>3, <4>1
      <4>3. CASE p <= i
        <5>1. j = i /\ ~(j < p)   BY <1>1, <1>3, <3>2, <4>3
        <5> QED BY <4>2, <5>1
      <4>4. CASE p > i
        <5>1. j = i + 1 /\ j < p   BY <1>1, <1>3, <2>1, <3>2, <4>4
        <5> QED BY <4>2, <5>1
      <4> QED BY <1>1, <4>3, <4>4
    <3> QED BY <1>3, <3>1, <3>2
  <2>6. Len(a) = n - (i + 1) + m2
    BY <1>1, <1>3, <2>2, <2>3
  <2> QED BY <2>2, <2>3, <2>4, <2>5, <2>6 DEF Turned, n, m2
<1> QED BY <1>4, <1>5, <1>10, <1>11 DEF h, s

\* There is room for the push.
LEMMA TurnedFits ==
    ASSUME NEW q \in Seq(Task), Once(q), NEW r \in Seq(Task), NEW h \in Task,
           NEW i \in 0..Len(q), NEW p \in Nat, Turned(Append(r, h), q, i, p)
    PROVE  Len(r) < MaxTasks
<1>1. Len(q) \in Nat /\ Len(q) <= MaxTasks /\ MaxTasks \in Nat
  BY NoLongerThanPool, TaskFacts
<1>2. Len(Append(r, h)) = Len(r) + 1 /\ Len(r) \in Nat
  OBVIOUS
<1>3. Len(Append(r, h)) <= Len(q)
  BY <1>1 DEF Turned
<1> QED BY <1>1, <1>2, <1>3

\* After the whole round the queue is what MkKernel says it is.
LEMMA TurnedRound ==
    ASSUME NEW q \in Seq(Task), NEW r, NEW t, NEW p \in Nat,
           PlaceOf(q, t, p), Turned(r, q, Len(q), p)
    PROVE  r = K!Without(q, t)
<1> DEFINE n == Len(q)
<1>1. /\ n \in Nat /\ DOMAIN q = 1..n
      /\ p \in 1..(n + 1) /\ \A j \in 1..n : q[j] = t <=> j = p
  BY DEF PlaceOf
<1> DEFINE m == IF p <= n THEN n - 1 ELSE n
<1>0. /\ r \in Seq(Task) /\ Len(r) = n - n + m
      /\ \A j \in 1..m : r[n - n + j] = IF j < p THEN q[j] ELSE q[j + 1]
  BY DEF Turned
<1> HIDE DEF m
<1>2. CASE p = n + 1
  <2>1. r \in Seq(Task) /\ Len(r) = n /\ \A j \in 1..n : r[j] = q[j]
    <3> HIDE DEF n
    <3>1. m = n   BY <1>1, <1>2 DEF m
    <3> QED BY <1>0, <1>1, <1>2, <3>1
  <2>2. r = q
    BY <1>1, <2>1, SeqEqual
  <2>3. ~ \E j \in DOMAIN q : q[j] = t
    BY <1>1, <1>2
  <2> QED BY <2>2, <2>3, Zenon DEF K!Without
<1>3. CASE p \in 1..n
  <2>1. r \in Seq(Task) /\ Len(r) = n - 1
        /\ \A j \in 1..(n - 1) : r[j] = IF j < p THEN q[j] ELSE q[j + 1]
    <3> HIDE DEF n
    <3>1. m = n - 1   BY <1>1, <1>3 DEF m
    <3> QED BY <1>0, <1>1, <3>1
  <2>2. /\ RemoveAt(q, p) \in Seq(Task) /\ Len(RemoveAt(q, p)) = n - 1
        /\ \A j \in 1..(n - 1) :
             RemoveAt(q, p)[j] = IF j < p THEN q[j] ELSE q[j + 1]
    BY <1>3, RemoveAtPositions
  <2>3. r = RemoveAt(q, p)
    <3> DEFINE e == RemoveAt(q, p)
    <3> HIDE DEF e
    <3>1. \A j \in 1..Len(r) : r[j] = e[j]
      BY <2>1, <2>2 DEF e
    <3>2. Len(r) = Len(e) /\ e \in Seq(Task)
      BY <2>1, <2>2 DEF e
    <3>3. r = e
      BY <2>1, <3>1, <3>2, SeqEqual
    <3> QED BY <3>3 DEF e
  <2> DEFINE k == CHOOSE j \in DOMAIN q : q[j] = t
  <2>4. k \in DOMAIN q /\ q[k] = t
    BY <1>1, <1>3
  <2> HIDE DEF k
  <2>5. k = p
    BY <1>1, <2>4
  <2>6. \E j \in DOMAIN q : q[j] = t
    BY <2>4, Zenon
  <2>7. K!Without(q, t) = K!RemoveAt(q, k)
    BY <2>6, Zenon DEF K!Without, k
  <2>8. K!RemoveAt(q, p) = RemoveAt(q, p)
    BY DEF K!RemoveAt, RemoveAt
  <2> QED BY <2>3, <2>5, <2>7, <2>8, Zenon
<1> QED BY <1>1, <1>2, <1>3
-----------------------------------------------------------------------------
(* The inductive invariant.                                                *)

\* MkKernel as it is seen from outside a call, with what is proved of it.
P == INSTANCE MkKernel_proofs WITH
    state <- Seen.state, timeLeft <- Seen.timeLeft, wakeTime <- Seen.wakeTime,
    readyTasks <- Seen.readyTasks, bitmap <- Seen.bitmap,
    waitingTasks <- Seen.waitingTasks, stoppedTasks <- Seen.stoppedTasks

Yield == [pc |-> "ask", target |-> Nil]

Removing == {"pop", "push", "store", "block"}
Listing  == {"head", "walk", "stop", "ask"}

BlockingCall ==
    [pc : Removing \cup Listing, op : {"wait", "stop"}, target : Task,
     left : Nat, handle : Link, bits : SUBSET K!Level, cur : Link,
     before : Link]

\* How the queue r of the target's level p, its queue q when the call M began,
\* and the bitmap and what it was then are related.
Queue(M, p, q, r, bits, bitsWere) ==
    /\ M.pc = "pop" =>
         /\ bits = bitsWere /\ M.left <= Len(q)
         /\ \E k \in Nat : /\ PlaceOf(q, M.target, k)
                           /\ Turned(r, q, Len(q) - M.left, k)
    /\ M.pc = "push" =>
         /\ bits = bitsWere /\ M.left <= Len(q)
         /\ M.handle \in Task /\ r \in Seq(Task)
         /\ \E k \in Nat : /\ PlaceOf(q, M.target, k)
                           /\ Turned(Append(r, M.handle), q, Len(q) - M.left, k)
    /\ M.pc = "store" =>
         /\ bits = bitsWere /\ M.bits = bits
         /\ r = <<>> /\ K!Without(q, M.target) = <<>>
    /\ M.pc \notin {"pop", "push", "store"} =>
         /\ r = K!Without(q, M.target)
         /\ bits = IF r = <<>> THEN bitsWere \ {p} ELSE bitsWere

\* Where the walk along w has come to, with the wake times wt.
Walked(M, w, wt) ==
    \E k \in 1..(Len(w) + 1) :
        /\ w # <<>>
        /\ M.cur = IF k <= Len(w) THEN w[k] ELSE Nil
        /\ k > 1 => M.before = w[k - 1]
        /\ \A j \in 1..(k - 1) : wt[w[j]] <= wt[M.target]

\* What the lists w and s of before the call have become.
Listed(M, w, s, wt, w2, s2) ==
    /\ M.pc # "ask" => w2 = w /\ s2 = s
    /\ M.pc = "ask" /\ M.op = "wait" =>
         /\ s2 = s
         /\ \E k \in 1..(Len(w) + 1) :
              /\ \A j \in 1..(k - 1) : wt[w[j]] <= wt[M.target]
              /\ k <= Len(w) => wt[M.target] < wt[w[k]]
              /\ w2 = InsertAt(w, k, M.target)
    /\ M.pc = "ask" /\ M.op = "stop" => w2 = w /\ s2 = InsertAt(s, 1, M.target)

\* Who is named, and until when it shall wait.
Asked(M, o) ==
    /\ o.state[M.target] = "READY"
    /\ timeLeft = o.timeLeft
    /\ \E id \in K!TaskIDs : K!mk_task_getTaskByID(id, M.target)
    /\ M.op = "stop" => wakeTime = o.wakeTime
    /\ M.op = "wait" =>
         \E d \in WaitTimes :
            wakeTime = [o.wakeTime EXCEPT ![M.target] = (tickCount + d) % TickMod]

StateIn(M, was) ==
    IF M.pc \in Removing THEN was
    ELSE [was EXCEPT ![M.target] = IF M.op = "wait" THEN "WAITING" ELSE "STOPPED"]

\* What a call M that began in the state o has done so far.
Blocking(M, o) ==
    LET p == priority[M.target]
    IN  /\ M \in BlockingCall
        /\ M.op = "wait" => M.pc # "stop"
        /\ M.op = "stop" => M.pc \notin {"head", "walk"}
        /\ Asked(M, o)
        /\ state = StateIn(M, o.state)
        /\ readyTasks = [o.readyTasks EXCEPT ![p] = readyTasks[p]]
        /\ Queue(M, p, o.readyTasks[p], readyTasks[p], bitmap, o.bitmap)
        /\ M.pc = "walk" => Walked(M, o.waitingTasks, wakeTime)
        /\ Listed(M, o.waitingTasks, o.stoppedTasks, wakeTime,
                  Chain(waitingHead), Chain(stoppedHead))

Yielding(M, o) ==
    /\ M = Yield
    /\ \E id \in K!TaskIDs, h \in K!Handle :
         /\ K!mk_task_getTaskByID(id, h)
         /\ timeLeft = [o.timeLeft EXCEPT ![h] = 0]
    /\ o.state = state /\ o.wakeTime = wakeTime /\ o.readyTasks = readyTasks
    /\ o.bitmap = bitmap /\ o.waitingTasks = Chain(waitingHead)
    /\ o.stoppedTasks = Chain(stoppedHead)

\* Nobody but the current task is in a call, and it has the CPU to itself.
OneCaller ==
    /\ call = [t \in Task |-> call[t]]
    /\ \A c \in Task : call[c] # NoCall => c = currentTask /\ K!ClientRuns

ListsRight ==
    TwoLists(next, prev, waitingHead, stoppedHead, Chain(waitingHead),
             Chain(stoppedHead))

Progress == InCall => Blocking(Me, outside) \/ Yielding(Me, outside)

CallsOK == OneCaller /\ ListsRight /\ Progress

CallsInv == P!KernelInv /\ CallsOK

\* The assumption of the section: interrupts are off during a call, and the
\* task that is named is READY.
Disciplined == Masked /\ TargetStates \subseteq {"READY"}

-----------------------------------------------------------------------------
(* What is seen from outside.                                              *)

\* Outside a call the state is seen as it is.
Plain ==
    /\ Seen.state = state /\ Seen.timeLeft = timeLeft
    /\ Seen.wakeTime = wakeTime /\ Seen.readyTasks = readyTasks
    /\ Seen.bitmap = bitmap /\ Seen.waitingTasks = Chain(waitingHead)
    /\ Seen.stoppedTasks = Chain(stoppedHead)

LEMMA SeenFacts == (~InCall => Plain) /\ (InCall => Seen = outside)
BY DEF Plain, Seen, Snapshot

LEMMA SeenFactsNext == (~InCall' => Plain') /\ (InCall' => Seen' = outside')
BY DEF Plain, Seen, Snapshot

\* The parts of P!KernelInv that are used, for the definitions of this module.
LEMMA SeenTyped ==
    ASSUME P!KernelInv
    PROVE  /\ currentTask \in K!Handle \cup {K!NoTask}
           /\ priority \in [K!Handle -> K!Level]
           /\ Seen.state \in [K!Handle -> K!TaskState]
           /\ Seen.timeLeft \in [K!Handle -> 0..TimeSlice]
           /\ Seen.wakeTime \in [K!Handle -> 0..(TickMod - 1)]
           /\ Seen.readyTasks \in [K!Level -> Seq(Task)]
           /\ Seen.bitmap \subseteq K!Level
           /\ Seen.waitingTasks \in Seq(Task) /\ Seen.stoppedTasks \in Seq(Task)
<1>1. P!TypeOK
  BY DEF P!KernelInv
<1>2. P!Task = Task /\ P!Level = K!Level /\ P!Handle = K!Handle
      /\ P!TaskState = K!TaskState /\ P!NoTask = K!NoTask
  BY DEF P!Task, Task, K!Task, P!Level, K!Level, P!Handle, K!Handle, P!TaskState,
         K!TaskState, P!NoTask, K!NoTask
<1> QED BY <1>1, <1>2, Zenon DEF P!TypeOK

LEMMA SeenOnce ==
    ASSUME P!KernelInv
    PROVE  /\ \A p \in K!Level : Once(Seen.readyTasks[p])
           /\ \A t \in Elems(Seen.waitingTasks) : Seen.state[t] = "WAITING"
           /\ \A t \in Elems(Seen.stoppedTasks) : Seen.state[t] = "STOPPED"
<1>1. P!ScheduledOnce
  BY DEF P!KernelInv
<1>2. \A q : (P!Once(q) <=> Once(q)) /\ P!Elems(q) = Elems(q)
  BY DEF P!Once, Once, P!Elems, Elems
<1>3. P!Level = K!Level
  BY DEF P!Level, K!Level
<1> QED BY <1>1, <1>2, <1>3, Zenon DEF P!ScheduledOnce

\* The lists are two lists again, and Chain finds them.
LEMMA ListsBecome ==
    ASSUME NEW w, NEW s,
           TwoLists(next', prev', waitingHead', stoppedHead', w, s)
    PROVE  ListsRight' /\ Chain(waitingHead)' = w /\ Chain(stoppedHead)' = s
<1>1. ChainOf(next', waitingHead') = w /\ ChainOf(next', stoppedHead') = s
  BY ChainFacts DEF TwoLists
<1>2. Chain(waitingHead)' = w /\ Chain(stoppedHead)' = s
  BY <1>1, ChainIsOf
<1>3. TwoLists(next', prev', waitingHead', stoppedHead', Chain(waitingHead)',
               Chain(stoppedHead)')
  BY <1>2
<1> QED BY <1>2, <1>3 DEF ListsRight

LEMMA ListsSame ==
    ASSUME ListsRight, UNCHANGED links
    PROVE  /\ ListsRight' /\ Chain(waitingHead)' = Chain(waitingHead)
           /\ Chain(stoppedHead)' = Chain(stoppedHead)
BY DEF ListsRight, links, Chain

\* A call by the current task is the only one.
LEMMA CallerFacts ==
    ASSUME OneCaller, Disciplined
    PROVE  /\ InCall => K!ClientRuns /\ currentTask \in Task /\ Me # NoCall
           /\ K!ClientRuns /\ Me = NoCall => ~InCall
           /\ InCall => started /\ ~pendSV /\ ~inTick /\ ~InterruptsOn
BY DEF OneCaller, Disciplined, InCall, Me, K!ClientRuns, InterruptsOn, Task

-----------------------------------------------------------------------------
(* Steps outside a call: those of MkKernel.                                *)

LEMMA SamePendSV ==
    ASSUME Plain, Plain', K!PendSV_Handler
    PROVE  P!PendSV_Handler
BY DEF Plain, K!PendSV_Handler, P!PendSV_Handler, K!mk_sched_getNextTask,
       P!mk_sched_getNextTask, K!RunIdle, P!RunIdle, K!KeepCurrent, P!KeepCurrent,
       K!SwitchTo, P!SwitchTo, K!IsHighest, P!IsHighest, K!ShouldSwitch,
       P!ShouldSwitch, K!Pushed, P!Pushed, K!BitSet, P!BitSet, K!HasRoom, P!HasRoom,
       K!boot, P!boot, K!handler, P!handler, K!Idle, P!Idle

LEMMA SameStart ==
    ASSUME Plain, Plain', K!mk_startKernel
    PROVE  P!mk_startKernel
BY DEF Plain, K!mk_startKernel, P!mk_startKernel, K!mk_sched_getNextTask,
       P!mk_sched_getNextTask, K!RunIdle, P!RunIdle, K!KeepCurrent, P!KeepCurrent,
       K!SwitchTo, P!SwitchTo, K!IsHighest, P!IsHighest, K!ShouldSwitch,
       P!ShouldSwitch, K!Pushed, P!Pushed, K!BitSet, P!BitSet, K!HasRoom, P!HasRoom,
       K!handler, P!handler, K!Idle, P!Idle

LEMMA SameInitKernel ==
    ASSUME Plain, Plain', K!mk_initKernel
    PROVE  P!mk_initKernel
BY DEF Plain, K!mk_initKernel, P!mk_initKernel, K!Idle, P!Idle, K!Task, P!Task,
       K!Level, P!Level, K!handler, P!handler

LEMMA SameCreate ==
    ASSUME Plain, Plain', NEW p, K!mk_createTask(p)
    PROVE  P!mk_createTask(p)
BY DEF Plain, K!mk_createTask, P!mk_createTask, K!ClientRuns, P!ClientRuns,
       K!Task, P!Task, K!mk_sched_addReadyTask, P!mk_sched_addReadyTask, K!Pushed,
       P!Pushed, K!BitSet, P!BitSet, K!HasRoom, P!HasRoom, K!boot, P!boot,
       K!handler, P!handler

LEMMA SameTick ==
    ASSUME Plain, Plain'
    PROVE  /\ K!SysTickEnter => P!SysTickEnter
           /\ K!SysTickExit => P!SysTickExit
<1>1. K!SysTickEnter => P!SysTickEnter
  BY DEF Plain, K!SysTickEnter, P!SysTickEnter, K!boot, P!boot, K!tcb, P!tcb,
         K!sched, P!sched
<1>2. K!SysTickExit => P!SysTickExit
  BY DEF Plain, K!SysTickExit, P!SysTickExit, K!SleeperDue, P!SleeperDue,
         K!SliceAfterTick, P!SliceAfterTick, K!boot, P!boot, K!sched, P!sched
<1> QED BY <1>1, <1>2

\* Nobody is in a call before or after a step that begins none.
LEMMA OutsideStep ==
    ASSUME OneCaller, ~InCall, UNCHANGED call
    PROVE  ~InCall' /\ OneCaller' /\ Progress' /\ Plain /\ Plain'
<1>1. ~InCall'
  BY DEF InCall
<1>2. OneCaller'
  BY DEF OneCaller, InCall
<1> QED BY <1>1, <1>2, SeenFacts, SeenFactsNext DEF Progress

\* Where the call steps of MkKernel are not concerned, every step outside a
\* call is one of MkKernel.
LEMMA KernelSteps ==
    ASSUME CallsInv, Disciplined,
           \/ mk_startKernel \/ PendSV_Handler
           \/ \E p \in K!Level : mk_createTask(p)
           \/ InterruptsOn /\ UNCHANGED <<links, call>> /\ K!SysTickEnter
           \/ UNCHANGED <<links, call>> /\ K!SysTickExit
    PROVE  CallsOK' /\ P!Next
<1>0. OneCaller /\ ListsRight
  BY DEF CallsInv, CallsOK
<1>1. ~InCall /\ UNCHANGED <<links, call>>
  <2>1. InCall => started /\ ~pendSV /\ ~inTick /\ ~InterruptsOn
        /\ currentTask \in Task /\ Me # NoCall
    BY <1>0, CallerFacts
  <2>2. CASE mk_startKernel
    BY <2>1, <2>2 DEF mk_startKernel, K!mk_startKernel
  <2>3. CASE PendSV_Handler
    BY <2>1, <2>3 DEF PendSV_Handler, K!PendSV_Handler
  <2>4. ASSUME NEW p \in K!Level, mk_createTask(p)
        PROVE  ~InCall /\ UNCHANGED <<links, call>>
    BY <2>1, <2>4 DEF mk_createTask
  <2>5. CASE InterruptsOn /\ UNCHANGED <<links, call>> /\ K!SysTickEnter
    BY <2>1, <2>5
  <2>6. CASE UNCHANGED <<links, call>> /\ K!SysTickExit
    BY <2>1, <2>6 DEF K!SysTickExit
  <2> QED BY <2>2, <2>3, <2>4, <2>5, <2>6
<1>2. OneCaller' /\ Progress' /\ Plain /\ Plain'
  BY <1>0, <1>1, OutsideStep
<1>3. ListsRight'
  BY <1>0, <1>1, ListsSame
<1>4. P!Next
  <2>1. CASE mk_startKernel
    BY <1>2, <2>1, SameStart DEF mk_startKernel, P!Next, P!KernelCall
  <2>2. CASE PendSV_Handler
    BY <1>2, <2>2, SamePendSV DEF PendSV_Handler, P!Next
  <2>3. ASSUME NEW p \in K!Level, mk_createTask(p) PROVE P!Next
    <3>1. P!mk_createTask(p)
      BY <1>2, <2>3, SameCreate DEF mk_createTask
    <3> QED BY <3>1 DEF P!Next, P!KernelCall, P!Level, K!Level
  <2>4. CASE K!SysTickEnter
    BY <1>2, <2>4, SameTick DEF P!Next, P!SysTick_Handler
  <2>5. CASE K!SysTickExit
    BY <1>2, <2>5, SameTick DEF P!Next, P!SysTick_Handler
  <2> QED BY <2>1, <2>2, <2>3, <2>4, <2>5
<1> QED BY <1>2, <1>3, <1>4 DEF CallsOK

\* Two empty lists.
LEMMA NoLinks ==
    ASSUME NEW nx, NEW pv, nx = [t \in Task |-> Nil], pv = [t \in Task |-> Nil]
    PROVE  TwoLists(nx, pv, Nil, Nil, <<>>, <<>>)
<1>1. <<>> \in Seq(Task) /\ Once(<<>>) /\ Elems(<<>>) = {} /\ Len(<<>>) = 0
  BY DEF Once, Elems
<1>2. nx \in [Task -> Link] /\ pv \in [Task -> Link]
  BY DEF Link
<1> QED BY <1>1, <1>2 DEF TwoLists, Linked, Mirrored

LEMMA InitKernelStep ==
    ASSUME CallsInv, Disciplined, mk_initKernel
    PROVE  CallsOK' /\ P!Next
<1>0. OneCaller
  BY DEF CallsInv, CallsOK
<1>1. ~InCall /\ UNCHANGED call
  BY <1>0, CallerFacts DEF mk_initKernel, K!mk_initKernel
<1>2. OneCaller' /\ Progress' /\ Plain /\ Plain'
  BY <1>0, <1>1, OutsideStep
<1>3. TwoLists(next', prev', waitingHead', stoppedHead', <<>>, <<>>)
  BY NoLinks DEF mk_initKernel
<1>4. ListsRight'
  BY <1>3, ListsBecome
<1>5. P!mk_initKernel
  BY <1>2, SameInitKernel DEF mk_initKernel
<1> QED BY <1>2, <1>4, <1>5 DEF CallsOK, P!Next, P!KernelCall

\* The tick wakes the first sleeper.
LEMMA WakeTaskStep ==
    ASSUME CallsInv, Disciplined, WakeTask
    PROVE  CallsOK' /\ P!Next
<1> DEFINE w == Chain(waitingHead)
           s == Chain(stoppedHead)
<1>0. OneCaller /\ ListsRight
  BY DEF CallsInv, CallsOK
<1>1. ~InCall /\ UNCHANGED call
  BY <1>0, CallerFacts DEF WakeTask
<1>2. OneCaller' /\ Progress' /\ Plain /\ Plain'
  BY <1>0, <1>1, OutsideStep
<1>3. TwoLists(next, prev, waitingHead, stoppedHead, w, s)
  BY <1>0 DEF ListsRight
<1>4. w # <<>> /\ waitingHead = Head(w) /\ w \in Seq(Task)
  <2>1. waitingHead # Nil
    BY DEF WakeTask
  <2>2. w \in Seq(Task) /\ Linked(next, waitingHead, w)
    BY <1>3 DEF TwoLists
  <2> HIDE DEF w
  <2> QED BY <2>1, <2>2 DEF Linked
<1>5. /\ waitingHead' = next[waitingHead] /\ UNCHANGED <<stoppedHead, next>>
      /\ prev' = IF next[waitingHead] = Nil THEN prev
                 ELSE [prev EXCEPT ![next[waitingHead]] = Nil]
  BY DEF WakeTask, mk_sched_removeWaitingTask
<1>6. TwoLists(next', prev', waitingHead', stoppedHead', Tail(w), s)
  <2> HIDE DEF w, s
  <2>1. TwoLists(next, prev', next[waitingHead], stoppedHead, Tail(w), s)
    BY <1>3, <1>4, <1>5, WaitingShrinks
  <2> QED BY <1>5, <2>1
<1>7. ListsRight' /\ Chain(waitingHead)' = Tail(w) /\ Chain(stoppedHead)' = s
  <2> HIDE DEF w, s
  <2>1. \A x, y : x = Tail(w) /\ y = s =>
           (TwoLists(next', prev', waitingHead', stoppedHead', x, y)
              => ListsRight' /\ Chain(waitingHead)' = x /\ Chain(stoppedHead)' = y)
    BY ListsBecome
  <2> QED BY <1>6, <2>1
<1>8. P!WakeTask
  <2> HIDE DEF w, s
  <2>1. /\ Seen.waitingTasks = w /\ Seen.waitingTasks' = Tail(w)
        /\ Seen.stoppedTasks = s /\ Seen.stoppedTasks' = s
    BY <1>2, <1>7 DEF Plain, w, s
  <2> QED
    BY <1>2, <1>4, <2>1 DEF Plain, WakeTask, P!WakeTask, P!SleeperDue, K!Preempts,
       P!Preempts, K!mk_sched_addReadyTask, P!mk_sched_addReadyTask, K!Pushed,
       P!Pushed, K!BitSet, P!BitSet, K!HasRoom, P!HasRoom, P!boot
<1> QED BY <1>2, <1>7, <1>8 DEF CallsOK, P!Next, P!SysTick_Handler
-----------------------------------------------------------------------------
(* Steps inside a call: none of them is seen from outside.                 *)

LEMMA InsideFacts ==
    ASSUME OneCaller, Disciplined, Remember, K!ClientRuns, Me # NoCall, NEW M2,
           M2 # NoCall, call' = [call EXCEPT ![currentTask] = M2],
           UNCHANGED <<still, pendSV>>
    PROVE  /\ InCall /\ InCall' /\ outside' = outside /\ Me' = M2
           /\ OneCaller' /\ UNCHANGED P!vars
<1>1. currentTask \in Task /\ currentTask' = currentTask
  BY DEF K!ClientRuns, Task, still
<1>2. call' = [t \in Task |-> IF t = currentTask THEN M2 ELSE call[t]]
  BY DEF OneCaller
<1>3. Me' = M2
  BY <1>1, <1>2 DEF Me
<1>4. InCall
  BY <1>1 DEF InCall, Me
<1>5. InCall'
  <2>1. call'[currentTask] # NoCall   BY <1>1, <1>2
  <2> QED BY <1>1, <2>1 DEF InCall
<1>6. outside' = outside
  BY <1>4, <1>5 DEF Remember
<1>7. OneCaller'
  <2>1. K!ClientRuns'
    BY <1>1 DEF K!ClientRuns, still
  <2>2. ASSUME NEW c \in Task, call'[c] # NoCall PROVE c = currentTask
    BY <1>2, <2>2 DEF OneCaller
  <2> QED BY <1>1, <1>2, <2>1, <2>2 DEF OneCaller
<1>8. Seen' = Seen
  BY <1>4, <1>5, <1>6, SeenFacts, SeenFactsNext
<1>9. UNCHANGED P!vars
  BY <1>8 DEF still, P!vars, P!boot, P!tcb, P!sched, P!handler
<1> QED BY <1>3, <1>4, <1>5, <1>6, <1>7, <1>9

\* What is known of a wait or a stop M that began in the state o.
CallFacts(M, o) ==
    LET t == M.target  p == priority[M.target]
    IN  /\ M = Me /\ o = outside /\ M \in BlockingCall /\ M # NoCall
        /\ t \in Task /\ p \in K!Level /\ Blocking(M, o)
        /\ o.state \in [K!Handle -> K!TaskState]
        /\ o.wakeTime \in [K!Handle -> 0..(TickMod - 1)]
        /\ o.readyTasks \in [K!Level -> Seq(Task)]
        /\ o.bitmap \subseteq K!Level
        /\ o.readyTasks[p] \in Seq(Task) /\ Once(o.readyTasks[p])
        /\ o.waitingTasks \in Seq(Task) /\ t \notin Elems(o.waitingTasks)
        /\ o.stoppedTasks \in Seq(Task) /\ t \notin Elems(o.stoppedTasks)

LEMMA CallHasFacts ==
    ASSUME CallsInv, Disciplined, K!ClientRuns, Me # NoCall, Me # Yield
    PROVE  \E M, o : CallFacts(M, o)
<1>1. P!KernelInv /\ OneCaller /\ Progress
  BY DEF CallsInv, CallsOK
<1>2. InCall
  BY <1>1 DEF InCall, Me, K!ClientRuns, Task
<1>3. Blocking(Me, outside)
  BY <1>1, <1>2 DEF Progress, Yielding
<1>4. Seen = outside
  BY <1>2, SeenFacts
<1>5. \E M, o : M = Me /\ o = outside
  OBVIOUS
<1>6. PICK M, o : M = Me /\ o = outside
  BY <1>5
<1>7. Blocking(M, o)
  BY <1>3, <1>6
<1>8. M \in BlockingCall /\ M.target \in Task /\ o.state[M.target] = "READY"
  BY <1>7 DEF Blocking, BlockingCall, Asked
<1>9. /\ priority \in [K!Handle -> K!Level]
      /\ o.state \in [K!Handle -> K!TaskState]
      /\ o.wakeTime \in [K!Handle -> 0..(TickMod - 1)]
      /\ o.readyTasks \in [K!Level -> Seq(Task)]
      /\ o.bitmap \subseteq K!Level
      /\ o.waitingTasks \in Seq(Task) /\ o.stoppedTasks \in Seq(Task)
  BY <1>1, <1>4, <1>6, SeenTyped
<1>10. /\ \A p \in K!Level : Once(o.readyTasks[p])
       /\ \A t \in Elems(o.waitingTasks) : o.state[t] = "WAITING"
       /\ \A t \in Elems(o.stoppedTasks) : o.state[t] = "STOPPED"
  BY <1>1, <1>4, <1>6, SeenOnce
<1>11. priority[M.target] \in K!Level
  <2>1. M.target \in K!Handle
    BY <1>8, TaskFacts DEF K!Handle
  <2> QED BY <1>9, <2>1
<1>12. M.target \notin Elems(o.waitingTasks) /\ M.target \notin Elems(o.stoppedTasks)
  BY <1>8, <1>10
<1>13. /\ o.readyTasks[priority[M.target]] \in Seq(Task)
       /\ Once(o.readyTasks[priority[M.target]])
  BY <1>9, <1>10, <1>11
<1>14. M # NoCall
  BY <1>6
<1> QED BY <1>6, <1>7, <1>8, <1>9, <1>11, <1>12, <1>13, <1>14 DEF CallFacts

LEMMA AskedSame ==
    ASSUME NEW M, NEW M2, NEW o, Asked(M, o), M2.op = M.op, M2.target = M.target,
           UNCHANGED <<still, timeLeft, wakeTime>>
    PROVE  Asked(M2, o)'
BY DEF Asked, still, K!mk_task_getTaskByID

LEMMA BlockingNext ==
    ASSUME NEW M, NEW o, Me' = M, outside' = o, NEW p, p = priority'[M.target],
           M \in BlockingCall, M.op = "wait" => M.pc # "stop",
           M.op = "stop" => M.pc \notin {"head", "walk"},
           Asked(M, o)',
           state' = StateIn(M, o.state),
           readyTasks' = [o.readyTasks EXCEPT ![p] = readyTasks'[p]],
           Queue(M, p, o.readyTasks[p], readyTasks'[p], bitmap', o.bitmap),
           M.pc = "walk" => Walked(M, o.waitingTasks, wakeTime'),
           Listed(M, o.waitingTasks, o.stoppedTasks, wakeTime',
                  Chain(waitingHead)', Chain(stoppedHead)')
    PROVE  Progress'
<1>1. Asked(Me, outside)'
  BY DEF Asked, K!mk_task_getTaskByID
<1> QED BY <1>1, Zenon DEF Progress, Blocking

\* A step inside a wait or a stop keeps what is known of it.
LEMMA InsideStep ==
    ASSUME CallsInv, Disciplined, Remember, K!ClientRuns,
           NEW M, NEW o, CallFacts(M, o), NEW M2,
           call' = [call EXCEPT ![currentTask] = M2],
           UNCHANGED <<still, pendSV, timeLeft, wakeTime>>, ListsRight',
           M2 \in BlockingCall, M2.op = M.op, M2.target = M.target,
           M.op = "wait" => M2.pc # "stop",
           M.op = "stop" => M2.pc \notin {"head", "walk"},
           state' = StateIn(M2, o.state),
           readyTasks' = [o.readyTasks EXCEPT ![priority[M.target]]
                            = readyTasks'[priority[M.target]]],
           Queue(M2, priority[M.target], o.readyTasks[priority[M.target]],
                 readyTasks'[priority[M.target]], bitmap', o.bitmap),
           M2.pc = "walk" => Walked(M2, o.waitingTasks, wakeTime),
           Listed(M2, o.waitingTasks, o.stoppedTasks, wakeTime,
                  Chain(waitingHead)', Chain(stoppedHead)')
    PROVE  CallsOK' /\ UNCHANGED P!vars
<1>1. M = Me /\ o = outside /\ M # NoCall /\ Blocking(M, o)
  BY Zenon DEF CallFacts
<1>2. M2 # NoCall
  BY DEF BlockingCall, NoCall
<1>3. OneCaller
  BY DEF CallsInv, CallsOK
<1>4. outside' = o /\ Me' = M2 /\ OneCaller' /\ UNCHANGED P!vars
  BY <1>1, <1>2, <1>3, InsideFacts
<1>5. Asked(M2, o)'
  BY <1>1, AskedSame DEF Blocking
<1> DEFINE p == priority[M.target]
<1>6. p = priority'[M2.target] /\ wakeTime' = wakeTime
  BY DEF still
<1>7. Progress'
  BY <1>4, <1>5, <1>6, BlockingNext
<1> QED BY <1>4, <1>7 DEF CallsOK
\* The parts of what is known of a call, by the step it is at.
LEMMA CallParts ==
    ASSUME NEW M, NEW o, CallFacts(M, o)
    PROVE  /\ M = Me /\ M \in BlockingCall
           /\ M.target \in Task /\ priority[M.target] \in K!Level
           /\ M.target \in K!Handle
           /\ M.op = "wait" => M.pc # "stop"
           /\ M.op = "stop" => M.pc \notin {"head", "walk"}
           /\ M.op \in {"wait", "stop"} /\ M.pc \in Removing \cup Listing
           /\ state = StateIn(M, o.state)
           /\ readyTasks = [o.readyTasks EXCEPT ![priority[M.target]]
                              = readyTasks[priority[M.target]]]
           /\ Queue(M, priority[M.target], o.readyTasks[priority[M.target]],
                    readyTasks[priority[M.target]], bitmap, o.bitmap)
           /\ M.pc = "walk" => Walked(M, o.waitingTasks, wakeTime)
           /\ Listed(M, o.waitingTasks, o.stoppedTasks, wakeTime,
                     Chain(waitingHead), Chain(stoppedHead))
           /\ o.state \in [K!Handle -> K!TaskState]
           /\ o.readyTasks \in [K!Level -> Seq(Task)]
           /\ o.bitmap \subseteq K!Level
           /\ o.readyTasks[priority[M.target]] \in Seq(Task)
           /\ Once(o.readyTasks[priority[M.target]])
           /\ o.waitingTasks \in Seq(Task) /\ M.target \notin Elems(o.waitingTasks)
           /\ o.stoppedTasks \in Seq(Task) /\ M.target \notin Elems(o.stoppedTasks)
<1>1. M.op \in {"wait", "stop"} /\ M.pc \in Removing \cup Listing
  BY DEF CallFacts, BlockingCall
<1>2. M.target \in K!Handle
  BY TaskFacts DEF CallFacts, K!Handle
<1> QED BY <1>1, <1>2, Zenon DEF CallFacts, Blocking

LEMMA AtFacts ==
    ASSUME NEW pc, At(pc)
    PROVE  /\ K!ClientRuns /\ Me.pc = pc /\ (pc # "none" => Me # NoCall)
           /\ pc # "ask" => Me # Yield
BY DEF At, NoCall, Yield

\* While the lists are untouched.
LEMMA QuietStep ==
    ASSUME CallsInv, Disciplined, Remember, K!ClientRuns,
           NEW M, NEW o, CallFacts(M, o), NEW M2,
           call' = [call EXCEPT ![currentTask] = M2],
           UNCHANGED <<still, pendSV, timeLeft, wakeTime, links>>,
           M2 \in BlockingCall, M2.op = M.op, M2.target = M.target,
           M.pc # "ask", M2.pc # "ask",
           M.op = "wait" => M2.pc # "stop",
           M.op = "stop" => M2.pc \notin {"head", "walk"},
           state' = StateIn(M2, o.state),
           readyTasks' = [o.readyTasks EXCEPT ![priority[M.target]]
                            = readyTasks'[priority[M.target]]],
           Queue(M2, priority[M.target], o.readyTasks[priority[M.target]],
                 readyTasks'[priority[M.target]], bitmap', o.bitmap),
           M2.pc = "walk" => Walked(M2, o.waitingTasks, wakeTime)
    PROVE  CallsOK' /\ UNCHANGED P!vars
<1>1. /\ ListsRight' /\ Chain(waitingHead)' = Chain(waitingHead)
      /\ Chain(stoppedHead)' = Chain(stoppedHead)
  BY ListsSame DEF CallsInv, CallsOK
<1>2. /\ Chain(waitingHead)' = o.waitingTasks
      /\ Chain(stoppedHead)' = o.stoppedTasks
  <2>1. Listed(M, o.waitingTasks, o.stoppedTasks, wakeTime,
               Chain(waitingHead), Chain(stoppedHead))
    BY CallParts
  <2> QED BY <1>1, <2>1 DEF Listed
<1>3. Listed(M2, o.waitingTasks, o.stoppedTasks, wakeTime,
             Chain(waitingHead)', Chain(stoppedHead)')
  BY <1>2 DEF Listed
<1> QED BY <1>1, <1>3, InsideStep

\* What the steps do to the record of a call.
MovedTo(M, pc)          == [M EXCEPT !.pc = pc]
Took(M, left, h, pc) == [M EXCEPT !.left = left, !.handle = h, !.pc = pc]
Loaded(M, b, h, pc) == [M EXCEPT !.bits = b, !.handle = h, !.pc = pc]
Cleared(M, pc)      == [M EXCEPT !.pc = pc, !.left = 0, !.handle = Nil, !.bits = {}]
Walking(M, a)       == [M EXCEPT !.pc = "walk", !.cur = a]
Passed(M, b, a)     == [M EXCEPT !.before = b, !.cur = a]

SameCall(M2, M, pc) ==
    M2 \in BlockingCall /\ M2.pc = pc /\ M2.op = M.op /\ M2.target = M.target

LEMMA CallFields ==
    ASSUME NEW M \in BlockingCall, NEW pc \in Removing \cup Listing
    PROVE  SameCall(MovedTo(M, pc), M, pc) /\ SameCall(Cleared(M, pc), M, pc)
BY DEF SameCall, MovedTo, Cleared, BlockingCall, Link

LEMMA TookFields ==
    ASSUME NEW M \in BlockingCall, NEW pc \in Removing \cup Listing,
           NEW left \in Nat, NEW h \in Link
    PROVE  /\ SameCall(Took(M, left, h, pc), M, pc)
           /\ Took(M, left, h, pc).left = left /\ Took(M, left, h, pc).handle = h
BY DEF SameCall, Took, BlockingCall

LEMMA LoadedFields ==
    ASSUME NEW M \in BlockingCall, NEW pc \in Removing \cup Listing,
           NEW b \in SUBSET K!Level, NEW h \in Link
    PROVE  SameCall(Loaded(M, b, h, pc), M, pc) /\ Loaded(M, b, h, pc).bits = b
BY DEF SameCall, Loaded, BlockingCall

LEMMA WalkFields ==
    ASSUME NEW M \in BlockingCall, NEW a \in Link
    PROVE  SameCall(Walking(M, a), M, "walk") /\ Walking(M, a).cur = a
BY DEF SameCall, Walking, BlockingCall, Listing

LEMMA PassedFields ==
    ASSUME NEW M \in BlockingCall, NEW a \in Link, NEW b \in Link
    PROVE  /\ SameCall(Passed(M, b, a), M, M.pc)
           /\ Passed(M, b, a).cur = a /\ Passed(M, b, a).before = b
BY DEF SameCall, Passed, BlockingCall

LEMMA RotatePopStep ==
    ASSUME CallsInv, Disciplined, Remember, RotatePop
    PROVE  CallsOK' /\ UNCHANGED P!vars
<1>1. K!ClientRuns /\ Me.pc = "pop" /\ Me # NoCall /\ Me # Yield
  BY AtFacts DEF RotatePop
<1>2. PICK M, o : CallFacts(M, o)
  BY <1>1, CallHasFacts
<1> DEFINE p == priority[M.target]
           q == o.readyTasks[p]
           r == readyTasks[p]
           i == Len(q) - M.left
           pc2 == IF Head(r) = M.target THEN "pop" ELSE "push"
           M2 == Took(M, M.left - 1, Head(r), pc2)
<1>3. /\ M = Me /\ M \in BlockingCall /\ M.pc = "pop" /\ p \in K!Level
      /\ state = StateIn(M, o.state) /\ readyTasks = [o.readyTasks EXCEPT ![p] = r]
      /\ Queue(M, p, q, r, bitmap, o.bitmap)
      /\ o.readyTasks \in [K!Level -> Seq(Task)] /\ q \in Seq(Task) /\ Once(q)
  BY <1>1, <1>2, CallParts, Zenon
<1>4. M.left > 0 /\ M.left \in Nat
  BY <1>3 DEF RotatePop, BlockingCall
<1>5. /\ bitmap = o.bitmap /\ M.left <= Len(q)
      /\ \E k \in Nat : PlaceOf(q, M.target, k) /\ Turned(r, q, i, k)
  BY <1>3 DEF Queue
<1>6. PICK k \in Nat : PlaceOf(q, M.target, k) /\ Turned(r, q, i, k)
  BY <1>5
<1>7. i \in 0..(Len(q) - 1) /\ Len(q) - (M.left - 1) = i + 1 /\ Len(q) \in Nat
  <2>1. Len(q) \in Nat
    <3> HIDE DEF q
    <3> QED BY <1>3, ListFacts
  <2> HIDE DEF q
  <2> QED BY <1>4, <1>5, <2>1
<1>8. /\ r # <<>> /\ Head(r) \in Task /\ Tail(r) \in Seq(Task)
      /\ Head(r) = M.target => Turned(Tail(r), q, i + 1, k)
      /\ Head(r) # M.target => Turned(Append(Tail(r), Head(r)), q, i + 1, k)
  <2> HIDE DEF i, q, r
  <2> QED BY <1>3, <1>6, <1>7, TurnedPop
<1>9. /\ call' = [call EXCEPT ![currentTask] = M2]
      /\ readyTasks' = [readyTasks EXCEPT ![p] = Tail(r)]
      /\ UNCHANGED <<still, state, timeLeft, wakeTime, bitmap, pendSV, links>>
  <2>1. Me = M /\ Ready = r /\ Level = p /\ readyTasks[p] = r
    BY <1>3 DEF Ready, Level
  <2> HIDE DEF r, p
  <2>2. /\ readyTasks' = [readyTasks EXCEPT ![p] = Tail(r)]
        /\ UNCHANGED <<still, state, timeLeft, wakeTime, bitmap, pendSV, links>>
    BY <1>8, <2>1 DEF RotatePop
  <2>3. call' = [call EXCEPT ![currentTask] =
                   Took(Me, Me.left - 1, Head(Ready),
                        IF Head(Ready) = Me.target THEN "pop" ELSE "push")]
    BY <1>8, <2>1, Zenon DEF RotatePop, Took
  <2> QED BY <2>1, <2>2, <2>3, Zenon
<1>10. /\ M2 \in BlockingCall /\ M2.op = M.op /\ M2.target = M.target
       /\ M2.pc = pc2 /\ M2.left = M.left - 1 /\ M2.handle = Head(r)
  <2>1. M.left - 1 \in Nat /\ Head(r) \in Link /\ pc2 \in Removing \cup Listing
    <3> HIDE DEF r
    <3> QED BY <1>4, <1>8 DEF Removing, Link
  <2>2. /\ SameCall(M2, M, pc2) /\ M2.left = M.left - 1 /\ M2.handle = Head(r)
    <3> HIDE DEF r, p, pc2
    <3> QED BY <1>3, <2>1, TookFields
  <2> HIDE DEF M2
  <2> QED BY <2>2 DEF SameCall
<1> HIDE DEF M2
<1>11. /\ readyTasks'[p] = Tail(r)
       /\ readyTasks' = [o.readyTasks EXCEPT ![p] = readyTasks'[p]]
  <2> HIDE DEF p
  <2> QED BY <1>3, <1>8, <1>9
<1>12. Queue(M2, p, q, Tail(r), bitmap, o.bitmap)
  <2>1. M2.pc = "pop" => Turned(Tail(r), q, i + 1, k)
    BY <1>8, <1>10
  <2>2. M2.pc = "push" => Turned(Append(Tail(r), Head(r)), q, i + 1, k)
    BY <1>8, <1>10
  <2>3. M2.pc \in {"pop", "push"} /\ M2.left <= Len(q) /\ Len(q) - M2.left = i + 1
    <3> HIDE DEF i, q
    <3> QED BY <1>4, <1>5, <1>7, <1>10
  <2> HIDE DEF i, q, r, p
  <2> QED BY <1>5, <1>6, <1>8, <1>10, <2>1, <2>2, <2>3 DEF Queue
<1>13. StateIn(M2, o.state) = StateIn(M, o.state)
  BY <1>3, <1>10 DEF StateIn, Removing
<1>14. M2.pc \notin {"ask", "stop", "head", "walk"} /\ M.pc # "ask"
  BY <1>3, <1>10
<1> HIDE DEF p, q, r
<1> QED
  BY <1>1, <1>2, <1>3, <1>9, <1>10, <1>11, <1>12, <1>13, <1>14, QuietStep
     DEF p, q
LEMMA GotoIs ==
    ASSUME NEW pc, Goto(pc)
    PROVE  call' = [call EXCEPT ![currentTask] = MovedTo(Me, pc)]
BY DEF Goto, MovedTo, Me

LEMMA RotatePushStep ==
    ASSUME CallsInv, Disciplined, Remember, RotatePush
    PROVE  CallsOK' /\ UNCHANGED P!vars
<1>1. K!ClientRuns /\ Me.pc = "push" /\ Me # NoCall /\ Me # Yield
  BY AtFacts DEF RotatePush
<1>2. PICK M, o : CallFacts(M, o)
  BY <1>1, CallHasFacts
<1> DEFINE p == priority[M.target]
           q == o.readyTasks[p]
           r == readyTasks[p]
           a == Append(r, M.handle)
           M2 == MovedTo(M, "pop")
<1>3. /\ M = Me /\ M \in BlockingCall /\ M.pc = "push" /\ p \in K!Level
      /\ state = StateIn(M, o.state) /\ readyTasks = [o.readyTasks EXCEPT ![p] = r]
      /\ Queue(M, p, q, r, bitmap, o.bitmap)
      /\ o.readyTasks \in [K!Level -> Seq(Task)] /\ q \in Seq(Task) /\ Once(q)
  BY <1>1, <1>2, CallParts, Zenon
<1>4. /\ bitmap = o.bitmap /\ M.left <= Len(q) /\ M.handle \in Task
      /\ r \in Seq(Task) /\ M.left \in Nat /\ Len(q) \in Nat
      /\ \E k \in Nat : PlaceOf(q, M.target, k) /\ Turned(a, q, Len(q) - M.left, k)
  <2>1. M.left \in Nat
    BY <1>3 DEF BlockingCall
  <2>2. Len(q) \in Nat
    BY <1>3, ListFacts
  <2> QED BY <1>3, <2>1, <2>2 DEF Queue
<1>5. Len(r) < MaxTasks
  <2>1. PICK k \in Nat : Turned(a, q, Len(q) - M.left, k)
    BY <1>4
  <2> DEFINE i == Len(q) - M.left
  <2>2. i \in 0..Len(q)
    <3> HIDE DEF q
    <3> QED BY <1>4
  <2> HIDE DEF i, q, r
  <2>3. Turned(Append(r, M.handle), q, i, k)
    BY <2>1 DEF i
  <2> QED BY <1>3, <1>4, <2>2, <2>3, TurnedFits
<1>6. /\ call' = [call EXCEPT ![currentTask] = M2]
      /\ readyTasks' = [readyTasks EXCEPT ![p] = a]
      /\ UNCHANGED <<still, state, timeLeft, wakeTime, bitmap, pendSV, links>>
  <2>1. Me = M /\ Level = p /\ Me.handle = M.handle /\ K!HasRoom(readyTasks, Level)
    BY <1>3, <1>5 DEF Level, K!HasRoom
  <2>2. Goto("pop")
    BY <2>1 DEF RotatePush
  <2>3. readyTasks' = [readyTasks EXCEPT ![p] = a]
    BY <2>1 DEF RotatePush, K!Pushed
  <2>4. UNCHANGED <<still, state, timeLeft, wakeTime, bitmap, pendSV, links>>
    BY DEF RotatePush
  <2> QED BY <2>1, <2>2, <2>3, <2>4, GotoIs
<1>7. SameCall(M2, M, "pop") /\ M2.left = M.left
  <2>1. "pop" \in Removing \cup Listing
    BY DEF Removing
  <2>2. M2.left = M.left
    BY <1>3 DEF MovedTo, BlockingCall
  <2> QED BY <1>3, <2>1, <2>2, CallFields
<1> HIDE DEF M2
<1>8. /\ readyTasks'[p] = a
      /\ readyTasks' = [o.readyTasks EXCEPT ![p] = readyTasks'[p]]
  <2> HIDE DEF p, a
  <2> QED BY <1>3, <1>6
<1>9. Queue(M2, p, q, a, bitmap, o.bitmap)
  <2> HIDE DEF p, a, q
  <2> QED BY <1>4, <1>7 DEF Queue, SameCall
<1>10. StateIn(M2, o.state) = StateIn(M, o.state)
  BY <1>3, <1>7 DEF StateIn, Removing, SameCall
<1>11. M2.pc = "pop" /\ M2 \in BlockingCall /\ M2.op = M.op /\ M2.target = M.target
  BY <1>7 DEF SameCall
<1> HIDE DEF p, q, r, a
<1> QED
  BY <1>1, <1>2, <1>3, <1>6, <1>8, <1>9, <1>10, <1>11, QuietStep DEF p, q

LEMMA LoadBitmapStep ==
    ASSUME CallsInv, Disciplined, Remember, LoadBitmap
    PROVE  CallsOK' /\ UNCHANGED P!vars
<1>1. K!ClientRuns /\ Me.pc = "pop" /\ Me # NoCall /\ Me # Yield
  BY AtFacts DEF LoadBitmap
<1>2. PICK M, o : CallFacts(M, o)
  BY <1>1, CallHasFacts
<1> DEFINE p == priority[M.target]
           q == o.readyTasks[p]
           r == readyTasks[p]
           pc2 == IF r = <<>> THEN "store" ELSE "block"
           M2 == Loaded(M, bitmap, Nil, pc2)
<1>3. /\ M = Me /\ M \in BlockingCall /\ M.pc = "pop" /\ p \in K!Level
      /\ state = StateIn(M, o.state) /\ readyTasks = [o.readyTasks EXCEPT ![p] = r]
      /\ Queue(M, p, q, r, bitmap, o.bitmap) /\ o.bitmap \subseteq K!Level
      /\ o.readyTasks \in [K!Level -> Seq(Task)] /\ q \in Seq(Task) /\ Once(q)
  BY <1>1, <1>2, CallParts, Zenon
<1>4. bitmap = o.bitmap /\ r = K!Without(q, M.target)
  <2>1. M.left = 0
    BY <1>3 DEF LoadBitmap
  <2>2. /\ bitmap = o.bitmap
        /\ \E k \in Nat : /\ PlaceOf(q, M.target, k)
                          /\ Turned(r, q, Len(q) - M.left, k)
    BY <1>3 DEF Queue
  <2>3. PICK k \in Nat : /\ PlaceOf(q, M.target, k)
                         /\ Turned(r, q, Len(q) - M.left, k)
    BY <2>2
  <2>4. Len(q) - M.left = Len(q)
    <3>1. Len(q) \in Nat
      BY <1>3, ListFacts
    <3> HIDE DEF q
    <3> QED BY <2>1, <3>1
  <2>5. Turned(r, q, Len(q), k)
    BY <2>3, <2>4
  <2> HIDE DEF q, r
  <2> QED BY <1>3, <2>2, <2>3, <2>5, TurnedRound
<1>5. /\ call' = [call EXCEPT ![currentTask] = M2]
      /\ UNCHANGED <<still, state, timeLeft, wakeTime, readyTasks, bitmap, pendSV,
                     links>>
  <2>1. Me = M /\ Ready = r
    BY <1>3 DEF Ready, Level
  <2> HIDE DEF r
  <2> QED BY <2>1 DEF LoadBitmap, Loaded
<1>6. SameCall(M2, M, pc2) /\ M2.bits = bitmap /\ pc2 \in {"store", "block"}
  <2>1. pc2 \in Removing \cup Listing /\ pc2 \in {"store", "block"}
    BY DEF Removing
  <2>2. bitmap \in SUBSET K!Level /\ Nil \in Link
    BY <1>3, <1>4 DEF Link
  <2> HIDE DEF pc2
  <2> QED BY <1>3, <2>1, <2>2, LoadedFields
<1> HIDE DEF M2
<1>7. /\ M2.pc = pc2 /\ M2 \in BlockingCall /\ M2.op = M.op /\ M2.target = M.target
      /\ M2.pc \in {"store", "block"}
  BY <1>6 DEF SameCall
<1>8. Queue(M2, p, q, r, bitmap, o.bitmap)
  <2>1. M2.pc = "store" => r = <<>>
    BY <1>7
  <2>2. M2.pc = "block" => r # <<>>
    BY <1>7
  <2> HIDE DEF p, q, r, pc2
  <2> QED BY <1>4, <1>6, <1>7, <2>1, <2>2 DEF Queue
<1>9. StateIn(M2, o.state) = StateIn(M, o.state)
  BY <1>3, <1>7 DEF StateIn, Removing
<1>10. readyTasks' = [o.readyTasks EXCEPT ![p] = readyTasks'[p]] /\ readyTasks'[p] = r
  BY <1>3, <1>5
<1> HIDE DEF p, q, r, pc2
<1> QED
  BY <1>1, <1>2, <1>3, <1>5, <1>7, <1>8, <1>9, <1>10, QuietStep DEF p, q

LEMMA StoreBitmapStep ==
    ASSUME CallsInv, Disciplined, Remember, StoreBitmap
    PROVE  CallsOK' /\ UNCHANGED P!vars
<1>1. K!ClientRuns /\ Me.pc = "store" /\ Me # NoCall /\ Me # Yield
  BY AtFacts DEF StoreBitmap
<1>2. PICK M, o : CallFacts(M, o)
  BY <1>1, CallHasFacts
<1> DEFINE p == priority[M.target]
           q == o.readyTasks[p]
           r == readyTasks[p]
           M2 == MovedTo(M, "block")
<1>3. /\ M = Me /\ M \in BlockingCall /\ M.pc = "store" /\ p \in K!Level
      /\ state = StateIn(M, o.state) /\ readyTasks = [o.readyTasks EXCEPT ![p] = r]
      /\ Queue(M, p, q, r, bitmap, o.bitmap)
  BY <1>1, <1>2, CallParts, Zenon
<1>4. /\ bitmap = o.bitmap /\ M.bits = bitmap /\ r = <<>>
      /\ r = K!Without(q, M.target)
  BY <1>3 DEF Queue
<1>5. /\ call' = [call EXCEPT ![currentTask] = M2] /\ bitmap' = o.bitmap \ {p}
      /\ UNCHANGED <<still, state, timeLeft, wakeTime, readyTasks, pendSV, links>>
  BY <1>3, <1>4, GotoIs DEF StoreBitmap, Level
<1>6. M2.pc = "block" /\ M2 \in BlockingCall /\ M2.op = M.op /\ M2.target = M.target
  BY <1>3, CallFields DEF SameCall, Removing
<1> HIDE DEF M2
<1>7. Queue(M2, p, q, r, bitmap', o.bitmap)
  <2> HIDE DEF p, q, r
  <2> QED BY <1>4, <1>5, <1>6 DEF Queue
<1>8. state' = StateIn(M2, o.state)
  <2>1. StateIn(M2, o.state) = StateIn(M, o.state)
    BY <1>3, <1>6 DEF StateIn, Removing
  <2> QED BY <1>3, <1>5, <2>1
<1>9. readyTasks' = [o.readyTasks EXCEPT ![p] = readyTasks'[p]] /\ readyTasks'[p] = r
  BY <1>3, <1>5
<1>10. Queue(M2, p, o.readyTasks[p], readyTasks'[p], bitmap', o.bitmap)
  BY <1>7, <1>9
<1>11. /\ M2.pc \notin {"ask", "walk", "stop", "head"} /\ M.pc # "ask"
       /\ UNCHANGED <<still, pendSV, timeLeft, wakeTime, links>>
  BY <1>3, <1>5, <1>6
<1> HIDE DEF p, q, r
<1> QED
  BY <1>1, <1>2, <1>5, <1>6, <1>8, <1>9, <1>10, <1>11, QuietStep DEF p

LEMMA BlockStep ==
    ASSUME CallsInv, Disciplined, Remember, Block
    PROVE  CallsOK' /\ UNCHANGED P!vars
<1>1. K!ClientRuns /\ Me.pc = "block" /\ Me # NoCall /\ Me # Yield
  BY AtFacts DEF Block
<1>2. PICK M, o : CallFacts(M, o)
  BY <1>1, CallHasFacts
<1> DEFINE p == priority[M.target]
           q == o.readyTasks[p]
           r == readyTasks[p]
           pc2 == IF M.op = "wait" THEN "head" ELSE "stop"
           M2 == Cleared(M, pc2)
<1>3. /\ M = Me /\ M \in BlockingCall /\ M.pc = "block" /\ p \in K!Level
      /\ M.op \in {"wait", "stop"}
      /\ state = StateIn(M, o.state) /\ readyTasks = [o.readyTasks EXCEPT ![p] = r]
      /\ Queue(M, p, q, r, bitmap, o.bitmap)
  BY <1>1, <1>2, CallParts, Zenon
<1>4. state = o.state
  BY <1>3 DEF StateIn, Removing
<1>5. /\ call' = [call EXCEPT ![currentTask] = M2]
      /\ state' = [o.state EXCEPT ![M.target] =
                     IF M.op = "wait" THEN "WAITING" ELSE "STOPPED"]
      /\ UNCHANGED <<still, timeLeft, wakeTime, readyTasks, bitmap, pendSV, links>>
  <2>1. call' = [call EXCEPT ![currentTask] =
                   Cleared(Me, IF Me.op = "wait" THEN "head" ELSE "stop")]
    BY Zenon DEF Block, Cleared
  <2> QED BY <1>3, <1>4, <2>1 DEF Block
<1>6. /\ M2.pc = pc2 /\ M2 \in BlockingCall /\ M2.op = M.op /\ M2.target = M.target
      /\ pc2 \in {"head", "stop"}
  BY <1>3, CallFields DEF SameCall, Listing
<1> HIDE DEF M2
<1>7. Queue(M2, p, q, r, bitmap, o.bitmap)
  <2> HIDE DEF p, q, r, pc2
  <2> QED BY <1>3, <1>6 DEF Queue
<1>8. state' = StateIn(M2, o.state)
  BY <1>5, <1>6 DEF StateIn, Removing
<1>9. readyTasks' = [o.readyTasks EXCEPT ![p] = readyTasks'[p]] /\ readyTasks'[p] = r
  BY <1>3, <1>5
<1>10. /\ M2.pc \notin {"ask", "walk"} /\ M.pc # "ask"
       /\ M.op = "wait" => M2.pc # "stop"
       /\ M.op = "stop" => M2.pc \notin {"head", "walk"}
  BY <1>3, <1>6
<1>11. Queue(M2, p, o.readyTasks[p], readyTasks'[p], bitmap', o.bitmap)
  BY <1>5, <1>7, <1>9
<1> HIDE DEF p, q, r, pc2
<1> QED
  BY <1>1, <1>2, <1>5, <1>6, <1>8, <1>9, <1>10, <1>11, QuietStep DEF p
-----------------------------------------------------------------------------
(* The steps that change the lists.                                        *)

\* Where a sleeper t belongs in the list w of the wake times wt.
Place(w, wt, t, k) ==
    /\ k \in 1..(Len(w) + 1)
    /\ \A j \in 1..(k - 1) : wt[w[j]] <= wt[t]
    /\ k <= Len(w) => wt[t] < wt[w[k]]

LEMMA CallLinks ==
    ASSUME CallsInv, NEW M, NEW o, CallFacts(M, o), M.pc # "ask"
    PROVE  /\ TwoLists(next, prev, waitingHead, stoppedHead, o.waitingTasks,
                       o.stoppedTasks)
           /\ Chain(waitingHead) = o.waitingTasks
           /\ Chain(stoppedHead) = o.stoppedTasks
<1>1. Listed(M, o.waitingTasks, o.stoppedTasks, wakeTime,
             Chain(waitingHead), Chain(stoppedHead))
  BY CallParts
<1>2. Chain(waitingHead) = o.waitingTasks /\ Chain(stoppedHead) = o.stoppedTasks
  BY <1>1 DEF Listed
<1>3. TwoLists(next, prev, waitingHead, stoppedHead, Chain(waitingHead),
               Chain(stoppedHead))
  BY DEF CallsInv, CallsOK, ListsRight
<1> QED BY <1>2, <1>3

\* The kernel's constants, and the wake times during a wait.
LEMMA WakeTimesTyped ==
    ASSUME CallsInv, NEW M, NEW o, CallFacts(M, o), M.op = "wait"
    PROVE  wakeTime \in [K!Handle -> Nat]
<1>1. /\ Asked(M, o) /\ o.wakeTime \in [K!Handle -> 0..(TickMod - 1)]
  BY Zenon DEF CallFacts, Blocking
<1>2. PICK d \in WaitTimes :
         wakeTime = [o.wakeTime EXCEPT ![M.target] = (tickCount + d) % TickMod]
  BY <1>1 DEF Asked
<1>3. tickCount \in Nat
  <2>1. P!TypeOK
    BY DEF CallsInv, P!KernelInv
  <2>2. tickCount \in 0..(TickMod - 1)
    BY <2>1, Zenon DEF P!TypeOK
  <2> QED BY <2>2
<1>4. TickMod \in Nat \ {0} /\ WaitTimes \subseteq 0..(TickMod - 1)
  BY KernelConstants DEF K!KernelAssumption
<1>5. (tickCount + d) % TickMod \in Nat
  BY <1>3, <1>4
<1>6. o.wakeTime \in [K!Handle -> Nat]
  BY <1>1
<1> QED BY <1>2, <1>5, <1>6

\* The call goes from the lists to its end.
LEMMA ListedStep ==
    ASSUME CallsInv, Disciplined, Remember, K!ClientRuns,
           NEW M, NEW o, CallFacts(M, o),
           call' = [call EXCEPT ![currentTask] = MovedTo(M, "ask")],
           UNCHANGED <<still, timeLeft, wakeTime, readyTasks, bitmap, pendSV>>,
           M.pc \in {"head", "walk", "stop"}, ListsRight',
           state' = [state EXCEPT ![M.target] =
                       IF M.op = "wait" THEN "WAITING" ELSE "STOPPED"],
           Listed(MovedTo(M, "ask"), o.waitingTasks, o.stoppedTasks, wakeTime,
                  Chain(waitingHead)', Chain(stoppedHead)')
    PROVE  CallsOK' /\ UNCHANGED P!vars
<1> DEFINE p == priority[M.target]
           q == o.readyTasks[p]
           r == readyTasks[p]
           M2 == MovedTo(M, "ask")
<1>1. /\ M = Me /\ M \in BlockingCall /\ M.op \in {"wait", "stop"}
      /\ state = StateIn(M, o.state) /\ readyTasks = [o.readyTasks EXCEPT ![p] = r]
      /\ Queue(M, p, q, r, bitmap, o.bitmap) /\ M.target \in K!Handle
      /\ o.state \in [K!Handle -> K!TaskState]
  BY CallParts, Zenon
<1>2. M2.pc = "ask" /\ M2 \in BlockingCall /\ M2.op = M.op /\ M2.target = M.target
  BY <1>1, CallFields DEF SameCall, Listing
<1> HIDE DEF M2
<1>3. state' = StateIn(M2, o.state)
  <2>1. state = [o.state EXCEPT ![M.target] =
                   IF M.op = "wait" THEN "WAITING" ELSE "STOPPED"]
    BY <1>1 DEF StateIn, Removing
  <2> DEFINE v == IF M.op = "wait" THEN "WAITING" ELSE "STOPPED"
  <2>2. state' = [o.state EXCEPT ![M.target] = v]
    <3>1. state = [o.state EXCEPT ![M.target] = v] /\ state' = [state EXCEPT ![M.target] = v]
      BY <2>1
    <3> HIDE DEF v
    <3> QED BY <1>1, <3>1
  <2> QED BY <1>2, <2>2 DEF StateIn, Removing
<1>4. readyTasks' = [o.readyTasks EXCEPT ![p] = readyTasks'[p]] /\ readyTasks'[p] = r
  BY <1>1
<1>5. Queue(M2, p, q, r, bitmap, o.bitmap)
  <2> HIDE DEF p, q, r
  <2> QED BY <1>1, <1>2 DEF Queue
<1>6. Queue(M2, p, o.readyTasks[p], readyTasks'[p], bitmap', o.bitmap)
  BY <1>4, <1>5
<1>7. Listed(M2, o.waitingTasks, o.stoppedTasks, wakeTime,
             Chain(waitingHead)', Chain(stoppedHead)')
  BY DEF M2
<1>8. call' = [call EXCEPT ![currentTask] = M2]
  BY DEF M2
<1> HIDE DEF q, r
<1> QED
  BY <1>2, <1>3, <1>4, <1>6, <1>7, <1>8, InsideStep

\* A sleeper gets its place k in the waiting list.
LEMMA InsertedStep ==
    ASSUME CallsInv, Disciplined, Remember, K!ClientRuns,
           NEW M, NEW o, CallFacts(M, o),
           call' = [call EXCEPT ![currentTask] = MovedTo(M, "ask")],
           UNCHANGED <<still, timeLeft, wakeTime, readyTasks, bitmap, pendSV,
                       stoppedHead>>,
           M.pc \in {"head", "walk"},
           state' = [state EXCEPT ![M.target] = "WAITING"],
           NEW k, Place(o.waitingTasks, wakeTime, M.target, k),
           Inserted(next, prev, waitingHead, next', prev', waitingHead',
                    o.waitingTasks, M.target, k)
    PROVE  CallsOK' /\ UNCHANGED P!vars
<1> DEFINE w == o.waitingTasks
           s == o.stoppedTasks
           t == M.target
           w2 == InsertAt(w, k, t)
           M2 == MovedTo(M, "ask")
<1>1. /\ M \in BlockingCall /\ M.op = "wait" /\ t \in Task
      /\ t \notin Elems(w) /\ t \notin Elems(s)
  BY CallParts
<1>2. TwoLists(next, prev, waitingHead, stoppedHead, w, s)
  BY CallLinks
<1>3. TwoLists(next', prev', waitingHead', stoppedHead, w2, s)
  <2>1. k \in 1..(Len(w) + 1)
    BY DEF Place
  <2> HIDE DEF s, w, t
  <2> QED BY <1>1, <1>2, <2>1, WaitingGrows DEF w, t
<1>4. ListsRight' /\ Chain(waitingHead)' = w2 /\ Chain(stoppedHead)' = s
  <2>1. \A x, y : x = w2 /\ y = s =>
           (TwoLists(next', prev', waitingHead', stoppedHead', x, y)
              => ListsRight' /\ Chain(waitingHead)' = x /\ Chain(stoppedHead)' = y)
    BY ListsBecome
  <2> HIDE DEF s, w2
  <2> QED BY <1>3, <2>1
<1>5. M2.pc = "ask" /\ M2.op = "wait" /\ M2.target = t
  BY <1>1, CallFields DEF SameCall, Listing
<1>6. Listed(M2, w, s, wakeTime, Chain(waitingHead)', Chain(stoppedHead)')
  <2> HIDE DEF M2, s, w, t
  <2> QED BY <1>4, <1>5 DEF Listed, Place, w, t
<1>7. M.pc \in {"head", "walk", "stop"} /\ t \in K!Handle
  BY CallParts
<1> HIDE DEF w2
<1> QED BY <1>1, <1>4, <1>6, <1>7, ListedStep

\* A sleeper t on its way through the list w, at the place k.
WalkFacts(M, o, w, s, t, k) ==
    /\ w = o.waitingTasks /\ s = o.stoppedTasks /\ t = M.target
    /\ M = Me /\ M.op = "wait" /\ t \in Task /\ t \in Link
    /\ M \in BlockingCall
    /\ state = StateIn(M, o.state) /\ o.state \in [K!Handle -> K!TaskState]
    /\ t \in K!Handle
    /\ TwoLists(next, prev, waitingHead, stoppedHead, w, s)
    /\ w \in Seq(Task) /\ Len(w) \in Nat /\ (w = <<>> <=> Len(w) = 0)
    /\ \A i \in 1..Len(w) : w[i] \in Task /\ w[i] # Nil /\ w[i] # t
    /\ \A i, j \in 1..Len(w) : w[i] = w[j] => i = j
    /\ next \in [Task -> Link] /\ prev \in [Task -> Link]
    /\ wakeTime \in [K!Handle -> Nat]
    /\ k \in 1..(Len(w) + 1)
    /\ \A j \in 1..(k - 1) : wakeTime[w[j]] <= wakeTime[t]
    /\ M.pc = "walk" =>
         /\ w # <<>>
         /\ M.cur = IF k <= Len(w) THEN w[k] ELSE Nil
         /\ k > 1 => M.before = w[k - 1]
    /\ M.pc = "head" => k = 1

LEMMA WalkHasFacts ==
    ASSUME CallsInv, NEW M, NEW o, CallFacts(M, o), M.pc \in {"head", "walk"}
    PROVE  \E w, s, t, k : WalkFacts(M, o, w, s, t, k)
<1>1. \E w, t, s : w = o.waitingTasks /\ t = M.target /\ s = o.stoppedTasks
  OBVIOUS
<1>2. PICK w, t, s : w = o.waitingTasks /\ t = M.target /\ s = o.stoppedTasks
  BY <1>1
<1>3. /\ M = Me /\ M.op = "wait" /\ t \in Task /\ t \in Link /\ M \in BlockingCall
      /\ M.pc = "walk" => Walked(M, w, wakeTime)
      /\ state = StateIn(M, o.state)
      /\ t \notin Elems(w) /\ t \in K!Handle
      /\ o.state \in [K!Handle -> K!TaskState]
  BY <1>2, CallParts DEF Link
<1>4. TwoLists(next, prev, waitingHead, stoppedHead, w, s)
  BY <1>2, CallLinks
<1>5. w \in Seq(Task) /\ Once(w) /\ next \in [Task -> Link] /\ prev \in [Task -> Link]
  BY <1>4 DEF TwoLists
<1>6. /\ Len(w) \in Nat /\ (w = <<>> <=> Len(w) = 0)
      /\ \A i \in 1..Len(w) : w[i] \in Task /\ w[i] # Nil
      /\ \A i, j \in 1..Len(w) : w[i] = w[j] => i = j
  BY <1>5, ListFacts
<1>7. \A i \in 1..Len(w) : w[i] # t
  BY <1>3, <1>5, ElemsFacts
<1>8. wakeTime \in [K!Handle -> Nat]
  BY <1>3, WakeTimesTyped
<1>9. \E k \in 1..(Len(w) + 1) :
        /\ \A j \in 1..(k - 1) : wakeTime[w[j]] <= wakeTime[t]
        /\ M.pc = "walk" =>
             /\ w # <<>>
             /\ M.cur = IF k <= Len(w) THEN w[k] ELSE Nil
             /\ k > 1 => M.before = w[k - 1]
        /\ M.pc = "head" => k = 1
  <2>1. CASE M.pc = "walk"
    BY <1>2, <1>3, <2>1 DEF Walked
  <2>2. CASE M.pc = "head"
    <3>1. 1 \in 1..(Len(w) + 1) /\ 1..(1 - 1) = {}
      BY <1>6
    <3> QED BY <2>2, <3>1
  <2> QED BY <2>1, <2>2
<1>10. PICK k \in 1..(Len(w) + 1) :
        /\ \A j \in 1..(k - 1) : wakeTime[w[j]] <= wakeTime[t]
        /\ M.pc = "walk" =>
             /\ w # <<>>
             /\ M.cur = IF k <= Len(w) THEN w[k] ELSE Nil
             /\ k > 1 => M.before = w[k - 1]
        /\ M.pc = "head" => k = 1
  BY <1>9
<1>11. WalkFacts(M, o, w, s, t, k)
  BY <1>2, <1>3, <1>4, <1>5, <1>6, <1>7, <1>8, <1>10, Zenon DEF WalkFacts
<1> QED BY <1>11, Zenon

LEMMA AlreadyWaiting ==
    ASSUME NEW M, NEW o, NEW w, NEW s, NEW t, NEW k, WalkFacts(M, o, w, s, t, k),
           M.pc \in {"head", "walk"}
    PROVE  state = [state EXCEPT ![t] = "WAITING"]
<1>1. /\ state = [o.state EXCEPT ![t] = "WAITING"] /\ t \in K!Handle
      /\ o.state \in [K!Handle -> K!TaskState]
  BY DEF WalkFacts, StateIn, Removing
<1> QED BY <1>1

LEMMA InsertLastStep ==
    ASSUME CallsInv, Disciplined, Remember, InsertLast
    PROVE  CallsOK' /\ UNCHANGED P!vars
<1>1. K!ClientRuns /\ Me.pc = "walk" /\ Me # NoCall /\ Me # Yield
  BY AtFacts DEF InsertLast
<1>2. PICK M, o : CallFacts(M, o)
  BY <1>1, CallHasFacts
<1>3. M = Me /\ M.pc = "walk"
  BY <1>1, <1>2, CallParts
<1>4. PICK w, s, t, k : WalkFacts(M, o, w, s, t, k)
  BY <1>2, <1>3, WalkHasFacts
<1>5. /\ w = o.waitingTasks /\ s = o.stoppedTasks /\ t = M.target /\ t \in Task
      /\ t \in Link /\ Len(w) \in Nat /\ (w = <<>> <=> Len(w) = 0)
      /\ \A i \in 1..Len(w) : w[i] \in Task /\ w[i] # Nil /\ w[i] # t
      /\ next \in [Task -> Link] /\ prev \in [Task -> Link]
      /\ k \in 1..(Len(w) + 1) /\ w # <<>>
      /\ M.cur = IF k <= Len(w) THEN w[k] ELSE Nil
      /\ k > 1 => M.before = w[k - 1]
      /\ \A j \in 1..(k - 1) : wakeTime[w[j]] <= wakeTime[t]
  BY <1>3, <1>4, Zenon DEF WalkFacts
<1>6. /\ next' = [next EXCEPT ![M.before] = t, ![t] = Nil]
      /\ prev' = [prev EXCEPT ![t] = M.before] /\ M.cur = Nil
      /\ call' = [call EXCEPT ![currentTask] = MovedTo(M, "ask")]
      /\ UNCHANGED <<still, state, timeLeft, wakeTime, readyTasks, bitmap, pendSV,
                     waitingHead, stoppedHead>>
  BY <1>3, <1>5, GotoIs DEF InsertLast
<1>7. k = Len(w) + 1 /\ k > 1 /\ M.before = w[k - 1] /\ k - 1 \in 1..Len(w)
  BY <1>5, <1>6
<1>8. M.before \in Task /\ M.before # t /\ M.before \in Link /\ Nil \in Link
  BY <1>5, <1>7 DEF Link
<1>9. /\ next' \in [Task -> Link] /\ next'[t] = Nil /\ next'[M.before] = t
      /\ \A u \in Task \ {t} : u # M.before => next'[u] = next[u]
  BY <1>5, <1>6, <1>8
<1>10. /\ prev' \in [Task -> Link] /\ prev'[t] = M.before
       /\ \A u \in Task \ {t} : prev'[u] = prev[u]
  BY <1>5, <1>6, <1>8
<1>11. state' = [state EXCEPT ![t] = "WAITING"]
  BY <1>3, <1>4, <1>6, AlreadyWaiting
<1>12. ~(k <= Len(w)) /\ k # 1
  BY <1>5, <1>7
<1>13. Inserted(next, prev, waitingHead, next', prev', waitingHead', w, t, k)
  BY <1>6, <1>7, <1>9, <1>10, <1>12 DEF Inserted
<1>14. Place(w, wakeTime, t, k)
  BY <1>5, <1>12 DEF Place
<1>15. /\ Inserted(next, prev, waitingHead, next', prev', waitingHead',
                   o.waitingTasks, M.target, k)
       /\ Place(o.waitingTasks, wakeTime, M.target, k)
       /\ state' = [state EXCEPT ![M.target] = "WAITING"]
       /\ M.pc \in {"head", "walk"}
  BY <1>3, <1>5, <1>11, <1>13, <1>14
<1> QED
  BY <1>1, <1>2, <1>6, <1>15, InsertedStep

LEMMA InsertBeforeStep ==
    ASSUME CallsInv, Disciplined, Remember, InsertBefore
    PROVE  CallsOK' /\ UNCHANGED P!vars
<1>1. K!ClientRuns /\ Me.pc = "walk" /\ Me # NoCall /\ Me # Yield
  BY AtFacts DEF InsertBefore
<1>2. PICK M, o : CallFacts(M, o)
  BY <1>1, CallHasFacts
<1>3. M = Me /\ M.pc = "walk"
  BY <1>1, <1>2, CallParts
<1>4. PICK w, s, t, k : WalkFacts(M, o, w, s, t, k)
  BY <1>2, <1>3, WalkHasFacts
<1>5. /\ w = o.waitingTasks /\ s = o.stoppedTasks /\ t = M.target /\ t \in Task
      /\ t \in Link /\ Len(w) \in Nat /\ (w = <<>> <=> Len(w) = 0)
      /\ \A i \in 1..Len(w) : w[i] \in Task /\ w[i] # Nil /\ w[i] # t
      /\ \A i, j \in 1..Len(w) : w[i] = w[j] => i = j
      /\ TwoLists(next, prev, waitingHead, stoppedHead, w, s)
      /\ next \in [Task -> Link] /\ prev \in [Task -> Link]
      /\ k \in 1..(Len(w) + 1) /\ w # <<>>
      /\ M.cur = IF k <= Len(w) THEN w[k] ELSE Nil
      /\ \A j \in 1..(k - 1) : wakeTime[w[j]] <= wakeTime[t]
  BY <1>3, <1>4, Zenon DEF WalkFacts
<1> DEFINE pred == prev[M.cur]
<1>6. /\ M.cur # Nil /\ wakeTime[t] < wakeTime[M.cur]
      /\ prev' = [prev EXCEPT ![t] = pred, ![M.cur] = t]
      /\ pred # Nil => /\ next' = [next EXCEPT ![t] = M.cur, ![pred] = t]
                       /\ waitingHead' = waitingHead
      /\ pred = Nil => /\ next' = [next EXCEPT ![t] = M.cur]
                       /\ waitingHead' = t
      /\ call' = [call EXCEPT ![currentTask] = MovedTo(M, "ask")]
      /\ UNCHANGED <<still, state, timeLeft, wakeTime, readyTasks, bitmap, pendSV,
                     stoppedHead>>
  <2>1. Me = M /\ Me.target = t
    BY <1>3, <1>5
  <2>2. call' = [call EXCEPT ![currentTask] = MovedTo(M, "ask")]
    BY <2>1, GotoIs DEF InsertBefore
  <2> QED BY <2>1, <2>2 DEF InsertBefore, Sooner
<1>7. k \in 1..Len(w) /\ M.cur = w[k] /\ k <= Len(w)
  BY <1>5, <1>6
<1>8. pred = IF k = 1 THEN Nil ELSE w[k - 1]
  BY <1>5, <1>7 DEF TwoLists, Mirrored
<1>9. k # 1 => k - 1 \in 1..Len(w) /\ k > 1
  BY <1>5, <1>7
<1>10. /\ M.cur \in Task /\ M.cur # t /\ M.cur \in Link
       /\ k # 1 => pred \in Task /\ pred # t /\ pred # Nil /\ pred # M.cur
       /\ pred \in Link
  <2>1. M.cur \in Task /\ M.cur # t
    BY <1>5, <1>7
  <2>2. k # 1 => pred \in Task /\ pred # t /\ pred # Nil
    BY <1>5, <1>8, <1>9
  <2>3. k # 1 => k - 1 # k
    BY <1>5
  <2>4. k # 1 => pred # M.cur
    BY <1>5, <1>7, <1>8, <1>9, <2>3
  <2> QED BY <1>8, <2>1, <2>2, <2>4 DEF Link
<1> HIDE DEF pred
<1>11. /\ prev' \in [Task -> Link] /\ prev'[t] = pred /\ prev'[M.cur] = t
       /\ \A u \in Task \ {t} : u # M.cur => prev'[u] = prev[u]
  BY <1>5, <1>6, <1>10
<1>12. /\ next' \in [Task -> Link] /\ next'[t] = M.cur
       /\ k # 1 => next'[pred] = t /\ waitingHead' = waitingHead
       /\ k = 1 => waitingHead' = t
       /\ \A u \in Task \ {t} : ~(k # 1 /\ u = pred) => next'[u] = next[u]
  <2>1. CASE k = 1
    <3>1. pred = Nil
      BY <1>8, <2>1
    <3> QED BY <1>5, <1>6, <1>10, <2>1, <3>1
  <2>2. CASE k # 1
    BY <1>5, <1>6, <1>10, <2>2
  <2> QED BY <2>1, <2>2
<1>13. state' = [state EXCEPT ![t] = "WAITING"]
  BY <1>3, <1>4, <1>6, AlreadyWaiting
<1>14. Inserted(next, prev, waitingHead, next', prev', waitingHead', w, t, k)
  BY <1>7, <1>8, <1>9, <1>11, <1>12 DEF Inserted
<1>15. Place(w, wakeTime, t, k)
  BY <1>5, <1>6, <1>7 DEF Place
<1>16. /\ Inserted(next, prev, waitingHead, next', prev', waitingHead',
                   o.waitingTasks, M.target, k)
       /\ Place(o.waitingTasks, wakeTime, M.target, k)
       /\ state' = [state EXCEPT ![M.target] = "WAITING"]
       /\ M.pc \in {"head", "walk"}
  BY <1>3, <1>5, <1>13, <1>14, <1>15
<1> QED
  BY <1>1, <1>2, <1>6, <1>16, InsertedStep
LEMMA ListHeadStep ==
    ASSUME CallsInv, Disciplined, Remember, ListHead
    PROVE  CallsOK' /\ UNCHANGED P!vars
<1>1. K!ClientRuns /\ Me.pc = "head" /\ Me # NoCall /\ Me # Yield
  BY AtFacts DEF ListHead
<1>2. PICK M, o : CallFacts(M, o)
  BY <1>1, CallHasFacts
<1>3. M = Me /\ M.pc = "head"
  BY <1>1, <1>2, CallParts
<1>4. PICK w, s, t, k : WalkFacts(M, o, w, s, t, k)
  BY <1>2, <1>3, WalkHasFacts
<1>5. /\ w = o.waitingTasks /\ s = o.stoppedTasks /\ t = M.target /\ t \in Task
      /\ t \in Link /\ Len(w) \in Nat /\ (w = <<>> <=> Len(w) = 0)
      /\ \A i \in 1..Len(w) : w[i] \in Task /\ w[i] # Nil
      /\ TwoLists(next, prev, waitingHead, stoppedHead, w, s)
      /\ next \in [Task -> Link] /\ prev \in [Task -> Link]
      /\ k = 1 /\ M \in BlockingCall /\ M.op = "wait"
  BY <1>3, <1>4, Zenon DEF WalkFacts
<1>6. waitingHead = IF w = <<>> THEN Nil ELSE w[1]
  BY <1>5 DEF TwoLists, Linked
<1>7. state' = [state EXCEPT ![t] = "WAITING"]
  BY <1>3, <1>5 DEF ListHead
<1>8. UNCHANGED <<still, timeLeft, wakeTime, readyTasks, bitmap, pendSV,
                  stoppedHead>>
  BY DEF ListHead
<1>9. CASE waitingHead = Nil
  <2>1. /\ waitingHead' = t
        /\ next' = [next EXCEPT ![t] = Nil]
        /\ prev' = [prev EXCEPT ![t] = Nil]
        /\ call' = [call EXCEPT ![currentTask] = MovedTo(M, "ask")]
    BY <1>3, <1>5, <1>9, GotoIs DEF ListHead
  <2>2. w = <<>> /\ Len(w) = 0
    BY <1>5, <1>6, <1>9
  <2>3. Nil \in Link
    BY DEF Link
  <2>4. Inserted(next, prev, waitingHead, next', prev', waitingHead', w, t, k)
    BY <1>5, <2>1, <2>2, <2>3 DEF Inserted
  <2>5. Place(w, wakeTime, t, k)
    BY <1>5, <2>2 DEF Place
  <2>6. /\ Inserted(next, prev, waitingHead, next', prev', waitingHead',
                    o.waitingTasks, M.target, k)
        /\ Place(o.waitingTasks, wakeTime, M.target, k)
        /\ state' = [state EXCEPT ![M.target] = "WAITING"]
        /\ M.pc \in {"head", "walk"}
    BY <1>3, <1>5, <1>7, <2>4, <2>5
  <2> QED
    BY <1>1, <1>2, <1>8, <2>1, <2>6, InsertedStep
<1>10. CASE waitingHead # Nil
  <2> DEFINE M2 == Walking(M, waitingHead)
             p == priority[M.target]
             q == o.readyTasks[p]
             r == readyTasks[p]
  <2>1. /\ call' = [call EXCEPT ![currentTask] = M2]
        /\ UNCHANGED <<waitingHead, next, prev>>
    BY <1>3, <1>10 DEF ListHead, Walking
  <2>2. w # <<>> /\ waitingHead = w[1] /\ 1 \in 1..Len(w)
    BY <1>5, <1>6, <1>10
  <2>3. waitingHead \in Link
    BY <1>5, <2>2 DEF Link
  <2>4. /\ M2 \in BlockingCall /\ M2.pc = "walk" /\ M2.op = "wait" /\ M2.target = t
        /\ M2.cur = w[1]
    BY <1>5, <2>2, <2>3, WalkFields DEF SameCall
  <2> HIDE DEF M2
  <2>5. Walked(M2, w, wakeTime)
    <3>1. 1 \in 1..(Len(w) + 1) /\ 1 <= Len(w) /\ 1..(1 - 1) = {}
      BY <1>5, <2>2
    <3> QED BY <2>2, <2>4, <3>1 DEF Walked
  <2>6. state' = state
    BY <1>3, <1>4, <1>7, AlreadyWaiting
  <2>7. /\ state = StateIn(M, o.state) /\ readyTasks = [o.readyTasks EXCEPT ![p] = r]
        /\ Queue(M, p, q, r, bitmap, o.bitmap)
    BY <1>2, CallParts, Zenon
  <2>8. state' = StateIn(M2, o.state)
    BY <1>3, <1>5, <2>4, <2>6, <2>7 DEF StateIn, Removing
  <2>9. Queue(M2, p, q, r, bitmap, o.bitmap)
    <3> HIDE DEF p, q, r
    <3> QED BY <1>3, <1>5, <2>4, <2>7 DEF Queue
  <2>10. readyTasks' = [o.readyTasks EXCEPT ![p] = readyTasks'[p]] /\ readyTasks'[p] = r
    BY <1>8, <2>7
  <2>11. Queue(M2, p, o.readyTasks[p], readyTasks'[p], bitmap', o.bitmap)
    BY <1>8, <2>9, <2>10
  <2>12. UNCHANGED <<still, pendSV, timeLeft, wakeTime, links>>
    BY <1>8, <2>1 DEF links
  <2>13. /\ M2.pc \notin {"ask", "stop"} /\ M.pc # "ask" /\ M.op # "stop"
         /\ M2.op = M.op /\ M2.target = M.target
         /\ Walked(M2, o.waitingTasks, wakeTime)
    BY <1>3, <1>5, <2>4, <2>5
  <2> HIDE DEF q, r
  <2> QED
    BY <1>1, <1>2, <2>1, <2>4, <2>8, <2>10, <2>11, <2>12, <2>13, QuietStep
<1> QED BY <1>9, <1>10

LEMMA WalkStep ==
    ASSUME CallsInv, Disciplined, Remember, Walk
    PROVE  CallsOK' /\ UNCHANGED P!vars
<1>1. K!ClientRuns /\ Me.pc = "walk" /\ Me # NoCall /\ Me # Yield
  BY AtFacts DEF Walk
<1>2. PICK M, o : CallFacts(M, o)
  BY <1>1, CallHasFacts
<1>3. M = Me /\ M.pc = "walk"
  BY <1>1, <1>2, CallParts
<1>4. PICK w, s, t, k : WalkFacts(M, o, w, s, t, k)
  BY <1>2, <1>3, WalkHasFacts
<1>5. /\ w = o.waitingTasks /\ s = o.stoppedTasks /\ t = M.target /\ t \in Task
      /\ t \in K!Handle /\ wakeTime \in [K!Handle -> Nat]
      /\ t \in Link /\ Len(w) \in Nat /\ (w = <<>> <=> Len(w) = 0)
      /\ \A i \in 1..Len(w) : w[i] \in Task /\ w[i] # Nil
      /\ TwoLists(next, prev, waitingHead, stoppedHead, w, s)
      /\ next \in [Task -> Link]
      /\ M \in BlockingCall /\ M.op = "wait"
      /\ k \in 1..(Len(w) + 1) /\ w # <<>>
      /\ M.cur = IF k <= Len(w) THEN w[k] ELSE Nil
      /\ \A j \in 1..(k - 1) : wakeTime[w[j]] <= wakeTime[t]
  BY <1>3, <1>4, Zenon DEF WalkFacts
<1> DEFINE M2 == Passed(M, M.cur, next[M.cur])
           p == priority[M.target]
           q == o.readyTasks[p]
           r == readyTasks[p]
<1>6. /\ M.cur # Nil /\ ~(wakeTime[t] < wakeTime[M.cur])
      /\ call' = [call EXCEPT ![currentTask] = M2]
      /\ UNCHANGED <<still, state, timeLeft, wakeTime, readyTasks, bitmap, pendSV,
                     links>>
  BY <1>3, <1>5 DEF Walk, Sooner, Passed
<1>7. /\ k \in 1..Len(w) /\ M.cur = w[k] /\ M.cur \in Task
  BY <1>5, <1>6
<1>8. next[M.cur] = IF k + 1 <= Len(w) THEN w[k + 1] ELSE Nil
  <2>1. next[w[k]] = IF k < Len(w) THEN w[k + 1] ELSE Nil
    BY <1>5, <1>7 DEF TwoLists, Linked
  <2> QED BY <1>5, <1>7, <2>1
<1>9. /\ M2 \in BlockingCall /\ M2.pc = "walk" /\ M2.op = "wait" /\ M2.target = t
      /\ M2.cur = next[M.cur] /\ M2.before = w[k]
  <2>1. M.cur \in Link /\ next[M.cur] \in Link
    BY <1>5, <1>7 DEF Link
  <2>2. /\ SameCall(M2, M, M.pc) /\ M2.cur = next[M.cur] /\ M2.before = M.cur
    <3>1. M \in BlockingCall
      BY <1>5
    <3> QED BY <2>1, <3>1, PassedFields
  <2> HIDE DEF M2
  <2> QED BY <1>3, <1>5, <1>7, <2>2 DEF SameCall
<1> HIDE DEF M2
<1>10. Walked(M2, w, wakeTime)
  <2>1. wakeTime[w[k]] <= wakeTime[t]
    <3>1. w[k] \in K!Handle
      BY <1>5, <1>7, TaskFacts DEF K!Handle
    <3> QED BY <1>5, <1>6, <1>7, <3>1
  <2>2. \A j \in 1..(k + 1 - 1) : wakeTime[w[j]] <= wakeTime[t]
    <3>1. \A j \in 1..(k + 1 - 1) : j = k \/ j \in 1..(k - 1)
      BY <1>7
    <3> QED BY <1>5, <2>1, <3>1
  <2>3. k + 1 \in 1..(Len(w) + 1) /\ k + 1 - 1 = k
    BY <1>5, <1>7
  <2> QED BY <1>5, <1>8, <1>9, <2>2, <2>3 DEF Walked
<1>11. /\ state = StateIn(M, o.state) /\ readyTasks = [o.readyTasks EXCEPT ![p] = r]
       /\ Queue(M, p, q, r, bitmap, o.bitmap)
  BY <1>2, CallParts, Zenon
<1>12. state' = StateIn(M2, o.state)
  BY <1>3, <1>5, <1>6, <1>9, <1>11 DEF StateIn, Removing
<1>13. Queue(M2, p, q, r, bitmap, o.bitmap)
  <2> HIDE DEF p, q, r
  <2> QED BY <1>3, <1>5, <1>9, <1>11 DEF Queue
<1>14. readyTasks' = [o.readyTasks EXCEPT ![p] = readyTasks'[p]] /\ readyTasks'[p] = r
  BY <1>6, <1>11
<1>15. Queue(M2, p, o.readyTasks[p], readyTasks'[p], bitmap', o.bitmap)
  BY <1>6, <1>13, <1>14
<1>16. /\ M2.pc \notin {"ask", "stop"} /\ M.pc # "ask" /\ M.op # "stop"
       /\ M2.op = M.op /\ M2.target = M.target
       /\ Walked(M2, o.waitingTasks, wakeTime)
  BY <1>3, <1>5, <1>9, <1>10
<1> HIDE DEF q, r
<1> QED
  BY <1>1, <1>2, <1>6, <1>9, <1>12, <1>14, <1>15, <1>16, QuietStep

LEMMA AddStoppedStep ==
    ASSUME CallsInv, Disciplined, Remember, mk_sched_addStoppedTask
    PROVE  CallsOK' /\ UNCHANGED P!vars
<1>1. K!ClientRuns /\ Me.pc = "stop" /\ Me # NoCall /\ Me # Yield
  BY AtFacts DEF mk_sched_addStoppedTask
<1>2. PICK M, o : CallFacts(M, o)
  BY <1>1, CallHasFacts
<1> DEFINE w == o.waitingTasks
           s == o.stoppedTasks
           t == M.target
           s2 == InsertAt(s, 1, t)
           M2 == MovedTo(M, "ask")
<1>3. /\ M = Me /\ M.pc = "stop" /\ M.op = "stop" /\ M \in BlockingCall
      /\ t \in Task /\ t \notin Elems(w) /\ t \notin Elems(s)
  BY <1>1, <1>2, CallParts
<1>4. TwoLists(next, prev, waitingHead, stoppedHead, w, s)
  BY <1>2, <1>3, CallLinks
<1>5. /\ next' = [next EXCEPT ![t] = stoppedHead] /\ stoppedHead' = t
      /\ state' = [state EXCEPT ![t] = "STOPPED"]
      /\ call' = [call EXCEPT ![currentTask] = M2]
      /\ UNCHANGED <<still, timeLeft, wakeTime, readyTasks, bitmap, pendSV,
                     waitingHead, prev>>
  BY <1>3, GotoIs DEF mk_sched_addStoppedTask
<1>6. TwoLists(next', prev', waitingHead', stoppedHead', w, s2)
  <2> HIDE DEF w, s, t
  <2> QED BY <1>3, <1>4, <1>5, StoppedGrows
<1>7. ListsRight' /\ Chain(waitingHead)' = w /\ Chain(stoppedHead)' = s2
  <2>1. \A x, y : x = w /\ y = s2 =>
           (TwoLists(next', prev', waitingHead', stoppedHead', x, y)
              => ListsRight' /\ Chain(waitingHead)' = x /\ Chain(stoppedHead)' = y)
    BY ListsBecome
  <2> HIDE DEF w, s2
  <2> QED BY <1>6, <2>1
<1>8. M2.pc = "ask" /\ M2.op = "stop" /\ M2.target = t
  BY <1>3, CallFields DEF SameCall, Listing
<1>9. Listed(M2, w, s, wakeTime, Chain(waitingHead)', Chain(stoppedHead)')
  <2> HIDE DEF M2, s, w, t
  <2> QED BY <1>7, <1>8 DEF Listed
<1>10. /\ M.pc \in {"head", "walk", "stop"}
       /\ state' = [state EXCEPT ![M.target] =
                      IF M.op = "wait" THEN "WAITING" ELSE "STOPPED"]
  BY <1>3, <1>5
<1> HIDE DEF s2
<1> QED BY <1>1, <1>2, <1>5, <1>7, <1>9, <1>10, ListedStep
-----------------------------------------------------------------------------
(* The end of a call, which is the step that MkKernel sees.                *)

LEMMA SameNames ==
    /\ P!Task = Task /\ P!Handle = K!Handle /\ P!Level = K!Level
    /\ P!TaskIDs = K!TaskIDs /\ (P!ClientRuns <=> K!ClientRuns)
    /\ \A q, t : P!Without(q, t) = K!Without(q, t)
    /\ \A q, i, t : P!InsertAt(q, i, t) = InsertAt(q, i, t)
    /\ \A id, t : P!mk_task_getTaskByID(id, t) <=> K!mk_task_getTaskByID(id, t)
<1>1. /\ P!Task = Task /\ P!Handle = K!Handle /\ P!Level = K!Level
      /\ P!TaskIDs = K!TaskIDs
  BY DEF P!Task, Task, K!Task, P!Handle, K!Handle, P!Level, K!Level, P!TaskIDs,
         K!TaskIDs
<1>2. P!ClientRuns <=> K!ClientRuns
  BY DEF P!ClientRuns, K!ClientRuns, P!Task, K!Task
<1>3. ASSUME NEW q, NEW t PROVE P!Without(q, t) = K!Without(q, t)
  BY DEF P!Without, K!Without, P!RemoveAt, K!RemoveAt
<1>4. ASSUME NEW q, NEW i, NEW t PROVE P!InsertAt(q, i, t) = InsertAt(q, i, t)
  BY DEF P!InsertAt, InsertAt
<1>5. ASSUME NEW id, NEW t
      PROVE  P!mk_task_getTaskByID(id, t) <=> K!mk_task_getTaskByID(id, t)
  BY DEF P!mk_task_getTaskByID, K!mk_task_getTaskByID, P!Task, K!Task
<1> QED BY <1>1, <1>2, <1>3, <1>4, <1>5

LEMMA ReturnFacts ==
    ASSUME CallsInv, Disciplined, Return
    PROVE  /\ OneCaller' /\ ListsRight' /\ Progress'
           /\ Seen = outside /\ Plain' /\ P!ClientRuns /\ pendSV' = TRUE
           /\ UNCHANGED <<still, state, timeLeft, wakeTime, readyTasks, bitmap>>
           /\ Chain(waitingHead)' = Chain(waitingHead)
           /\ Chain(stoppedHead)' = Chain(stoppedHead)
<1>1. OneCaller /\ ListsRight
  BY DEF CallsInv, CallsOK
<1>2. K!ClientRuns /\ Me # NoCall /\ currentTask \in Task
  BY AtFacts DEF Return, K!ClientRuns, Task
<1>3. InCall
  BY <1>2 DEF InCall, Me
<1>4. /\ call' = [t \in Task |-> IF t = currentTask THEN NoCall ELSE call[t]]
      /\ UNCHANGED <<still, state, timeLeft, wakeTime, readyTasks, bitmap, links>>
      /\ pendSV' = TRUE
  BY <1>1 DEF Return, OneCaller
<1>5. \A t \in Task : call'[t] = NoCall
  BY <1>1, <1>4 DEF OneCaller
<1>6. ~InCall'
  BY <1>5 DEF InCall
<1>7. OneCaller'
  BY <1>4, <1>5 DEF OneCaller
<1>8. ListsRight' /\ Chain(waitingHead)' = Chain(waitingHead)
      /\ Chain(stoppedHead)' = Chain(stoppedHead)
  BY <1>1, <1>4, ListsSame
<1>9. Seen = outside /\ Plain'
  BY <1>3, <1>6, SeenFacts, SeenFactsNext
<1> QED BY <1>2, <1>4, <1>6, <1>7, <1>8, <1>9, SameNames DEF Progress

LEMMA ReturnYield ==
    ASSUME CallsInv, Disciplined, Return, Yielding(Me, outside)
    PROVE  P!Next
<1>1. /\ Seen = outside /\ Plain' /\ P!ClientRuns /\ pendSV' = TRUE
      /\ UNCHANGED <<still, state, timeLeft, wakeTime, readyTasks, bitmap>>
      /\ Chain(waitingHead)' = Chain(waitingHead)
      /\ Chain(stoppedHead)' = Chain(stoppedHead)
  BY ReturnFacts
<1>2. PICK id \in K!TaskIDs, h \in K!Handle :
         /\ K!mk_task_getTaskByID(id, h)
         /\ timeLeft = [outside.timeLeft EXCEPT ![h] = 0]
  BY DEF Yielding
<1>3. /\ outside.state = state /\ outside.wakeTime = wakeTime
      /\ outside.readyTasks = readyTasks /\ outside.bitmap = bitmap
      /\ outside.waitingTasks = Chain(waitingHead)
      /\ outside.stoppedTasks = Chain(stoppedHead)
  BY DEF Yielding
<1>4. P!mk_yieldTask(id)
  <2>1. P!mk_task_getTaskByID(id, h) /\ h \in P!Handle
    BY <1>2, SameNames
  <2>2. Seen.timeLeft' = [Seen.timeLeft EXCEPT ![h] = 0]
    BY <1>1, <1>2 DEF Plain
  <2>3. UNCHANGED <<Seen.state, Seen.wakeTime, Seen.readyTasks, Seen.bitmap,
                    Seen.waitingTasks, Seen.stoppedTasks>>
    BY <1>1, <1>3 DEF Plain
  <2> QED
    BY <1>1, <2>1, <2>2, <2>3 DEF P!mk_yieldTask, P!boot, P!sched, P!handler, still
<1> QED BY <1>2, <1>4, SameNames DEF P!Next, P!KernelCall

\* What MkKernel sees of the queues when a wait or a stop of t ends.
LEMMA ReturnRemoves ==
    ASSUME CallsInv, Disciplined, Return, NEW M, NEW o, CallFacts(M, o)
    PROVE  /\ P!mk_sched_removeReadyTask(M.target)
           /\ Seen.state[M.target] = "READY"
           /\ Seen.timeLeft' = Seen.timeLeft
           /\ Seen.state' = [Seen.state EXCEPT ![M.target] =
                               IF M.op = "wait" THEN "WAITING" ELSE "STOPPED"]
           /\ \E id \in P!TaskIDs : P!mk_task_getTaskByID(id, M.target)
           /\ M.target \in P!Task
<1> DEFINE t == M.target
           p == priority[t]
           r == readyTasks[p]
<1>1. /\ Seen = outside /\ Plain' /\ priority' = priority
      /\ UNCHANGED <<state, timeLeft, readyTasks, bitmap>>
  BY ReturnFacts DEF still
<1>2. o = outside /\ Asked(M, o)
  BY Zenon DEF CallFacts, Blocking
<1>3. /\ M = Me /\ t \in Task /\ state = StateIn(M, o.state)
      /\ readyTasks = [o.readyTasks EXCEPT ![p] = r]
      /\ Queue(M, p, o.readyTasks[p], r, bitmap, o.bitmap)
  BY CallParts, Zenon
<1>4. M.pc = "ask"
  BY <1>3 DEF Return, At
<1>5. /\ r = K!Without(o.readyTasks[p], t)
      /\ bitmap = IF r = <<>> THEN o.bitmap \ {p} ELSE o.bitmap
  <2> HIDE DEF p, r
  <2> QED BY <1>3, <1>4 DEF Queue
<1>6. P!mk_sched_removeReadyTask(t)
  <2>1. /\ Seen.readyTasks = o.readyTasks /\ Seen.bitmap = o.bitmap
        /\ Seen.readyTasks' = readyTasks /\ Seen.bitmap' = bitmap
    BY <1>1, <1>2 DEF Plain
  <2>2. r = P!Without(Seen.readyTasks[p], t)
    BY <1>5, <2>1, SameNames
  <2>3. Seen.readyTasks' = [Seen.readyTasks EXCEPT ![p] = r]
    BY <1>3, <2>1
  <2>4. Seen.bitmap' = IF r = <<>> THEN Seen.bitmap \ {p} ELSE Seen.bitmap
    BY <1>5, <2>1
  <2> HIDE DEF r
  <2> QED BY <2>2, <2>3, <2>4 DEF P!mk_sched_removeReadyTask
<1>7. Seen.state[t] = "READY" /\ Seen.timeLeft' = Seen.timeLeft
  BY <1>1, <1>2 DEF Asked, Plain
<1>8. Seen.state' = [Seen.state EXCEPT ![t] =
                       IF M.op = "wait" THEN "WAITING" ELSE "STOPPED"]
  BY <1>1, <1>2, <1>3, <1>4 DEF StateIn, Removing, Plain
<1>9. /\ \E id \in P!TaskIDs : P!mk_task_getTaskByID(id, t)
      /\ t \in P!Task
  BY <1>2, <1>3, SameNames DEF Asked
<1> QED BY <1>6, <1>7, <1>8, <1>9

LEMMA ReturnStop ==
    ASSUME CallsInv, Disciplined, Return, NEW M, NEW o, CallFacts(M, o),
           M.op = "stop"
    PROVE  P!Next
<1> DEFINE t == M.target
<1>1. /\ Seen = outside /\ Plain' /\ P!ClientRuns /\ pendSV' = TRUE
      /\ UNCHANGED <<still, wakeTime>>
      /\ Chain(waitingHead)' = Chain(waitingHead)
      /\ Chain(stoppedHead)' = Chain(stoppedHead)
  BY ReturnFacts
<1>2. /\ P!mk_sched_removeReadyTask(t) /\ Seen.state[t] = "READY"
      /\ Seen.timeLeft' = Seen.timeLeft /\ t \in P!Task
      /\ Seen.state' = [Seen.state EXCEPT ![t] = "STOPPED"]
      /\ \E id \in P!TaskIDs : P!mk_task_getTaskByID(id, t)
  BY ReturnRemoves
<1>3. PICK id \in P!TaskIDs : P!mk_task_getTaskByID(id, t)
  BY <1>2
<1>4. o = outside /\ M = Me /\ wakeTime = o.wakeTime
  BY Zenon DEF CallFacts, Blocking, Asked
<1>5. Listed(M, o.waitingTasks, o.stoppedTasks, wakeTime,
             Chain(waitingHead), Chain(stoppedHead))
  BY CallParts
<1>6. /\ Chain(waitingHead) = o.waitingTasks
      /\ Chain(stoppedHead) = InsertAt(o.stoppedTasks, 1, t)
  <2>1. M.pc = "ask"
    BY <1>4 DEF Return, At
  <2> QED BY <1>5, <2>1 DEF Listed
<1>7. P!mk_sched_addStoppedTask(t)
  BY <1>1, <1>4, <1>6, SameNames DEF P!mk_sched_addStoppedTask, Plain
<1>8. Seen.waitingTasks' = Seen.waitingTasks /\ Seen.wakeTime' = Seen.wakeTime
  BY <1>1, <1>4, <1>6 DEF Plain
<1>9. P!mk_stopTask(id)
  BY <1>1, <1>2, <1>3, <1>7, <1>8 DEF P!mk_stopTask, P!boot, P!handler, still
<1> QED BY <1>9 DEF P!Next, P!KernelCall

LEMMA ReturnWait ==
    ASSUME CallsInv, Disciplined, Return, NEW M, NEW o, CallFacts(M, o),
           M.op = "wait"
    PROVE  P!Next
<1> DEFINE t == M.target
           w == o.waitingTasks
<1>1. /\ Seen = outside /\ Plain' /\ P!ClientRuns /\ pendSV' = TRUE
      /\ UNCHANGED <<still, wakeTime>>
      /\ Chain(waitingHead)' = Chain(waitingHead)
      /\ Chain(stoppedHead)' = Chain(stoppedHead)
  BY ReturnFacts
<1>2. /\ P!mk_sched_removeReadyTask(t) /\ Seen.state[t] = "READY"
      /\ Seen.timeLeft' = Seen.timeLeft /\ t \in P!Task
      /\ Seen.state' = [Seen.state EXCEPT ![t] = "WAITING"]
      /\ \E id \in P!TaskIDs : P!mk_task_getTaskByID(id, t)
  BY ReturnRemoves
<1>3. PICK id \in P!TaskIDs : P!mk_task_getTaskByID(id, t)
  BY <1>2
<1>4. /\ o = outside /\ M = Me /\ w \in Seq(Task) /\ t \notin Elems(w)
      /\ t \in K!Handle /\ o.wakeTime \in [K!Handle -> 0..(TickMod - 1)]
  <2>1. t \in K!Handle
    BY CallParts
  <2> QED BY <2>1, Zenon DEF CallFacts, Blocking
<1>5. PICK d \in WaitTimes :
         wakeTime = [o.wakeTime EXCEPT ![t] = (tickCount + d) % TickMod]
  BY Zenon DEF CallFacts, Blocking, Asked
<1> DEFINE at == (tickCount + d) % TickMod
<1>6. Listed(M, w, o.stoppedTasks, wakeTime, Chain(waitingHead),
             Chain(stoppedHead))
  BY CallParts
<1>7. /\ Chain(stoppedHead) = o.stoppedTasks
      /\ \E k \in 1..(Len(w) + 1) :
           /\ \A j \in 1..(k - 1) : wakeTime[w[j]] <= wakeTime[t]
           /\ k <= Len(w) => wakeTime[t] < wakeTime[w[k]]
           /\ Chain(waitingHead) = InsertAt(w, k, t)
  <2>1. M.pc = "ask"
    BY <1>4 DEF Return, At
  <2> HIDE DEF w, t
  <2> QED BY <1>6, <2>1 DEF Listed, t
<1>8. PICK k \in 1..(Len(w) + 1) :
           /\ \A j \in 1..(k - 1) : wakeTime[w[j]] <= wakeTime[t]
           /\ k <= Len(w) => wakeTime[t] < wakeTime[w[k]]
           /\ Chain(waitingHead) = InsertAt(w, k, t)
  BY <1>7
<1>9. /\ wakeTime[t] = at
      /\ \A j \in 1..Len(w) : wakeTime[w[j]] = o.wakeTime[w[j]]
  <2>1. \A j \in 1..Len(w) : w[j] # t
    BY <1>4, ElemsFacts
  <2> HIDE DEF at, t, w
  <2> QED BY <1>4, <1>5, <2>1 DEF at
<1>10. /\ \A j \in 1..(k - 1) : o.wakeTime[w[j]] <= at
       /\ k <= Len(w) => at < o.wakeTime[w[k]]
  <2>1. Len(w) \in Nat
    BY <1>4
  <2>2. /\ \A j \in 1..(k - 1) : j \in 1..Len(w)
        /\ k <= Len(w) => k \in 1..Len(w)
    <3> HIDE DEF w
    <3> QED BY <2>1
  <2> HIDE DEF at, w, t
  <2> QED BY <1>8, <1>9, <2>2
<1>11. P!mk_sched_addWaitingTask(t, at)
  <2>1. /\ Seen.waitingTasks = w /\ Seen.wakeTime = o.wakeTime
        /\ Seen.waitingTasks' = P!InsertAt(w, k, t)
    BY <1>1, <1>4, <1>8, SameNames DEF Plain
  <2>2. P!InsertPoint(at, k)
    <3> HIDE DEF at, w
    <3> QED BY <1>10, <2>1 DEF P!InsertPoint
  <2> HIDE DEF at, w, t
  <2> QED BY <2>1, <2>2 DEF P!mk_sched_addWaitingTask
<1>12. /\ Seen.stoppedTasks' = Seen.stoppedTasks
       /\ Seen.wakeTime' = [Seen.wakeTime EXCEPT ![t] = at]
  BY <1>1, <1>4, <1>5, <1>7 DEF Plain
<1>13. P!mk_waitTask(id, d)
  <2> HIDE DEF t
  <2> QED
    BY <1>1, <1>2, <1>3, <1>11, <1>12 DEF P!mk_waitTask, P!boot, P!handler, still
<1> QED BY <1>13 DEF P!Next, P!KernelCall

LEMMA ReturnStep ==
    ASSUME CallsInv, Disciplined, Return
    PROVE  CallsOK' /\ P!Next
<1>1. CallsOK'
  BY ReturnFacts DEF CallsOK
<1>2. CASE Me # Yield
  <2>1. K!ClientRuns /\ Me # NoCall
    BY AtFacts DEF Return
  <2>2. PICK M, o : CallFacts(M, o)
    BY <1>2, <2>1, CallHasFacts
  <2>3. M.op \in {"wait", "stop"}
    BY <2>2, CallParts
  <2> QED BY <1>1, <2>2, <2>3, ReturnStop, ReturnWait
<1>3. CASE Me = Yield
  <2>1. InCall /\ Progress
    BY AtFacts DEF Return, InCall, Me, K!ClientRuns, Task, CallsInv, CallsOK
  <2>2. Me \notin BlockingCall
    BY <1>3 DEF Yield, BlockingCall
  <2>3. Yielding(Me, outside)
    BY <2>1, <2>2, Zenon DEF Progress, Blocking
  <2> QED BY <1>1, <2>3, ReturnYield
<1> QED BY <1>2, <1>3
-----------------------------------------------------------------------------
(* The beginning of a call.                                                *)

LEMMA BeginFacts ==
    ASSUME CallsInv, Disciplined, Remember, K!ClientRuns, Me = NoCall, NEW M2,
           M2 # NoCall, call' = [call EXCEPT ![currentTask] = M2],
           UNCHANGED <<still, pendSV>>
    PROVE  /\ outside' = Snapshot /\ Me' = M2 /\ Plain
           /\ OneCaller' /\ UNCHANGED P!vars
<1>0. OneCaller
  BY DEF CallsInv, CallsOK
<1>1. currentTask \in Task /\ currentTask' = currentTask
  BY DEF K!ClientRuns, Task, still
<1>2. call' = [t \in Task |-> IF t = currentTask THEN M2 ELSE call[t]]
  BY <1>0 DEF OneCaller
<1>3. Me' = M2
  BY <1>1, <1>2 DEF Me
<1>4. ~InCall
  BY <1>0, CallerFacts
<1>5. InCall'
  <2>1. call'[currentTask] # NoCall   BY <1>1, <1>2
  <2> QED BY <1>1, <2>1 DEF InCall
<1>6. outside' = Snapshot
  BY <1>4, <1>5 DEF Remember
<1>7. OneCaller'
  <2>1. K!ClientRuns'
    BY <1>1 DEF K!ClientRuns, still
  <2>2. ASSUME NEW c \in Task, call'[c] # NoCall PROVE c = currentTask
    BY <1>0, <1>2, <2>2 DEF OneCaller
  <2> QED BY <1>1, <1>2, <2>1, <2>2 DEF OneCaller
<1>8. Seen' = Seen
  BY <1>4, <1>5, <1>6, SeenFactsNext DEF Seen
<1>9. UNCHANGED P!vars
  BY <1>8 DEF still, P!vars, P!boot, P!tcb, P!sched, P!handler
<1> QED BY <1>3, <1>4, <1>6, <1>7, <1>9, SeenFacts

LEMMA BeginStep ==
    ASSUME CallsInv, Disciplined, Remember, NEW op \in {"wait", "stop"},
           NEW id \in K!TaskIDs, NEW t \in Task, K!mk_task_getTaskByID(id, t),
           Begin(op, t),
           op = "stop" => wakeTime' = wakeTime,
           op = "wait" => \E d \in WaitTimes :
              wakeTime' = [wakeTime EXCEPT ![t] = (tickCount + d) % TickMod]
    PROVE  CallsOK' /\ UNCHANGED P!vars
<1>1. /\ K!ClientRuns /\ Me = NoCall /\ state[t] = "READY"
      /\ UNCHANGED <<still, state, timeLeft, readyTasks, bitmap, pendSV, links>>
  BY DEF Begin, Disciplined
<1>2. \E M, o, p, q : /\ M = Begun(op, t) /\ o = Snapshot
                      /\ p = priority[t] /\ q = readyTasks[p]
  OBVIOUS
<1>3. PICK M, o, p, q : /\ M = Begun(op, t) /\ o = Snapshot
                        /\ p = priority[t] /\ q = readyTasks[p]
  BY <1>2
<1>4. ~InCall /\ P!KernelInv /\ OneCaller /\ ListsRight
  BY <1>1, CallerFacts DEF CallsInv, CallsOK
<1>5. t \in K!Handle
  BY TaskFacts DEF K!Handle
<1>6. /\ p \in K!Level /\ readyTasks \in [K!Level -> Seq(Task)]
      /\ q \in Seq(Task) /\ Once(q) /\ Len(q) \in Nat
      /\ state \in [K!Handle -> K!TaskState]
  <2>1. Plain
    BY <1>4, SeenFacts
  <2>2. /\ priority \in [K!Handle -> K!Level]
        /\ readyTasks \in [K!Level -> Seq(Task)]
        /\ state \in [K!Handle -> K!TaskState]
    BY <1>4, <2>1, SeenTyped DEF Plain
  <2>3. \A l \in K!Level : Once(readyTasks[l])
    BY <1>4, <2>1, SeenOnce DEF Plain
  <2> QED BY <1>3, <1>5, <2>2, <2>3
<1>7. /\ M \in BlockingCall /\ M.pc = "pop" /\ M.op = op /\ M.target = t
      /\ M.left = Len(q)
  <2>1. M = [pc |-> "pop", op |-> op, target |-> t, left |-> Len(q), handle |-> Nil,
             bits |-> {}, cur |-> Nil, before |-> Nil]
    BY <1>1, <1>3 DEF Begun
  <2>2. Nil \in Link /\ {} \in SUBSET K!Level
    BY DEF Link
  <2> HIDE DEF Link
  <2> QED BY <1>6, <2>1, <2>2 DEF BlockingCall, Removing
<1>8. call' = [call EXCEPT ![currentTask] = M]
  BY <1>3 DEF Begin
<1>9. /\ outside' = o /\ Me' = M /\ OneCaller' /\ UNCHANGED P!vars
  <2>1. M # NoCall
    BY <1>7 DEF NoCall
  <2> QED BY <1>1, <1>3, <1>8, <2>1, BeginFacts
<1>10. /\ o.state = state /\ o.timeLeft = timeLeft /\ o.wakeTime = wakeTime
       /\ o.readyTasks = readyTasks /\ o.bitmap = bitmap
       /\ o.waitingTasks = Chain(waitingHead)
       /\ o.stoppedTasks = Chain(stoppedHead)
  BY <1>3 DEF Snapshot
<1>11. /\ ListsRight' /\ Chain(waitingHead)' = Chain(waitingHead)
       /\ Chain(stoppedHead)' = Chain(stoppedHead)
  BY <1>1, <1>4, ListsSame
<1>12. Asked(M, o)'
  <2>1. UNCHANGED <<taskID, active, tickCount, timeLeft>>
    BY <1>1 DEF still
  <2>2. \E i \in K!TaskIDs : K!mk_task_getTaskByID(i, M.target)'
    <3>1. K!mk_task_getTaskByID(id, M.target)'
      BY <1>7, <2>1 DEF K!mk_task_getTaskByID
    <3> QED BY <3>1
  <2>3. o.state[M.target] = "READY" /\ timeLeft' = o.timeLeft
    BY <1>1, <1>7, <1>10
  <2>4. M.op = "stop" => wakeTime' = o.wakeTime
    BY <1>7, <1>10
  <2>5. M.op = "wait" =>
         \E d \in WaitTimes :
           wakeTime' = [o.wakeTime EXCEPT ![M.target] = (tickCount' + d) % TickMod]
    BY <1>7, <1>10, <2>1
  <2> QED BY <2>2, <2>3, <2>4, <2>5, Zenon DEF Asked
<1>13. /\ state' = StateIn(M, o.state) /\ p = priority'[M.target]
       /\ readyTasks' = [o.readyTasks EXCEPT ![p] = readyTasks'[p]]
       /\ o.readyTasks[p] = q /\ readyTasks'[p] = q /\ bitmap' = o.bitmap
  BY <1>1, <1>3, <1>6, <1>7, <1>10 DEF StateIn, Removing, still
<1>14. Queue(M, p, q, q, o.bitmap, o.bitmap)
  <2>1. PICK k \in Nat : PlaceOf(q, t, k)
    BY <1>6, PlaceExists
  <2>2. k >= 1
    BY <2>1 DEF PlaceOf
  <2>3. Turned(q, q, 0, k)
    BY <1>6, <2>2, TurnedStart
  <2>4. Len(q) - M.left = 0 /\ M.left <= Len(q)
    BY <1>6, <1>7
  <2> QED BY <1>7, <2>1, <2>3, <2>4 DEF Queue
<1>15. Listed(M, o.waitingTasks, o.stoppedTasks, wakeTime',
              Chain(waitingHead)', Chain(stoppedHead)')
  BY <1>7, <1>10, <1>11 DEF Listed
<1>16. Queue(M, p, o.readyTasks[p], readyTasks'[p], bitmap', o.bitmap)
  BY <1>13, <1>14
<1>17. Progress'
  <2>1. M.pc \notin {"stop", "head", "walk"}
    BY <1>7
  <2> QED BY <1>7, <1>9, <1>12, <1>13, <1>15, <1>16, <2>1, BlockingNext
<1> QED BY <1>9, <1>11, <1>17 DEF CallsOK

LEMMA BeginYieldStep ==
    ASSUME CallsInv, Disciplined, Remember, NEW id \in K!TaskIDs, mk_yieldTask(id)
    PROVE  CallsOK' /\ UNCHANGED P!vars
<1>1. /\ K!ClientRuns /\ Me = NoCall
      /\ call' = [call EXCEPT ![currentTask] = Yield]
      /\ UNCHANGED <<still, state, wakeTime, readyTasks, bitmap, pendSV, links>>
  BY DEF mk_yieldTask, Yield
<1>2. PICK h \in K!Handle : /\ K!mk_task_getTaskByID(id, h)
                            /\ timeLeft' = [timeLeft EXCEPT ![h] = 0]
  BY DEF mk_yieldTask
<1>3. outside' = Snapshot /\ Me' = Yield /\ OneCaller' /\ UNCHANGED P!vars
  <2>1. Yield # NoCall
    BY DEF Yield, NoCall
  <2> QED BY <1>1, <2>1, BeginFacts
<1>4. /\ ListsRight' /\ Chain(waitingHead)' = Chain(waitingHead)
      /\ Chain(stoppedHead)' = Chain(stoppedHead)
  BY <1>1, ListsSame DEF CallsInv, CallsOK
<1>5. K!mk_task_getTaskByID(id, h)'
  BY <1>1, <1>2 DEF K!mk_task_getTaskByID, still
<1>6. Yielding(Me, outside)'
  <2>1. timeLeft' = [outside'.timeLeft EXCEPT ![h] = 0]
    BY <1>2, <1>3 DEF Snapshot
  <2>2. /\ outside'.state = state' /\ outside'.wakeTime = wakeTime'
        /\ outside'.readyTasks = readyTasks' /\ outside'.bitmap = bitmap'
        /\ outside'.waitingTasks = Chain(waitingHead)'
        /\ outside'.stoppedTasks = Chain(stoppedHead)'
    BY <1>1, <1>3, <1>4 DEF Snapshot
  <2> QED BY <1>3, <1>5, <2>1, <2>2 DEF Yielding
<1> QED BY <1>3, <1>4, <1>6 DEF CallsOK, Progress

-----------------------------------------------------------------------------
(* Every step, and the beginning.                                          *)

LEMMA StutterStep ==
    ASSUME CallsInv, UNCHANGED historyVars
    PROVE  CallsOK' /\ UNCHANGED P!vars
<1>1. /\ UNCHANGED <<still, state, timeLeft, wakeTime, readyTasks, bitmap, pendSV,
                     links, call, outside>>
  BY DEF historyVars, callsVars
<1>2. OneCaller /\ ListsRight /\ Progress
  BY DEF CallsInv, CallsOK
<1>3. /\ ListsRight' /\ Chain(waitingHead)' = Chain(waitingHead)
      /\ Chain(stoppedHead)' = Chain(stoppedHead)
  BY <1>1, <1>2, ListsSame
<1>4. OneCaller'
  BY <1>1, <1>2 DEF OneCaller, K!ClientRuns, still
<1>5. InCall' = InCall /\ Me' = Me /\ outside' = outside
  BY <1>1 DEF InCall, Me, still
<1>6. Progress'
  <2>1. SUFFICES ASSUME InCall PROVE Blocking(Me, outside)' \/ Yielding(Me, outside)'
    BY <1>5 DEF Progress
  <2>2. UNCHANGED <<taskID, active, tickCount, timeLeft, wakeTime, priority>>
    BY <1>1 DEF still
  <2>3. CASE Blocking(Me, outside)
    <3>1. Asked(Me, outside)'
      BY <1>5, <2>2, <2>3 DEF Blocking, Asked, K!mk_task_getTaskByID
    <3> QED BY <1>1, <1>3, <1>5, <2>2, <2>3, <3>1 DEF Blocking
  <2>4. CASE Yielding(Me, outside)
    BY <1>1, <1>3, <1>5, <2>2, <2>4 DEF Yielding, K!mk_task_getTaskByID
  <2> QED BY <1>2, <2>1, <2>3, <2>4 DEF Progress
<1>7. UNCHANGED P!vars
  <2>1. Seen' = Seen
    BY <1>1, <1>3, <1>5 DEF Seen, Snapshot
  <2> QED BY <1>1, <2>1 DEF still, P!vars, P!boot, P!tcb, P!sched, P!handler
<1> QED BY <1>3, <1>4, <1>6, <1>7 DEF CallsOK

LEMMA CallStepStep ==
    ASSUME CallsInv, Disciplined, Remember, CallStep
    PROVE  CallsOK' /\ [P!Next]_(P!vars)
<1>1. CASE Return
  BY <1>1, ReturnStep
<1>2. CASE ~Return
  BY <1>2, RotatePopStep, RotatePushStep, LoadBitmapStep, StoreBitmapStep, BlockStep,
     ListHeadStep, WalkStep, InsertBeforeStep, InsertLastStep, AddStoppedStep
     DEF CallStep
<1> QED BY <1>1, <1>2

LEMMA CallsStep ==
    ASSUME CallsInv, Disciplined, [HistoryNext]_historyVars
    PROVE  CallsOK' /\ [P!Next]_(P!vars)
<1>1. CASE UNCHANGED historyVars
  BY <1>1, StutterStep
<1>2. CASE Next /\ Remember
  <2>1. CASE mk_initKernel
    BY <2>1, InitKernelStep
  <2>2. CASE mk_startKernel \/ \E p \in K!Level : mk_createTask(p)
    BY <2>2, KernelSteps
  <2>3. ASSUME NEW id \in K!TaskIDs, NEW d \in WaitTimes, mk_waitTask(id, d)
        PROVE  CallsOK' /\ UNCHANGED P!vars
    <3>1. PICK t \in Task :
            /\ K!mk_task_getTaskByID(id, t) /\ Begin("wait", t)
            /\ wakeTime' = [wakeTime EXCEPT ![t] = (tickCount + d) % TickMod]
      BY <2>3 DEF mk_waitTask
    <3>2. \E e \in WaitTimes :
            wakeTime' = [wakeTime EXCEPT ![t] = (tickCount + e) % TickMod]
      BY <3>1
    <3> QED BY <1>2, <3>1, <3>2, BeginStep
  <2>4. ASSUME NEW id \in K!TaskIDs, mk_stopTask(id)
        PROVE  CallsOK' /\ UNCHANGED P!vars
    <3>1. PICK t \in Task : /\ K!mk_task_getTaskByID(id, t) /\ Begin("stop", t)
                            /\ wakeTime' = wakeTime
      BY <2>4 DEF mk_stopTask
    <3> QED BY <1>2, <3>1, BeginStep
  <2>5. ASSUME NEW id \in K!TaskIDs, mk_yieldTask(id)
        PROVE  CallsOK' /\ UNCHANGED P!vars
    BY <1>2, <2>5, BeginYieldStep
  <2>6. CASE CallStep
    BY <1>2, <2>6, CallStepStep
  <2>7. CASE SysTick_Handler
    <3>1. CASE WakeTask
      BY <3>1, WakeTaskStep
    <3>2. CASE ~WakeTask
      BY <2>7, <3>2, KernelSteps DEF SysTick_Handler
    <3> QED BY <3>1, <3>2
  <2>8. CASE PendSV_Handler
    BY <2>8, KernelSteps
  <2> QED
    BY <1>2, <2>1, <2>2, <2>3, <2>4, <2>5, <2>6, <2>7, <2>8 DEF Next
<1> QED BY <1>1, <1>2 DEF HistoryNext
-----------------------------------------------------------------------------
(* The theorems.  P is MkKernel_proofs, which extends MkKernel; Kernel is   *)
(* MkKernel with the same substitutions.                                   *)

LEMMA SameKernel ==
    /\ P!Init => Kernel!Init
    /\ [P!Next]_(P!vars) => [Kernel!Next]_(Kernel!vars)
<1>1. P!mk_initKernel => Kernel!mk_initKernel
  BY DEF P!mk_initKernel, Kernel!mk_initKernel, P!Idle, Kernel!Idle, P!Level,
         Kernel!Level, P!Task, Kernel!Task, P!handler, Kernel!handler
<1>2. ASSUME NEW p, P!mk_createTask(p) PROVE Kernel!mk_createTask(p)
  BY <1>2 DEF P!mk_createTask, Kernel!mk_createTask, P!ClientRuns,
         Kernel!ClientRuns, P!Task, Kernel!Task, P!mk_sched_addReadyTask,
         Kernel!mk_sched_addReadyTask, P!Pushed, Kernel!Pushed, P!BitSet,
         Kernel!BitSet, P!HasRoom, Kernel!HasRoom, P!boot, Kernel!boot,
         P!handler, Kernel!handler
<1>3. P!mk_startKernel => Kernel!mk_startKernel
  BY DEF P!mk_startKernel, Kernel!mk_startKernel, P!mk_sched_getNextTask,
         Kernel!mk_sched_getNextTask, P!RunIdle, Kernel!RunIdle,
         P!KeepCurrent, Kernel!KeepCurrent, P!SwitchTo, Kernel!SwitchTo,
         P!IsHighest, Kernel!IsHighest, P!ShouldSwitch, Kernel!ShouldSwitch,
         P!Pushed, Kernel!Pushed, P!BitSet, Kernel!BitSet, P!HasRoom,
         Kernel!HasRoom, P!Idle, Kernel!Idle, P!handler, Kernel!handler
<1>4. ASSUME NEW id, NEW d, P!mk_waitTask(id, d) PROVE Kernel!mk_waitTask(id, d)
  BY <1>4 DEF P!mk_waitTask, Kernel!mk_waitTask, P!ClientRuns, Kernel!ClientRuns,
         P!Task, Kernel!Task, P!mk_task_getTaskByID,
         Kernel!mk_task_getTaskByID, P!mk_sched_addWaitingTask,
         Kernel!mk_sched_addWaitingTask, P!InsertPoint, Kernel!InsertPoint,
         P!mk_sched_removeReadyTask, Kernel!mk_sched_removeReadyTask,
         P!Without, Kernel!Without, P!RemoveAt, Kernel!RemoveAt, P!InsertAt,
         Kernel!InsertAt, P!boot, Kernel!boot, P!handler, Kernel!handler
<1>5. ASSUME NEW id, P!mk_yieldTask(id) PROVE Kernel!mk_yieldTask(id)
  BY <1>5 DEF P!mk_yieldTask, Kernel!mk_yieldTask, P!ClientRuns, Kernel!ClientRuns,
         P!Task, Kernel!Task, P!Handle, Kernel!Handle, P!mk_task_getTaskByID,
         Kernel!mk_task_getTaskByID, P!boot, Kernel!boot, P!handler,
         Kernel!handler, P!sched, Kernel!sched
<1>6. ASSUME NEW id, P!mk_stopTask(id) PROVE Kernel!mk_stopTask(id)
  BY <1>6 DEF P!mk_stopTask, Kernel!mk_stopTask, P!ClientRuns, Kernel!ClientRuns,
         P!Task, Kernel!Task, P!mk_task_getTaskByID,
         Kernel!mk_task_getTaskByID, P!mk_sched_addStoppedTask,
         Kernel!mk_sched_addStoppedTask, P!mk_sched_removeReadyTask,
         Kernel!mk_sched_removeReadyTask, P!Without, Kernel!Without,
         P!RemoveAt, Kernel!RemoveAt, P!InsertAt, Kernel!InsertAt, P!boot,
         Kernel!boot, P!handler, Kernel!handler
<1>7. P!SysTickEnter => Kernel!SysTickEnter
  BY DEF P!SysTickEnter, Kernel!SysTickEnter, P!boot, Kernel!boot, P!tcb,
         Kernel!tcb, P!sched, Kernel!sched
<1>8. P!WakeTask => Kernel!WakeTask
  BY DEF P!WakeTask, Kernel!WakeTask, P!SleeperDue, Kernel!SleeperDue,
         P!Preempts, Kernel!Preempts, P!mk_sched_addReadyTask,
         Kernel!mk_sched_addReadyTask, P!Pushed, Kernel!Pushed, P!BitSet,
         Kernel!BitSet, P!HasRoom, Kernel!HasRoom, P!boot, Kernel!boot
<1>9. P!SysTickExit => Kernel!SysTickExit
  BY DEF P!SysTickExit, Kernel!SysTickExit, P!SleeperDue, Kernel!SleeperDue,
         P!SliceAfterTick, Kernel!SliceAfterTick, P!boot, Kernel!boot,
         P!sched, Kernel!sched
<1>10. P!PendSV_Handler => Kernel!PendSV_Handler
  BY DEF P!PendSV_Handler, Kernel!PendSV_Handler, P!mk_sched_getNextTask,
         Kernel!mk_sched_getNextTask, P!RunIdle, Kernel!RunIdle,
         P!KeepCurrent, Kernel!KeepCurrent, P!SwitchTo, Kernel!SwitchTo,
         P!IsHighest, Kernel!IsHighest, P!ShouldSwitch, Kernel!ShouldSwitch,
         P!Pushed, Kernel!Pushed, P!BitSet, Kernel!BitSet, P!HasRoom,
         Kernel!HasRoom, P!Idle, Kernel!Idle, P!boot, Kernel!boot, P!handler,
         Kernel!handler
<1>11. P!Level = Kernel!Level /\ P!TaskIDs = Kernel!TaskIDs
  BY DEF P!Level, Kernel!Level, P!TaskIDs, Kernel!TaskIDs
<1>12. P!Next => Kernel!Next
  BY <1>1, <1>2, <1>3, <1>4, <1>5, <1>6, <1>7, <1>8, <1>9, <1>10, <1>11
     DEF P!Next, Kernel!Next, P!KernelCall, Kernel!KernelCall, P!SysTick_Handler,
         Kernel!SysTick_Handler
<1>13. P!vars = Kernel!vars /\ P!vars' = Kernel!vars'
  BY DEF P!vars, Kernel!vars, P!boot, Kernel!boot, P!tcb, Kernel!tcb, P!sched,
         Kernel!sched, P!handler, Kernel!handler
<1>14. P!Init => Kernel!Init
  BY DEF P!Init, Kernel!Init, P!FirstTaskID, Kernel!FirstTaskID, P!Task,
         Kernel!Task, P!Handle, Kernel!Handle, P!Level, Kernel!Level, P!NoTask,
         Kernel!NoTask
<1> QED BY <1>12, <1>13, <1>14

LEMMA CallsInit == HistoryInit => CallsInv /\ P!Init
<1> SUFFICES ASSUME HistoryInit PROVE CallsInv /\ P!Init
  OBVIOUS
<1>1. /\ waitingHead = Nil /\ stoppedHead = Nil
      /\ next = [t \in Task |-> Nil] /\ prev = [t \in Task |-> Nil]
      /\ call = [t \in Task |-> NoCall] /\ K!Init
  BY DEF HistoryInit, Init
<1>2. ~InCall
  BY <1>1 DEF InCall
<1>3. TwoLists(next, prev, waitingHead, stoppedHead, <<>>, <<>>)
  BY <1>1, NoLinks
<1>4. Chain(waitingHead) = <<>> /\ Chain(stoppedHead) = <<>>
  BY <1>3, ChainFacts, ChainIsOf DEF TwoLists
<1>5. ListsRight
  BY <1>3, <1>4 DEF ListsRight
<1>6. OneCaller
  BY <1>1 DEF OneCaller
<1>7. Plain
  BY <1>2, SeenFacts
<1>8. P!Init
  BY <1>1, <1>4, <1>7 DEF Plain, K!Init, P!Init, K!FirstTaskID, P!FirstTaskID,
     K!Task, P!Task, K!Handle, P!Handle, K!Level, P!Level, K!NoTask, P!NoTask
<1>9. P!KernelInv
  BY <1>8, P!KernelInvInit, KernelConstants
<1> QED BY <1>2, <1>5, <1>6, <1>8, <1>9 DEF CallsInv, CallsOK, Progress

LEMMA CallsInvStep ==
    ASSUME Disciplined, CallsInv, [HistoryNext]_historyVars
    PROVE  CallsInv' /\ [Kernel!Next]_(Kernel!vars)
<1>1. CallsOK' /\ [P!Next]_(P!vars)
  BY CallsStep
<1>2. P!KernelInv'
  BY <1>1, P!KernelInvStep, KernelConstants DEF CallsInv
<1> QED BY <1>1, <1>2, SameKernel DEF CallsInv

\* Once more: the inductive invariant.
LEMMA CallsSafe == ASSUME Disciplined PROVE HistorySpec => []CallsInv
<1>1. HistoryInit => CallsInv
  BY CallsInit
<1>2. CallsInv /\ [HistoryNext]_historyVars => CallsInv'
  BY CallsInvStep
<1> QED BY <1>1, <1>2, PTL DEF HistorySpec

\* With interrupts off around a call, and READY tasks named in the waits and
\* the stops, what the queue rotation, the loads and stores of the bitmap and
\* the list code do step by step is, from one return to the next, what MkKernel
\* does (mk_waitTask, mk_stopTask and mk_yieldTask, microkernel.c:50-131).
THEOREM CallsImplementKernel ==
    ASSUME Disciplined PROVE HistorySpec => ImplementsKernel
<1>1. HistoryInit => Kernel!Init
  BY CallsInit, SameKernel
<1>2. CallsInv /\ [HistoryNext]_historyVars => [Kernel!Next]_(Kernel!vars)
  BY CallsInvStep
<1>3. HistorySpec => []CallsInv
  BY CallsSafe
<1> QED BY <1>1, <1>2, <1>3, PTL DEF HistorySpec, ImplementsKernel, Kernel!Spec

\* Between two calls, prev is the inverse of next along the waiting list, and
\* nothing precedes its head: an insertion in the middle finds its predecessor
\* (mk_scheduler.c:98-115).
THEOREM LinksAlwaysMirror ==
    ASSUME Disciplined PROVE HistorySpec => []LinksMirror
<1>1. CallsInv => LinksMirror
  <2> SUFFICES ASSUME CallsInv PROVE LinksMirror
    OBVIOUS
  <2>1. Mirrored(prev, Chain(waitingHead)) /\ Chain(waitingHead) \in Seq(Task)
    BY DEF CallsInv, CallsOK, ListsRight, TwoLists
  <2> QED BY <2>1 DEF LinksMirror, Mirrored
<1> QED BY <1>1, CallsSafe, PTL

\* So the invariants of MkKernel hold of the code: of the queues and lists as
\* they are between two calls.
THEOREM KernelSafeBetweenCalls ==
    ASSUME Disciplined PROVE HistorySpec => [](~InCall => Plain /\ P!KernelInv)
<1>1. CallsInv => (~InCall => Plain /\ P!KernelInv)
  BY SeenFacts DEF CallsInv
<1> QED BY <1>1, CallsSafe, PTL
=============================================================================
