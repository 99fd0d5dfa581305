---------------------------- MODULE SeqSets_proofs ----------------------------
(* What the sequence operations of the scheduler do to the handles in them. *)
EXTENDS SeqSets, SequencesExt, SequenceTheorems, TLAPS

\* The members of a sequence and its positions.
LEMMA ElemsFacts ==
    ASSUME NEW S, NEW q \in Seq(S)
    PROVE  /\ Elems(q) \subseteq S
           /\ \A i \in 1..Len(q) : q[i] \in Elems(q)
           /\ \A e \in Elems(q) : \E i \in 1..Len(q) : e = q[i]
           /\ q = <<>> <=> Elems(q) = {}
<1>1. DOMAIN q = 1..Len(q) /\ \A i \in 1..Len(q) : q[i] \in S
  OBVIOUS
<1>2. CASE q = <<>>   BY <1>1, <1>2 DEF Elems
<1>3. CASE q # <<>>
  <2>1. 1 \in 1..Len(q)   BY <1>3
  <2> QED BY <1>1, <1>3, <2>1 DEF Elems
<1> QED BY <1>2, <1>3

\* Elems(q) is T when every position holds a member of T and every member of T
\* has a position.
LEMMA ElemsAre ==
    ASSUME NEW S, NEW q \in Seq(S), NEW T,
           \A i \in 1..Len(q) : q[i] \in T,
           \A e \in T : \E i \in 1..Len(q) : e = q[i]
    PROVE  Elems(q) = T
<1>1. DOMAIN q = 1..Len(q)
  OBVIOUS
<1> QED BY <1>1 DEF Elems

\* Once, said with the positions 1..Len(q).
LEMMA OnceFacts ==
    ASSUME NEW S, NEW q \in Seq(S)
    PROVE  Once(q) <=> (\A i, j \in 1..Len(q) : q[i] = q[j] => i = j)
<1>1. DOMAIN q = 1..Len(q)
  OBVIOUS
<1> QED BY <1>1 DEF Once

\* q_push: the task is at the end, the others are where they were.
LEMMA AppendFacts ==
    ASSUME NEW S, NEW q \in Seq(S), NEW t \in S
    PROVE  /\ Append(q, t) \in Seq(S)
           /\ Append(q, t) # <<>>
           /\ Elems(Append(q, t)) = Elems(q) \cup {t}
           /\ Once(q) /\ t \notin Elems(q) => Once(Append(q, t))
<1> DEFINE r == Append(q, t)
<1>1. /\ r \in Seq(S) /\ Len(r) = Len(q) + 1 /\ Len(q) \in Nat
      /\ \A i \in 1..Len(q) : r[i] = q[i]
      /\ r[Len(q) + 1] = t
  OBVIOUS
<1> HIDE DEF r
<1>2. Elems(r) = Elems(q) \cup {t}
  <2>1. \A i \in 1..Len(r) : r[i] \in Elems(q) \cup {t}
    BY <1>1, ElemsFacts
  <2>2. ASSUME NEW e \in Elems(q) \cup {t} PROVE \E i \in 1..Len(r) : e = r[i]
    <3>1. CASE e \in Elems(q)
      <4>1. PICK i \in 1..Len(q) : e = q[i]   BY <3>1, ElemsFacts
      <4> QED BY <1>1, <4>1
    <3>2. CASE e = t
      BY <1>1, <3>2
    <3> QED BY <3>1, <3>2
  <2> QED BY <1>1, <2>1, <2>2, ElemsAre
<1>3. ASSUME Once(q), t \notin Elems(q) PROVE Once(r)
  <2>1. \A k \in 1..Len(q) : q[k] # t
    BY <1>3, ElemsFacts
  <2>2. \A k, l \in 1..Len(q) : q[k] = q[l] => k = l
    BY <1>3, OnceFacts
  <2>3. \A k, l \in 1..Len(r) : r[k] = r[l] => k = l
    BY <1>1, <2>1, <2>2
  <2> QED BY <1>1, <2>3, OnceFacts
<1> QED BY <1>1, <1>2, <1>3 DEF r

\* q_pop: the head is gone, and only the head.
LEMMA TailFacts ==
    ASSUME NEW S, NEW q \in Seq(S), q # <<>>
    PROVE  /\ Head(q) \in S
           /\ Tail(q) \in Seq(S)
           /\ Len(q) = Len(Tail(q)) + 1
           /\ \A i \in 1..Len(Tail(q)) : Tail(q)[i] = q[i + 1]
           /\ Elems(q) = Elems(Tail(q)) \cup {Head(q)}
           /\ Once(q) => Once(Tail(q)) /\ Head(q) \notin Elems(Tail(q))
<1> DEFINE r == Tail(q)
           h == Head(q)
<1>1. /\ r \in Seq(S) /\ Len(q) = Len(r) + 1 /\ Len(r) \in Nat
      /\ \A i \in 1..Len(r) : r[i] = q[i + 1]
      /\ h = q[1] /\ h \in S
  OBVIOUS
<1> HIDE DEF r, h
<1>2. Elems(q) = Elems(r) \cup {h}
  <2>1. ASSUME NEW i \in 1..Len(q) PROVE q[i] \in Elems(r) \cup {h}
    <3>1. CASE i = 1   BY <1>1, <3>1
    <3>2. CASE i # 1
      <4>1. i - 1 \in 1..Len(r) /\ r[i - 1] = q[i]   BY <1>1, <3>2
      <4> QED BY <1>1, <4>1, ElemsFacts
    <3> QED BY <3>1, <3>2
  <2>2. ASSUME NEW e \in Elems(r) \cup {h} PROVE \E i \in 1..Len(q) : e = q[i]
    <3>1. CASE e \in Elems(r)
      <4>1. PICK i \in 1..Len(r) : e = r[i]   BY <1>1, <3>1, ElemsFacts
      <4>2. i + 1 \in 1..Len(q) /\ e = q[i + 1]   BY <1>1, <4>1
      <4> QED BY <4>2
    <3>2. CASE e = h
      <4>1. 1 \in 1..Len(q) /\ e = q[1]   BY <1>1, <3>2
      <4> QED BY <4>1
    <3> QED BY <3>1, <3>2
  <2> QED BY <2>1, <2>2, ElemsAre
<1>3. ASSUME Once(q) PROVE Once(r) /\ h \notin Elems(r)
  <2>1. \A k, l \in 1..Len(q) : q[k] = q[l] => k = l
    BY <1>3, OnceFacts
  <2>2. ASSUME NEW k \in 1..Len(r) PROVE r[k] # h
    <3>1. k + 1 \in 1..Len(q) /\ 1 \in 1..Len(q) /\ k + 1 # 1   BY <1>1
    <3>2. r[k] = q[k + 1]   BY <1>1
    <3> QED BY <1>1, <2>1, <3>1, <3>2
  <2>3. ASSUME NEW k \in 1..Len(r), NEW l \in 1..Len(r), r[k] = r[l] PROVE k = l
    <3>1. k + 1 \in 1..Len(q) /\ l + 1 \in 1..Len(q)   BY <1>1
    <3>2. q[k + 1] = q[l + 1]   BY <1>1, <2>3
    <3>3. k + 1 = l + 1   BY <2>1, <3>1, <3>2
    <3> QED BY <3>3
  <2> QED BY <1>1, <2>2, <2>3, ElemsFacts, OnceFacts
<1> QED BY <1>1, <1>2, <1>3 DEF r, h

\* Where the members of a sequence are when position i has been taken out.
LEMMA RemoveAtPositions ==
    ASSUME NEW S, NEW q \in Seq(S), NEW i \in 1..Len(q)
    PROVE  /\ RemoveAt(q, i) \in Seq(S)
           /\ Len(RemoveAt(q, i)) = Len(q) - 1
           /\ \A j \in 1..(Len(q) - 1) :
                RemoveAt(q, i)[j] = IF j < i THEN q[j] ELSE q[j + 1]
<1> DEFINE front == SubSeq(q, 1, i - 1)
           back  == SubSeq(q, i + 1, Len(q))
           r     == RemoveAt(q, i)
<1>1. /\ front \in Seq(S) /\ Len(front) = i - 1
      /\ \A j \in 1..(i - 1) : front[j] = q[j]
  OBVIOUS
<1>2. /\ back \in Seq(S) /\ Len(back) = Len(q) - i
      /\ \A j \in 1..(Len(q) - i) : back[j] = q[i + j]
  OBVIOUS
<1>3. r = front \o back
  BY DEF RemoveAt
<1> HIDE DEF front, back, r
<1>4. r \in Seq(S) /\ Len(r) = Len(q) - 1 /\ Len(q) \in Nat /\ Len(r) \in Nat
  <2>1. r \in Seq(S) /\ Len(r) = Len(front) + Len(back)
    BY <1>1, <1>2, <1>3, ConcatProperties
  <2>2. Len(q) \in Nat
    OBVIOUS
  <2> QED BY <1>1, <1>2, <2>1, <2>2
<1>5. ASSUME NEW j \in 1..Len(r)
      PROVE  r[j] = IF j < i THEN q[j] ELSE q[j + 1]
  <2>1. CASE j < i
    <3>1. r[j] = front[j]   BY <1>1, <1>2, <1>3, <2>1
    <3> QED BY <1>1, <2>1, <3>1
  <2>2. CASE j >= i
    <3>1. r[j] = back[j - (i - 1)]   BY <1>1, <1>2, <1>3, <1>4, <2>2
    <3>2. j - (i - 1) \in 1..(Len(q) - i)   BY <1>4, <2>2
    <3>3. back[j - (i - 1)] = q[j + 1]   BY <1>2, <3>2
    <3> QED BY <2>2, <3>1, <3>3
  <2> QED BY <2>1, <2>2
<1>6. \A j \in 1..Len(r) : r[j] = IF j < i THEN q[j] ELSE q[j + 1]
  BY <1>5, Zenon
<1> QED BY <1>4, <1>6, Zenon DEF r

\* Taking one position out of a sequence without duplicates.
LEMMA RemoveAtFacts ==
    ASSUME NEW S, NEW q \in Seq(S), NEW i \in 1..Len(q), Once(q)
    PROVE  /\ RemoveAt(q, i) \in Seq(S)
           /\ Elems(RemoveAt(q, i)) = Elems(q) \ {q[i]}
           /\ Once(RemoveAt(q, i))
<1> DEFINE r == RemoveAt(q, i)
<1>1. /\ r \in Seq(S) /\ Len(r) = Len(q) - 1
      /\ \A j \in 1..(Len(q) - 1) :
           r[j] = IF j < i THEN q[j] ELSE q[j + 1]
  BY RemoveAtPositions
<1> HIDE DEF r
<1>2. r \in Seq(S) /\ Len(r) = Len(q) - 1 /\ Len(q) \in Nat /\ Len(r) \in Nat
  BY <1>1
<1>3. ASSUME NEW j \in 1..Len(r)
      PROVE  r[j] = IF j < i THEN q[j] ELSE q[j + 1]
  BY <1>1
<1>4. \A k, l \in 1..Len(q) : q[k] = q[l] => k = l
  BY OnceFacts
<1>5. Elems(r) = Elems(q) \ {q[i]}
  <2>1. ASSUME NEW j \in 1..Len(r) PROVE r[j] \in Elems(q) \ {q[i]}
    <3>1. CASE j < i
      <4>1. j \in 1..Len(q) /\ r[j] = q[j] /\ j # i   BY <1>2, <1>3, <3>1
      <4> QED BY <1>4, <4>1, ElemsFacts
    <3>2. CASE j >= i
      <4>1. j + 1 \in 1..Len(q) /\ r[j] = q[j + 1] /\ j + 1 # i
        BY <1>2, <1>3, <3>2
      <4> QED BY <1>4, <4>1, ElemsFacts
    <3> QED BY <3>1, <3>2
  <2>2. ASSUME NEW e \in Elems(q) \ {q[i]} PROVE \E j \in 1..Len(r) : e = r[j]
    <3>1. PICK j \in 1..Len(q) : e = q[j]   BY ElemsFacts
    <3>2. CASE j < i
      <4>1. j \in 1..Len(r) /\ r[j] = q[j]   BY <1>2, <1>3, <3>2
      <4> QED BY <3>1, <4>1
    <3>3. CASE j > i
      <4>1. j - 1 \in 1..Len(r) /\ r[j - 1] = q[j]   BY <1>2, <1>3, <3>3
      <4> QED BY <3>1, <4>1
    <3>4. j # i   BY <3>1
    <3> QED BY <3>2, <3>3, <3>4
  <2> QED BY <1>2, <2>1, <2>2, ElemsAre
<1>6. Once(r)
  <2> SUFFICES ASSUME NEW k \in 1..Len(r), NEW l \in 1..Len(r), r[k] = r[l]
               PROVE  k = l
    BY <1>2, OnceFacts
  <2> DEFINE at(j) == IF j < i THEN j ELSE j + 1
  <2>1. at(k) \in 1..Len(q) /\ at(l) \in 1..Len(q)
    BY <1>2
  <2>2. r[k] = q[at(k)] /\ r[l] = q[at(l)]
    BY <1>3
  <2>3. at(k) = at(l)
    BY <1>4, <2>1, <2>2
  <2> QED BY <1>2, <2>3
<1> QED BY <1>2, <1>5, <1>6 DEF r

\* Where the members of a list are after an insertion.
LEMMA InsertAtPositions ==
    ASSUME NEW S, NEW q \in Seq(S), NEW t \in S, NEW i \in 1..(Len(q) + 1)
    PROVE  /\ InsertAt(q, i, t) \in Seq(S)
           /\ Len(InsertAt(q, i, t)) = Len(q) + 1
           /\ \A j \in 1..(Len(q) + 1) :
                InsertAt(q, i, t)[j] =
                  IF j < i THEN q[j] ELSE IF j = i THEN t ELSE q[j - 1]
<1> DEFINE front == SubSeq(q, 1, i - 1)
           back  == SubSeq(q, i, Len(q))
           most  == front \o <<t>>
           r     == InsertAt(q, i, t)
<1>1. /\ front \in Seq(S) /\ Len(front) = i - 1
      /\ \A j \in 1..(i - 1) : front[j] = q[j]
  OBVIOUS
<1>2. /\ back \in Seq(S) /\ Len(back) = Len(q) - i + 1
      /\ \A j \in 1..(Len(q) - i + 1) : back[j] = q[i + j - 1]
  OBVIOUS
<1>3. r = most \o back
  BY DEF InsertAt
<1> HIDE DEF front, back, r
<1>4. /\ most \in Seq(S) /\ Len(most) = i
      /\ \A j \in 1..i : most[j] = IF j < i THEN q[j] ELSE t
  BY <1>1
<1> HIDE DEF most
<1>5. r \in Seq(S) /\ Len(r) = Len(q) + 1 /\ Len(q) \in Nat
  BY <1>2, <1>3, <1>4
<1>6. ASSUME NEW j \in 1..Len(r)
      PROVE  r[j] = IF j < i THEN q[j] ELSE IF j = i THEN t ELSE q[j - 1]
  <2>1. CASE j <= i
    <3>1. r[j] = most[j]   BY <1>2, <1>3, <1>4, <2>1
    <3> QED BY <1>4, <2>1, <3>1
  <2>2. CASE j > i
    <3>1. r[j] = back[j - i]   BY <1>2, <1>3, <1>4, <1>5, <2>2
    <3>2. j - i \in 1..(Len(q) - i + 1)   BY <1>5, <2>2
    <3>3. back[j - i] = q[j - 1]   BY <1>2, <3>2
    <3> QED BY <2>2, <3>1, <3>3
  <2> QED BY <2>1, <2>2
<1>7. \A j \in 1..Len(r) :
         r[j] = IF j < i THEN q[j] ELSE IF j = i THEN t ELSE q[j - 1]
  BY <1>6, Zenon
<1> QED BY <1>5, <1>7, Zenon DEF r

\* Inserting a task at a position of a list.
LEMMA InsertAtFacts ==
    ASSUME NEW S, NEW q \in Seq(S), NEW t \in S, NEW i \in 1..(Len(q) + 1)
    PROVE  /\ InsertAt(q, i, t) \in Seq(S)
           /\ Elems(InsertAt(q, i, t)) = Elems(q) \cup {t}
           /\ Once(q) /\ t \notin Elems(q) => Once(InsertAt(q, i, t))
<1> DEFINE r == InsertAt(q, i, t)
<1>1. /\ r \in Seq(S) /\ Len(r) = Len(q) + 1
      /\ \A j \in 1..(Len(q) + 1) :
           r[j] = IF j < i THEN q[j] ELSE IF j = i THEN t ELSE q[j - 1]
  BY InsertAtPositions
<1> HIDE DEF r
<1>2. Len(q) \in Nat
  OBVIOUS
<1>3. r \in Seq(S) /\ Len(r) = Len(q) + 1 /\ Len(q) \in Nat
  BY <1>1, <1>2
<1>4. ASSUME NEW j \in 1..Len(r)
      PROVE  r[j] = IF j < i THEN q[j] ELSE IF j = i THEN t ELSE q[j - 1]
  BY <1>1
<1>5. Elems(r) = Elems(q) \cup {t}
  <2>1. ASSUME NEW j \in 1..Len(r) PROVE r[j] \in Elems(q) \cup {t}
    <3>1. CASE j < i
      <4>1. j \in 1..Len(q) /\ r[j] = q[j]   BY <1>3, <1>4, <3>1
      <4> QED BY <4>1, ElemsFacts
    <3>2. CASE j = i   BY <1>4, <3>2
    <3>3. CASE j > i
      <4>1. j - 1 \in 1..Len(q) /\ r[j] = q[j - 1]   BY <1>3, <1>4, <3>3
      <4> QED BY <4>1, ElemsFacts
    <3> QED BY <3>1, <3>2, <3>3
  <2>2. ASSUME NEW e \in Elems(q) \cup {t} PROVE \E j \in 1..Len(r) : e = r[j]
    <3>1. CASE e = t
      <4>1. i \in 1..Len(r) /\ r[i] = t   BY <1>3, <1>4
      <4> QED BY <3>1, <4>1
    <3>2. CASE e \in Elems(q)
      <4>1. PICK j \in 1..Len(q) : e = q[j]   BY <3>2, ElemsFacts
      <4>2. CASE j < i
        <5>1. j \in 1..Len(r) /\ r[j] = q[j]   BY <1>3, <1>4, <4>2
        <5> QED BY <4>1, <5>1
      <4>3. CASE j >= i
        <5>1. j + 1 \in 1..Len(r) /\ r[j + 1] = q[j]   BY <1>3, <1>4, <4>3
        <5> QED BY <4>1, <5>1
      <4> QED BY <4>2, <4>3
    <3> QED BY <3>1, <3>2
  <2> QED BY <1>3, <2>1, <2>2, ElemsAre
<1>6. ASSUME Once(q), t \notin Elems(q) PROVE Once(r)
  <2> SUFFICES ASSUME NEW k \in 1..Len(r), NEW l \in 1..Len(r), r[k] = r[l]
               PROVE  k = l
    BY <1>3, OnceFacts
  <2>1. \A m \in 1..Len(q) : q[m] # t
    BY <1>6, ElemsFacts
  <2>2. \A m, n \in 1..Len(q) : q[m] = q[n] => m = n
    BY <1>6, OnceFacts
  <2> DEFINE at(j) == IF j < i THEN j ELSE j - 1
  <2>3. /\ k # i => at(k) \in 1..Len(q) /\ r[k] = q[at(k)]
        /\ l # i => at(l) \in 1..Len(q) /\ r[l] = q[at(l)]
        /\ r[i] = t /\ i \in 1..Len(r)
    BY <1>3, <1>4
  <2>4. k = i <=> l = i
    BY <2>1, <2>3
  <2>5. k # i /\ l # i => at(k) = at(l)
    BY <2>2, <2>3
  <2> QED BY <1>3, <2>4, <2>5
<1> QED BY <1>1, <1>5, <1>6, Zenon DEF r
=============================================================================
