---------------------------- MODULE MkQueue_proofs ----------------------------
(***************************************************************************)
(* The ring of mk_queue.c for rings of any length: its indices stay in the *)
(* ring and agree, the peeks are right, and it implements BoundedQueue.    *)
(***************************************************************************)
EXTENDS MkQueue, TLAPS

\* What is not initialised does not overwrite, so that a push does not go into
\* a ring without slots.
Ring ==
    /\ TypeOK /\ IndicesAgree
    /\ ovw => init

LEMMA MaxNat == MaxCapacity \in Nat
BY DEF MaxCapacity

LEMMA KillKeepsRing ==
    ASSUME Kill, ret' \in [ok : BOOLEAN, record : Records \cup {Nothing}]
    PROVE  Ring'
<1>1. <<>> \in [0..(0 - 1) -> Records]
  <2>1. 0..(0 - 1) = {}
    BY SMT
  <2> QED
    BY <2>1
<1>2. /\ init' = FALSE /\ lifo' = FALSE /\ ovw' = FALSE /\ rec_nb' = 0
      /\ in' = 0 /\ out' = 0 /\ cnt' = 0 /\ slots' = <<>>
  BY DEF Kill
<1>3. in' \in 0..MaxCapacity /\ out' \in 0..MaxCapacity /\ cnt' \in 0..rec_nb'
  BY <1>2, MaxNat
<1>4. TypeOK'
  BY <1>1, <1>2, <1>3, Zenon DEF TypeOK
<1>5. IndicesAgree'
  BY <1>2, Zenon DEF IndicesAgree
<1> QED
  BY <1>2, <1>4, <1>5, Zenon DEF Ring

LEMMA ResultType ==
    ASSUME NEW ok \in BOOLEAN, NEW r \in Records \cup {Nothing}
    PROVE  Result(ok, r) \in [ok : BOOLEAN, record : Records \cup {Nothing}]
BY DEF Result

LEMMA InitKeepsRing ==
    ASSUME QueueAssumption,
           NEW nb \in Capacities, NEW isLifo \in BOOLEAN, NEW ow \in BOOLEAN,
           q_init(nb, isLifo, ow)
    PROVE  Ring'
<1>1. CASE Kill /\ ret' = Result(FALSE, Nothing)
  BY <1>1, KillKeepsRing, ResultType
<1>2. CASE ~(Kill /\ ret' = Result(FALSE, Nothing))
  <2>1. nb \in 1..MaxCapacity
    BY Zenon DEF QueueAssumption
  <2>2. nb \in Nat /\ nb # 0 /\ 0 < nb
    BY <2>1, MaxNat
  <2>3. /\ init' = TRUE /\ lifo' = isLifo /\ ovw' = ow /\ rec_nb' = nb
        /\ in' = 0 /\ out' = 0 /\ cnt' = 0
        /\ slots' \in [0..(nb - 1) -> Records]
        /\ ret' = Result(TRUE, Nothing)
    BY <1>2, Zenon DEF q_init
  <2>4. in' \in 0..MaxCapacity /\ out' \in 0..MaxCapacity /\ cnt' \in 0..rec_nb'
    BY <2>2, <2>3, MaxNat
  <2>5. TypeOK'
    BY <2>2, <2>3, <2>4, ResultType, Zenon DEF TypeOK
  <2>6. IndicesAgree'
    BY <2>2, <2>3 DEF IndicesAgree
  <2> QED
    BY <2>3, <2>5, <2>6, Zenon DEF Ring
<1> QED
  BY <1>1, <1>2 DEF q_init

\* What Ring says of the numbers, once for the arithmetic below.
LEMMA RingNumbers ==
    ASSUME QueueAssumption, Ring
    PROVE  /\ rec_nb \in 0..MaxCapacity /\ cnt \in 0..rec_nb
           /\ in \in 0..MaxCapacity /\ out \in 0..MaxCapacity
           /\ rec_nb # 0 => in < rec_nb /\ out < rec_nb
           /\ ovw => rec_nb # 0
           /\ init <=> rec_nb # 0
<1>1. /\ rec_nb \in Capacities \/ rec_nb = 0
      /\ in \in 0..MaxCapacity /\ out \in 0..MaxCapacity /\ cnt \in 0..rec_nb
      /\ init <=> rec_nb # 0
      /\ ovw => init
  BY Zenon DEF Ring, TypeOK
<1>2. init => in < rec_nb /\ out < rec_nb
  BY Zenon DEF Ring, IndicesAgree
<1>3. rec_nb \in 0..MaxCapacity
  <2>1. rec_nb \in 1..MaxCapacity \/ rec_nb = 0
    BY <1>1, Zenon DEF QueueAssumption
  <2> QED
    BY <2>1, MaxNat
<1> QED
  BY <1>1, <1>2, <1>3, Zenon

LEMMA PushKeepsRing ==
    ASSUME QueueAssumption, Ring, NEW x \in Records, q_push(x)
    PROVE  Ring'
<1>1. CASE Full /\ ~ovw
  <2>1. UNCHANGED <<config, in, out, cnt, slots>> /\ ret' = Result(FALSE, Nothing)
    BY <1>1 DEF q_push
  <2> QED
    BY <2>1, ResultType DEF Ring, TypeOK, IndicesAgree, config
<1>2. CASE ~Full \/ ovw
  <2>1. /\ cnt' = IF Full THEN cnt ELSE cnt + 1
        /\ out' = OutAfterPush
        /\ slots' = [slots EXCEPT ![in] = x]
        /\ in' = Inc(in)
        /\ ret' = Result(TRUE, Nothing)
        /\ UNCHANGED <<init, lifo, ovw, rec_nb>>
    BY <1>2 DEF q_push, config
  <2>2. rec_nb # 0
    BY <1>2, RingNumbers DEF Full
  <2>3. TypeOK'
    <3>1. /\ in' \in 0..MaxCapacity /\ out' \in 0..MaxCapacity
          /\ cnt' \in 0..rec_nb'
      BY <2>1, <2>2, RingNumbers, MaxNat DEF Full, Inc, OutAfterPush
    <3>2. slots' \in [0..(rec_nb' - 1) -> Records]
      BY <2>1, Zenon DEF Ring, TypeOK
    <3> QED
      BY <2>1, <3>1, <3>2, ResultType, Zenon DEF Ring, TypeOK
  <2>4. IndicesAgree'
    BY <1>2, <2>1, <2>2, RingNumbers
       DEF Ring, IndicesAgree, Full, Inc, OutAfterPush
  <2> QED
    BY <2>1, <2>3, <2>4 DEF Ring
<1> QED
  BY <1>1, <1>2

LEMMA TakeKeepsRing ==
    ASSUME QueueAssumption, Ring, NEW withRecord \in BOOLEAN, Take(withRecord)
    PROVE  Ring'
<1>1. CASE Empty
  <2>1. UNCHANGED <<config, in, out, cnt, slots>> /\ ret' = Result(FALSE, Nothing)
    BY <1>1 DEF Take
  <2> QED
    BY <2>1, ResultType DEF Ring, TypeOK, IndicesAgree, config
<1>2. CASE ~Empty
  <2>1. /\ in' = IF lifo THEN Dec(in) ELSE in
        /\ out' = IF lifo THEN out ELSE Inc(out)
        /\ ret' = Result(TRUE, IF withRecord THEN slots[NextSlot] ELSE Nothing)
        /\ cnt' = cnt - 1
        /\ UNCHANGED <<init, lifo, ovw, rec_nb, slots>>
    BY <1>2 DEF Take, config
  <2>2. rec_nb # 0
    BY <1>2, RingNumbers DEF Empty
  <2>3. NextSlot \in 0..(rec_nb - 1)
    BY <2>2, RingNumbers DEF NextSlot, Dec
  <2>4. slots[NextSlot] \in Records
    BY <2>3 DEF Ring, TypeOK
  <2>5. TypeOK'
    <3>1. ret' \in [ok : BOOLEAN, record : Records \cup {Nothing}]
      BY <2>1, <2>4, ResultType
    <3>2. cnt' \in 0..rec_nb' /\ in' \in 0..MaxCapacity /\ out' \in 0..MaxCapacity
      BY <1>2, <2>1, <2>2, RingNumbers, MaxNat DEF Empty, Inc, Dec
    <3> QED
      BY <2>1, <3>1, <3>2, Zenon DEF Ring, TypeOK
  <2>6. IndicesAgree'
    BY <1>2, <2>1, <2>2, RingNumbers, MaxNat
       DEF Ring, IndicesAgree, Empty, Inc, Dec
  <2> QED
    BY <2>1, <2>5, <2>6 DEF Ring
<1> QED
  BY <1>1, <1>2

LEMMA StepKeepsRing ==
    ASSUME QueueAssumption, Ring, [Next]_queueVars
    PROVE  Ring'
<1>1. CASE UNCHANGED queueVars
  BY <1>1 DEF queueVars, config, Ring, TypeOK, IndicesAgree
<1>2. ASSUME NEW nb \in Capacities, NEW isLifo \in BOOLEAN, NEW ow \in BOOLEAN,
             q_init(nb, isLifo, ow)
      PROVE  Ring'
  BY <1>2, InitKeepsRing
<1>3. CASE q_kill
  BY <1>3, KillKeepsRing, ResultType DEF q_kill
<1>4. CASE q_flush
  <2>1. /\ in' = 0 /\ out' = 0 /\ cnt' = 0 /\ ret' = Result(TRUE, Nothing)
        /\ UNCHANGED <<init, lifo, ovw, rec_nb, slots>>
    BY <1>4 DEF q_flush, config
  <2>2. in' \in 0..MaxCapacity /\ out' \in 0..MaxCapacity /\ cnt' \in 0..rec_nb'
    BY <2>1, RingNumbers, MaxNat
  <2>3. TypeOK'
    BY <2>1, <2>2, ResultType, Zenon DEF Ring, TypeOK
  <2>4. IndicesAgree'
    BY <2>1, RingNumbers, MaxNat DEF Ring, IndicesAgree
  <2> QED
    BY <2>1, <2>3, <2>4, Zenon DEF Ring
<1>5. ASSUME NEW x \in Records, q_push(x)
      PROVE  Ring'
  BY <1>5, PushKeepsRing
<1>6. CASE q_pop
  BY <1>6, TakeKeepsRing DEF q_pop
<1>7. CASE q_drop
  BY <1>7, TakeKeepsRing DEF q_drop
<1> QED
  BY <1>1, <1>2, <1>3, <1>4, <1>5, <1>6, <1>7 DEF Next

LEMMA InitRing == Init => Ring
<1>1. <<>> \in [0..(0 - 1) -> Records]
  <2>1. 0..(0 - 1) = {}
    BY SMT
  <2> QED
    BY <2>1
<1>2. 0 \in 0..MaxCapacity /\ 0 \in 0..0
  BY MaxNat
<1>3. Init => TypeOK
  BY <1>1, <1>2, ResultType, Zenon DEF Init, TypeOK
<1>4. Init => IndicesAgree
  BY Zenon DEF Init, IndicesAgree
<1> QED
  BY <1>3, <1>4, Zenon DEF Init, Ring

LEMMA RingInvariant == Spec => []Ring
<1>1. Ring /\ [Next]_queueVars => Ring'
  BY QueueAssumption, StepKeepsRing
<1> QED
  BY <1>1, InitRing, PTL DEF Spec

\* Every field of the structure keeps its type, and no index or count leaves
\* the ring, in every mode (mk_queue.c:166-290).
THEOREM RingTyped == Spec => []TypeOK
<1>1. Ring => TypeOK
  BY DEF Ring
<1> QED
  BY <1>1, RingInvariant, PTL

\* in, out and cnt agree for every ring, whatever the calls before.
THEOREM RingAgrees == Spec => []IndicesAgree
<1>1. Ring => IndicesAgree
  BY DEF Ring
<1> QED
  BY <1>1, RingInvariant, PTL

-----------------------------------------------------------------------------
(* The refinement.                                                         *)

\* The slot of the i-th oldest record.
SlotOf(i) == IF in - cnt + i - 1 >= 0 THEN in - cnt + i - 1
                                      ELSE in - cnt + i - 1 + rec_nb

LEMMA SlotInRing ==
    ASSUME QueueAssumption, Ring, NEW i \in 1..cnt
    PROVE  SlotOf(i) \in 0..(rec_nb - 1)
BY RingNumbers, MaxNat DEF SlotOf

\* Contents is a sequence of cnt records, in the slots that SlotOf names.
ContentsInSlots ==
    /\ Contents \in Seq(Records)
    /\ Len(Contents) = cnt /\ DOMAIN Contents = 1..cnt
    /\ \A i \in 1..cnt : Contents[i] = slots[SlotOf(i)]
    /\ Contents = <<>> <=> cnt = 0

LEMMA ContentsFacts == Ring => ContentsInSlots
<1> SUFFICES ASSUME Ring PROVE ContentsInSlots
  OBVIOUS
<1>1. cnt \in Nat
  BY QueueAssumption, RingNumbers, MaxNat
<1>2. \A i \in 1..cnt : slots[SlotOf(i)] \in Records
  BY QueueAssumption, SlotInRing DEF Ring, TypeOK
<1>3. Contents = [i \in 1..cnt |-> slots[SlotOf(i)]]
  BY DEF Contents, SlotOf
<1>4. /\ Contents \in Seq(Records)
      /\ Len(Contents) = cnt /\ DOMAIN Contents = 1..cnt
      /\ \A i \in 1..cnt : Contents[i] = slots[SlotOf(i)]
  BY <1>1, <1>2, <1>3
<1> QED
  BY <1>4 DEF ContentsInSlots

LEMMA ContentsFactsNext == Ring' => ContentsInSlots'
BY ContentsFacts, PTL

\* Sequences are equal when their lengths and their elements are.
LEMMA SameSeq ==
    ASSUME NEW S, NEW s \in Seq(S), NEW t \in Seq(S), Len(s) = Len(t),
           \A i \in 1..Len(s) : s[i] = t[i]
    PROVE  s = t
BY SMT

LEMMA PushRefines ==
    ASSUME QueueAssumption, Ring, Ring', NEW x \in Records, q_push(x)
    PROVE  Queue!Push(x)
<1> USE DEF Queue!Push, Queue!Answer
<1>0. /\ Contents \in Seq(Records) /\ Len(Contents) = cnt /\ cnt \in 0..rec_nb
      /\ DOMAIN Contents = 1..cnt
  BY ContentsFacts, RingNumbers DEF ContentsInSlots
<1>1. CASE Full /\ ~ovw
  <2>1. UNCHANGED <<config, in, out, cnt, slots>> /\ ret' = Result(FALSE, Nothing)
    BY <1>1 DEF q_push
  <2>2. Contents' = Contents
    BY <2>1 DEF Contents, config
  <2> QED
    BY <1>0, <1>1, <2>1, <2>2 DEF Full, Result, config
<1>2. CASE ~Full \/ ovw
  <2>1. /\ cnt' = IF Full THEN cnt ELSE cnt + 1
        /\ slots' = [slots EXCEPT ![in] = x]
        /\ in' = Inc(in)
        /\ ret' = Result(TRUE, Nothing)
        /\ UNCHANGED <<init, lifo, ovw, rec_nb>>
    BY <1>2 DEF q_push, config
  <2>2. rec_nb # 0 /\ in \in 0..(rec_nb - 1) /\ rec_nb \in Nat
    BY <1>2, RingNumbers, MaxNat DEF Full
  <2>3. \A k \in 0..(rec_nb - 1) : slots'[k] = IF k = in THEN x ELSE slots[k]
    BY <2>1, <2>2 DEF Ring, TypeOK
  <2>4. /\ Contents' \in Seq(Records) /\ Len(Contents') = cnt'
        /\ \A i \in 1..cnt' : Contents'[i] = slots'[SlotOf(i)']
    BY ContentsFactsNext DEF ContentsInSlots
  <2>5. CASE Full
    <3>1. \A i \in 1..cnt : SlotOf(i)' = IF i = cnt THEN in ELSE SlotOf(i + 1)
      BY <2>1, <2>2, <2>5, RingNumbers DEF SlotOf, Inc, Full
    <3>2. \A i \in 1..(cnt - 1) : SlotOf(i + 1) # in /\ SlotOf(i + 1) \in 0..(rec_nb - 1)
      BY <2>2, <2>5, RingNumbers DEF SlotOf, Full
    <3>3. \A i \in 1..cnt : Contents'[i] = IF i = cnt THEN x ELSE Contents[i + 1]
      BY <2>1, <2>2, <2>3, <2>4, <2>5, <3>1, <3>2, RingNumbers, ContentsFacts DEF ContentsInSlots
    <3>4. Tail(Contents) \in Seq(Records) /\ Len(Tail(Contents)) = cnt - 1
          /\ \A i \in 1..(cnt - 1) : Tail(Contents)[i] = Contents[i + 1]
      BY <1>0, <2>2, <2>5, ContentsFacts DEF Full, ContentsInSlots
    <3>5. Append(Tail(Contents), x) \in Seq(Records)
          /\ Len(Append(Tail(Contents), x)) = cnt
          /\ \A i \in 1..cnt : Append(Tail(Contents), x)[i] =
                IF i = cnt THEN x ELSE Contents[i + 1]
      BY <3>4, <1>0
    <3>6. Contents' = Append(Tail(Contents), x)
      BY <2>1, <2>4, <2>5, <3>3, <3>5, SameSeq
    <3> QED
      BY <1>0, <1>2, <2>1, <2>5, <3>6 DEF Full, Result
  <2>6. CASE ~Full
    <3>1. \A i \in 1..(cnt + 1) : SlotOf(i)' = IF i = cnt + 1 THEN in ELSE SlotOf(i)
      BY <2>1, <2>2, <2>6, RingNumbers DEF SlotOf, Inc, Full
    <3>2. \A i \in 1..cnt : SlotOf(i) # in /\ SlotOf(i) \in 0..(rec_nb - 1)
      BY <2>2, <2>6, RingNumbers DEF SlotOf, Full
    <3>3. \A i \in 1..(cnt + 1) : Contents'[i] = IF i = cnt + 1 THEN x ELSE Contents[i]
      BY <1>0, <2>1, <2>2, <2>3, <2>4, <2>6, <3>1, <3>2, RingNumbers, ContentsFacts DEF ContentsInSlots
    <3>5. Append(Contents, x) \in Seq(Records)
          /\ Len(Append(Contents, x)) = cnt + 1
          /\ \A i \in 1..(cnt + 1) : Append(Contents, x)[i] =
                IF i = cnt + 1 THEN x ELSE Contents[i]
      BY <1>0
    <3>6. Contents' = Append(Contents, x)
      BY <2>1, <2>4, <2>6, <3>3, <3>5, SameSeq
    <3>7. Len(Contents) < rec_nb
      BY <1>0, <2>2, <2>6 DEF Full
    <3> QED
      BY <2>1, <3>6, <3>7 DEF Result
  <2> QED
    BY <2>5, <2>6
<1> QED
  BY <1>1, <1>2

LEMMA TakeRefines ==
    ASSUME QueueAssumption, Ring, Ring', NEW withRecord \in BOOLEAN,
           Take(withRecord)
    PROVE  Queue!Take(withRecord)
<1> USE DEF Queue!Take, Queue!Answer
<1>0. /\ Contents \in Seq(Records) /\ Len(Contents) = cnt /\ cnt \in 0..rec_nb
      /\ \A i \in 1..cnt : Contents[i] = slots[SlotOf(i)]
  BY ContentsFacts, RingNumbers DEF ContentsInSlots
<1>1. CASE Empty
  <2>1. UNCHANGED <<config, in, out, cnt, slots>> /\ ret' = Result(FALSE, Nothing)
    BY <1>1 DEF Take
  <2>2. Contents' = Contents
    BY <2>1 DEF Contents, config
  <2>3. Contents = <<>>
    BY <1>1, ContentsFacts DEF Empty, ContentsInSlots
  <2> QED
    BY <2>1, <2>2, <2>3 DEF Result, config
<1>2. CASE ~Empty
  <2>1. /\ in' = IF lifo THEN Dec(in) ELSE in
        /\ ret' = Result(TRUE, IF withRecord THEN slots[NextSlot] ELSE Nothing)
        /\ cnt' = cnt - 1
        /\ UNCHANGED <<init, lifo, ovw, rec_nb, slots>>
    BY <1>2 DEF Take, config
  <2>2. cnt # 0 /\ rec_nb # 0 /\ rec_nb \in Nat /\ cnt \in Nat
    BY <1>2, RingNumbers, MaxNat DEF Empty
  <2>3. /\ Contents' \in Seq(Records) /\ Len(Contents') = cnt - 1
        /\ \A i \in 1..(cnt - 1) : Contents'[i] = slots[SlotOf(i)']
    BY <2>1, ContentsFactsNext DEF ContentsInSlots
  <2>4. Contents # <<>>
    BY <2>2, ContentsFacts DEF ContentsInSlots
  <2>5. CASE lifo
    <3>1. \A i \in 1..(cnt - 1) : SlotOf(i)' = SlotOf(i)
      BY <2>1, <2>2, <2>5, RingNumbers DEF SlotOf, Dec
    <3>2. SlotOf(cnt) = NextSlot
      BY <2>2, <2>5, RingNumbers DEF SlotOf, NextSlot, Dec
    <3>3. slots[NextSlot] = Contents[cnt]
      BY <1>0, <2>2, <3>2
    <3>4. /\ SubSeq(Contents, 1, cnt - 1) \in Seq(Records)
          /\ Len(SubSeq(Contents, 1, cnt - 1)) = cnt - 1
          /\ \A i \in 1..(cnt - 1) : SubSeq(Contents, 1, cnt - 1)[i] = Contents[i]
      BY <1>0, <2>2
    <3>5. \A i \in 1..(cnt - 1) : Contents'[i] = Contents[i]
      BY <1>0, <2>2, <2>3, <3>1
    <3>6. Contents' = SubSeq(Contents, 1, cnt - 1)
      BY <2>2, <2>3, <3>4, <3>5, SameSeq
    <3> QED
      BY <1>0, <2>1, <2>4, <2>5, <3>3, <3>6 DEF Result, Queue!Next1
  <2>6. CASE ~lifo
    <3>1. \A i \in 1..(cnt - 1) : SlotOf(i)' = SlotOf(i + 1)
      BY <2>1, <2>2, <2>6, RingNumbers DEF SlotOf
    <3>2. SlotOf(1) = NextSlot
      BY <2>2, <2>6, RingNumbers DEF SlotOf, NextSlot, Ring, IndicesAgree
    <3>3. slots[NextSlot] = Contents[1]
      BY <1>0, <2>2, <3>2
    <3>4. /\ Tail(Contents) \in Seq(Records) /\ Len(Tail(Contents)) = cnt - 1
          /\ \A i \in 1..(cnt - 1) : Tail(Contents)[i] = Contents[i + 1]
      BY <1>0, <2>2, <2>4
    <3>5. \A i \in 1..(cnt - 1) : Contents'[i] = Contents[i + 1]
      BY <1>0, <2>2, <2>3, <3>1
    <3>6. Contents' = Tail(Contents)
      BY <2>2, <2>3, <3>4, <3>5, SameSeq
    <3> QED
      BY <2>1, <2>4, <2>6, <3>3, <3>6 DEF Result, Queue!Next1
  <2> QED
    BY <2>5, <2>6
<1> QED
  BY <1>1, <1>2

LEMMA KillRefines ==
    ASSUME QueueAssumption, Ring', Kill
    PROVE  Queue!Closed
<1>1. Contents' = <<>>
  BY ContentsFactsNext DEF Kill, ContentsInSlots
<1> QED
  BY <1>1 DEF Kill, Queue!Closed

LEMMA StepRefines ==
    ASSUME QueueAssumption, Ring, Ring', [Next]_queueVars
    PROVE  [Queue!Next]_(Queue!abstractVars)
<1>1. CASE UNCHANGED queueVars
  BY <1>1 DEF queueVars, config, Contents, Queue!abstractVars
<1>2. ASSUME NEW nb \in Capacities, NEW isLifo \in BOOLEAN, NEW ow \in BOOLEAN,
             q_init(nb, isLifo, ow)
      PROVE  Queue!Open(nb, isLifo, ow)
  <2>1. CASE Kill /\ ret' = Result(FALSE, Nothing)
    BY <2>1, KillRefines DEF Result, Queue!Open, Queue!Answer
  <2>2. CASE ~(Kill /\ ret' = Result(FALSE, Nothing))
    <3>1. /\ lifo' = isLifo /\ ovw' = ow /\ rec_nb' = nb /\ cnt' = 0
          /\ ret' = Result(TRUE, Nothing)
      BY <1>2, <2>2, Zenon DEF q_init
    <3>2. Contents' = <<>>
      BY <3>1, ContentsFactsNext DEF ContentsInSlots
    <3> QED
      BY <3>1, <3>2 DEF Result, Queue!Open, Queue!Answer
  <2> QED
    BY <2>1, <2>2
<1>3. ASSUME q_kill PROVE Queue!Close
  BY <1>3, KillRefines DEF q_kill, Result, Queue!Close, Queue!Answer
<1>4. ASSUME q_flush PROVE Queue!Flush
  <2>1. cnt' = 0 /\ ret' = Result(TRUE, Nothing) /\ UNCHANGED <<lifo, ovw, rec_nb>>
    BY <1>4 DEF q_flush, config
  <2>2. Contents' = <<>>
    BY <2>1, ContentsFactsNext DEF ContentsInSlots
  <2> QED
    BY <2>1, <2>2 DEF Result, Queue!Flush, Queue!Answer
<1>5. ASSUME NEW x \in Records, q_push(x)
      PROVE  Queue!Push(x)
  BY <1>5, PushRefines
<1>6. ASSUME q_pop PROVE Queue!Take(TRUE)
  BY <1>6, TakeRefines DEF q_pop
<1>7. ASSUME q_drop PROVE Queue!Take(FALSE)
  BY <1>7, TakeRefines DEF q_drop
<1> QED
  BY <1>1, <1>2, <1>3, <1>4, <1>5, <1>6, <1>7 DEF Next, Queue!Next

\* The ring answers as a bounded queue does, whatever its length and its mode:
\* mk_queue.c implements what mk_queue.h promises.
THEOREM RingIsQueue == Spec => ImplementsBoundedQueue
<1>1. Init => Queue!Init
  <2>1. Init => Contents = <<>>
    BY InitRing, ContentsFacts DEF Init, ContentsInSlots
  <2> QED
    BY <2>1 DEF Init, Queue!Init, Result, Queue!Answer
<1>2. Ring /\ [Next]_queueVars => Ring'
  BY QueueAssumption, StepKeepsRing
<1>3. Ring /\ Ring' /\ [Next]_queueVars => [Queue!Next]_(Queue!abstractVars)
  BY QueueAssumption, StepRefines
<1> QED
  BY <1>1, <1>2, <1>3, InitRing, PTL DEF Spec, ImplementsBoundedQueue, Queue!Spec

-----------------------------------------------------------------------------
(* The calls that only look.                                               *)

LEMMA RemainderOnce ==
    ASSUME NEW m \in Nat \ {0}, NEW x \in 0..(2 * m - 1)
    PROVE  x % m = IF x < m THEN x ELSE x - m
BY SMT

\* The next record to come out is in slot NextSlot.
LEMMA NextIsAt ==
    ASSUME Ring, cnt # 0
    PROVE  slots[NextSlot] = Queue!Next1
<1>1. cnt \in Nat /\ 1 \in 1..cnt /\ cnt \in 1..cnt
  BY QueueAssumption, RingNumbers, MaxNat
<1>2. CASE lifo
  <2>1. SlotOf(cnt) = NextSlot
    BY <1>1, <1>2, QueueAssumption, RingNumbers DEF SlotOf, NextSlot, Dec
  <2> QED
    BY <1>1, <1>2, <2>1, ContentsFacts DEF ContentsInSlots, Queue!Next1
<1>3. CASE ~lifo
  <2>1. SlotOf(1) = NextSlot
    BY <1>1, <1>3, QueueAssumption, RingNumbers
       DEF SlotOf, NextSlot, Ring, IndicesAgree
  <2> QED
    BY <1>1, <1>3, <2>1, ContentsFacts DEF ContentsInSlots, Queue!Next1
<1> QED
  BY <1>2, <1>3

LEMMA PeekIdxIsAt ==
    ASSUME Ring, ~lifo, NEW idx \in Nat
    PROVE  q_peekIdx(idx) = IF idx < cnt THEN Result(TRUE, Contents[idx + 1])
                                         ELSE Result(FALSE, Nothing)
<1>1. cnt \in Nat /\ rec_nb \in Nat /\ cnt <= rec_nb
  BY QueueAssumption, RingNumbers, MaxNat
<1>2. CASE idx < cnt
  <2> DEFINE x == out + idx
  <2>1. rec_nb \in Nat \ {0} /\ x \in 0..(2 * rec_nb - 1)
    BY <1>1, <1>2, QueueAssumption, RingNumbers
  <2>2. SlotOf(idx + 1) = IF x < rec_nb THEN x ELSE x - rec_nb
    <3>1. in = (IF out + cnt < rec_nb THEN out + cnt ELSE out + cnt - rec_nb)
      BY <2>1, QueueAssumption, RingNumbers DEF Ring, IndicesAgree
    <3> QED
      BY <1>1, <1>2, <2>1, <3>1, QueueAssumption, RingNumbers DEF SlotOf
  <2> HIDE DEF x
  <2>3. x % rec_nb = IF x < rec_nb THEN x ELSE x - rec_nb
    BY <2>1, RemainderOnce, Zenon
  <2>4. Contents[idx + 1] = slots[x % rec_nb]
    BY <1>1, <1>2, <2>2, <2>3, ContentsFacts DEF ContentsInSlots
  <2>5. Contents[idx + 1] = slots[(out + idx) % rec_nb]
    BY <2>4 DEF x
  <2>6. ~(idx + 1 > cnt)
    BY <1>1, <1>2
  <2> QED
    BY <1>2, <2>5, <2>6, Zenon DEF q_peekIdx
<1>3. CASE ~(idx < cnt)
  <2>1. idx + 1 > cnt
    BY <1>1, <1>3
  <2> QED
    BY <1>3, <2>1, Zenon DEF q_peekIdx
<1> QED
  BY <1>2, <1>3

LEMMA PreviousIsLast ==
    ASSUME Ring, ~lifo
    PROVE  q_peekPrevious = IF Contents = <<>> THEN Result(FALSE, Nothing)
                            ELSE Result(TRUE, Contents[Len(Contents)])
<1>1. cnt \in 0..MaxCapacity /\ MaxCapacity \in Nat
  BY QueueAssumption, RingNumbers, MaxNat
<1>2. CASE cnt = 0
  <2>1. (cnt - 1) % (MaxCapacity + 1) \in Nat
    BY <1>1, SMT
  <2> QED
    <3>1. ~((cnt - 1) % (MaxCapacity + 1) < cnt)
      BY <1>2, <2>1
    <3>2. Contents = <<>>
      BY <1>2, ContentsFacts DEF ContentsInSlots
    <3> QED
      BY <2>1, <3>1, <3>2, PeekIdxIsAt, Zenon DEF q_peekPrevious
<1>3. CASE cnt # 0
  <2>1. (cnt - 1) % (MaxCapacity + 1) = cnt - 1
    <3>1. MaxCapacity + 1 \in Nat \ {0} /\ cnt - 1 \in 0..(2 * (MaxCapacity + 1) - 1)
      BY <1>1, <1>3
    <3>2. (cnt - 1) % (MaxCapacity + 1) =
             IF cnt - 1 < MaxCapacity + 1 THEN cnt - 1
                                          ELSE cnt - 1 - (MaxCapacity + 1)
      BY <3>1, RemainderOnce, Zenon
    <3> QED
      BY <1>1, <3>2
  <2>2. cnt - 1 \in Nat /\ cnt - 1 < cnt /\ (cnt - 1) + 1 = cnt
    BY <1>1, <1>3
  <2> QED
    BY <1>1, <1>3, <2>1, <2>2, PeekIdxIsAt, ContentsFacts
       DEF ContentsInSlots, q_peekPrevious
<1> QED
  BY <1>2, <1>3

\* q_peek, q_peekIdx and q_peekPrevious show the record they are to show, at
\* any position of the ring (mk_queue.c:237-322).
THEOREM PeeksAgree == Spec => []PeeksRight
<1>1. Ring => PeeksRight
  <2> SUFFICES ASSUME Ring PROVE PeeksRight
    OBVIOUS
  <2>1. q_peek = IF Contents = <<>> THEN Result(FALSE, Nothing)
                                    ELSE Result(TRUE, Queue!Next1)
    BY NextIsAt, ContentsFacts DEF q_peek, Empty, ContentsInSlots
  <2>2. ASSUME ~lifo, NEW idx \in 0..rec_nb
        PROVE  q_peekIdx(idx) =
                 IF idx < Len(Contents) THEN Result(TRUE, Contents[idx + 1])
                                        ELSE Result(FALSE, Nothing)
    <3>1. idx \in Nat /\ Len(Contents) = cnt
      BY QueueAssumption, RingNumbers, ContentsFacts, MaxNat DEF ContentsInSlots
    <3> QED
      BY <2>2, <3>1, PeekIdxIsAt, Zenon
  <2> QED
    BY <2>1, <2>2, PreviousIsLast DEF PeeksRight
<1> QED
  BY <1>1, RingInvariant, PTL
=============================================================================
