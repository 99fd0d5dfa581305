------------------------------ MODULE Hal_proofs ------------------------------
(***************************************************************************)
(* The drivers at work, for any messages, any usart that has no pin of a   *)
(* LED (USART1 has one), and any configuring task.  No output is undone by *)
(* another task, and no byte is lost on its way: both follow from HalInv,  *)
(* whose parts say in turn what kinds of accesses the calls still hold,    *)
(* that a value once loaded is stored, that main is alone until it has     *)
(* ended, that the LEDs have a clock by then, what the pin of a LED is at  *)
(* each access of a toggle, and that a byte is written to DR only when a   *)
(* poll has found it empty.                                                *)
(*                                                                         *)
(* The configuration comes out as asked, and the divider right: that is    *)
(* WorkRight and AskedRight.  After says what a sequence of accesses makes *)
(* of a register; Works(s, C, W), for each function of the drivers, that s *)
(* fulfils the wishes W whatever the registers hold, given the clocks C.   *)
(* WorkRight has what is left of a call do so from the registers as they   *)
(* are, so that each access leaves the outcome alone, and AskedRight says  *)
(* that the outcome is what was asked.                                     *)
(***************************************************************************)
EXTENDS Hal, SequenceTheorems, FiniteSetTheorems, WellFoundedInduction, TLAPS

-----------------------------------------------------------------------------
(* The bytes of a sequence of accesses.                                    *)

IsByte(a) == a.reg[2] = "DR"

\* f[i] are the bytes among the first i of s.
BytesBy(s, f) ==
    f = [i \in 0..Len(s) |->
           IF i = 0 THEN <<>>
           ELSE IF s[i].reg[2] = "DR" THEN Append(f[i - 1], s[i].bits)
           ELSE f[i - 1]]

LEMMA LeastMember ==
    ASSUME NEW B \in SUBSET Nat, B # {}
    PROVE  \E j \in B : \A l \in B : j <= l
<1>1. PICK j \in B : \A l \in B : <<l, j>> \notin OpToRel(<, Nat)
  BY NatLessThanWellFounded, WFMin
<1>2. \A l \in B : ~(l < j)
  BY <1>1 DEF OpToRel
<1> QED BY <1>2

LEMMA BytesUnique ==
    ASSUME NEW S, NEW s \in Seq(S), NEW f, NEW g, BytesBy(s, f), BytesBy(s, g)
    PROVE  f = g
<1> DEFINE B == {i \in 0..Len(s) : f[i] # g[i]}
<1>1. /\ f = [i \in 0..Len(s) |-> f[i]] /\ g = [i \in 0..Len(s) |-> g[i]]
      /\ \A i \in 0..Len(s) :
           /\ f[i] = IF i = 0 THEN <<>>
                     ELSE IF s[i].reg[2] = "DR" THEN Append(f[i - 1], s[i].bits)
                     ELSE f[i - 1]
           /\ g[i] = IF i = 0 THEN <<>>
                     ELSE IF s[i].reg[2] = "DR" THEN Append(g[i - 1], s[i].bits)
                     ELSE g[i - 1]
  BY DEF BytesBy
<1>2. CASE B = {}
  <2>1. \A i \in 0..Len(s) : f[i] = g[i]
    BY <1>2
  <2> QED BY <1>1, <2>1
<1>3. CASE B # {}
  <2>1. \E j \in B : \A l \in B : j <= l
    <3>1. B \in SUBSET Nat
      OBVIOUS
    <3> HIDE DEF B
    <3> QED BY <1>3, <3>1, LeastMember
  <2>2. PICK j \in B : \A l \in B : j <= l
    BY <2>1
  <2>4. j # 0
    BY <1>1
  <2>5. j - 1 \in 0..Len(s) /\ f[j - 1] = g[j - 1]
    BY <2>2, <2>4
  <2> QED BY <1>1, <2>4, <2>5
<1> QED BY <1>2, <1>3

LEMMA BytesExist ==
    ASSUME NEW S, NEW s \in Seq(S), NEW D,
           \A a \in S : IsByte(a) => a.bits \in D
    PROVE  \E f \in [0..Len(s) -> Seq(D)] : BytesBy(s, f)
<1> DEFINE By(n, f) ==
             f = [i \in 0..n |->
                    IF i = 0 THEN <<>>
                    ELSE IF s[i].reg[2] = "DR" THEN Append(f[i - 1], s[i].bits)
                    ELSE f[i - 1]]
           Good(n) == \E f \in [0..n -> Seq(D)] : By(n, f)
           B == {n \in 0..Len(s) : ~Good(n)}
<1>1. Len(s) \in Nat /\ \A i \in 1..Len(s) : s[i] \in S
  OBVIOUS
<1>2. Good(0)
  <2> DEFINE f == [i \in 0..0 |-> <<>>]
  <2>1. f \in [0..0 -> Seq(D)]
    OBVIOUS
  <2>2. By(0, f)
    OBVIOUS
  <2> HIDE DEF f, By
  <2> QED BY <2>1, <2>2
<1>3. ASSUME NEW n \in 0..Len(s), n # 0, Good(n - 1) PROVE Good(n)
  <2>1. PICK f \in [0..(n - 1) -> Seq(D)] : By(n - 1, f)
    BY <1>3
  <2> DEFINE x == IF s[n].reg[2] = "DR" THEN Append(f[n - 1], s[n].bits) ELSE f[n - 1]
             g == [i \in 0..n |-> IF i = n THEN x ELSE f[i]]
  <2>2. x \in Seq(D)
    <3>1. s[n] \in S /\ f[n - 1] \in Seq(D)
      BY <1>1, <1>3
    <3> QED BY <3>1 DEF IsByte
  <2>3. g \in [0..n -> Seq(D)]
    <3> HIDE DEF x
    <3> QED BY <1>3, <2>1, <2>2
  <2>4. By(n, g)
    <3>1. ASSUME NEW i \in 0..n
          PROVE  g[i] = IF i = 0 THEN <<>>
                        ELSE IF s[i].reg[2] = "DR" THEN Append(g[i - 1], s[i].bits)
                        ELSE g[i - 1]
      <4>1. CASE i = n
        <5>1. g[i - 1] = f[n - 1] /\ g[i] = x /\ i # 0
          BY <1>3, <4>1
        <5> QED BY <4>1, <5>1
      <4>2. CASE i # n
        <5>1. i \in 0..(n - 1) /\ g[i] = f[i]
          BY <1>3, <4>2
        <5>2. i # 0 => g[i - 1] = f[i - 1]
          BY <5>1
        <5>3. f[i] = IF i = 0 THEN <<>>
                     ELSE IF s[i].reg[2] = "DR" THEN Append(f[i - 1], s[i].bits)
                     ELSE f[i - 1]
          BY <2>1, <5>1
        <5> QED BY <5>1, <5>2, <5>3
      <4> QED BY <4>1, <4>2
    <3>2. g = [i \in 0..n |-> g[i]]
      OBVIOUS
    <3> HIDE DEF g
    <3> QED BY <3>1, <3>2
  <2> HIDE DEF g, By
  <2> QED BY <2>3, <2>4
<1>4. B = {}
  <2> SUFFICES ASSUME B # {} PROVE FALSE
    OBVIOUS
  <2>1. B \in SUBSET Nat
    BY <1>1
  <2>2. \E j \in B : \A l \in B : j <= l
    <3> HIDE DEF B
    <3> QED BY <2>1, LeastMember
  <2> HIDE DEF Good
  <2>3. PICK j \in B : \A l \in B : j <= l
    BY <2>2
  <2>4. j \in 0..Len(s) /\ ~Good(j) /\ j # 0
    BY <1>2
  <2>5. Good(j - 1)
    <3>1. j - 1 \in 0..Len(s) /\ ~(j <= j - 1)
      BY <1>1, <2>4
    <3> QED BY <2>3, <3>1
  <2> QED BY <1>3, <2>4, <2>5
<1>5. Good(Len(s))
  <2> HIDE DEF Good
  <2> QED BY <1>1, <1>4
<1> QED BY <1>5 DEF BytesBy

LEMMA BytesAre ==
    ASSUME NEW S, NEW s \in Seq(S), NEW f, BytesBy(s, f)
    PROVE  BytesOf(s) = f[Len(s)]
<1> DEFINE g == CHOOSE h : BytesBy(s, h)
<1>1. BytesBy(s, g)
  <2>1. \E h : BytesBy(s, h)
    BY Zenon
  <2> QED BY <2>1, Zenon
<1>2. BytesOf(s) = g[Len(s)]
  BY Zenon DEF BytesOf, BytesBy
<1> HIDE DEF g
<1>3. f = g
  BY <1>1, BytesUnique
<1> QED BY <1>2, <1>3

LEMMA AppendAfter ==
    ASSUME NEW D, NEW u \in Seq(D), NEW v \in Seq(D), NEW e \in D
    PROVE  u \o Append(v, e) = Append(u \o v, e)
OBVIOUS

\* Bytes of a sequence of two parts.
LEMMA BytesConcat ==
    ASSUME NEW S, NEW s \in Seq(S), NEW r \in Seq(S), NEW D,
           \A a \in S : IsByte(a) => a.bits \in D
    PROVE  /\ BytesOf(s \o r) = BytesOf(s) \o BytesOf(r)
           /\ BytesOf(s) \in Seq(D)
<1>1. PICK f \in [0..Len(s) -> Seq(D)] : BytesBy(s, f)
  BY BytesExist
<1>2. PICK g \in [0..Len(r) -> Seq(D)] : BytesBy(r, g)
  BY BytesExist
<1> DEFINE n == Len(s)
           m == Len(r)
           h == [i \in 0..(n + m) |-> IF i <= n THEN f[i] ELSE f[n] \o g[i - n]]
<1>3. /\ n \in Nat /\ m \in Nat /\ Len(s \o r) = n + m /\ s \o r \in Seq(S)
      /\ \A i \in 1..n : (s \o r)[i] = s[i] /\ s[i] \in S
      /\ \A i \in 1..m : (s \o r)[n + i] = r[i] /\ r[i] \in S
  BY ConcatProperties
<1>4. /\ \A i \in 0..n : f[i] \in Seq(D) /\
           f[i] = IF i = 0 THEN <<>>
                  ELSE IF s[i].reg[2] = "DR" THEN Append(f[i - 1], s[i].bits)
                  ELSE f[i - 1]
      /\ \A i \in 0..m : g[i] \in Seq(D) /\
           g[i] = IF i = 0 THEN <<>>
                  ELSE IF r[i].reg[2] = "DR" THEN Append(g[i - 1], r[i].bits)
                  ELSE g[i - 1]
  BY <1>1, <1>2, <1>3 DEF BytesBy
<1>5. h = [i \in 0..(n + m) |-> h[i]]
  OBVIOUS
<1>6. ASSUME NEW i \in 0..(n + m)
      PROVE  h[i] = IF i = 0 THEN <<>>
                    ELSE IF (s \o r)[i].reg[2] = "DR"
                         THEN Append(h[i - 1], (s \o r)[i].bits)
                    ELSE h[i - 1]
  <2>1. CASE i <= n
    <3>1. i \in 0..n /\ h[i] = f[i] /\ (i # 0 => h[i - 1] = f[i - 1])
      BY <1>3, <2>1
    <3>2. i # 0 => (s \o r)[i] = s[i]
      BY <1>3, <3>1
    <3> HIDE DEF h, n, m
    <3> QED BY <1>4, <3>1, <3>2
  <2>2. CASE i > n
    <3> DEFINE k == i - n
    <3>1. /\ k \in 1..m /\ k - 1 \in 0..m /\ h[i] = f[n] \o g[k]
          /\ i # 0 /\ (s \o r)[i] = r[k] /\ r[k] \in S
      <4>1. k \in 1..m /\ k - 1 \in 0..m /\ i = n + k
        BY <1>3, <2>2
      <4> QED BY <1>3, <2>2, <4>1
    <3>2. h[i - 1] = f[n] \o g[k - 1]
      <4>1. CASE k = 1
        <5>1. h[i - 1] = f[n]
          BY <1>3, <2>2, <4>1
        <5>2. g[k - 1] = <<>> /\ f[n] \in Seq(D)
          BY <1>3, <1>4, <3>1, <4>1
        <5> QED BY <5>1, <5>2
      <4>2. CASE k # 1
        <5>1. i - 1 \in 0..(n + m) /\ ~(i - 1 <= n) /\ i - 1 - n = k - 1
          BY <1>3, <2>2, <3>1, <4>2
        <5> QED BY <5>1
      <4> QED BY <4>1, <4>2
    <3>3. g[k] = IF r[k].reg[2] = "DR" THEN Append(g[k - 1], r[k].bits) ELSE g[k - 1]
      <4>1. k \in 0..m /\ k # 0
        BY <1>3, <3>1
      <4> HIDE DEF k, n, m, h
      <4> QED BY <1>4, <4>1
    <3>4. f[n] \in Seq(D) /\ g[k - 1] \in Seq(D)
      <4>1. k - 1 \in 0..m /\ n \in 0..n
        BY <1>3, <3>1
      <4> HIDE DEF k, n, m, h
      <4> QED BY <1>4, <4>1
    <3> HIDE DEF h, n, m, k
    <3>5. CASE r[k].reg[2] = "DR"
      <4>1. r[k].bits \in D
        BY <3>1, <3>5 DEF IsByte
      <4>2. f[n] \o Append(g[k - 1], r[k].bits) = Append(f[n] \o g[k - 1], r[k].bits)
        <5> DEFINE u == f[n]
                   v == g[k - 1]
                   e == r[k].bits
        <5>1. u \in Seq(D) /\ v \in Seq(D) /\ e \in D
          BY <3>4, <4>1
        <5>2. u \o Append(v, e) = Append(u \o v, e)
          <6> HIDE DEF u, v, e
          <6> QED BY <5>1, AppendAfter
        <5> QED BY <5>2
      <4> QED BY <3>1, <3>2, <3>3, <3>5, <4>2
    <3>6. CASE r[k].reg[2] # "DR"
      BY <3>1, <3>2, <3>3, <3>6
    <3> QED BY <3>5, <3>6
  <2> QED BY <1>3, <2>1, <2>2
<1>7. BytesBy(s \o r, h)
  <2> HIDE DEF h, n, m
  <2> QED BY <1>3, <1>5, <1>6 DEF BytesBy
<1>8. BytesOf(s \o r) = h[n + m]
  <2> HIDE DEF h
  <2> QED BY <1>3, <1>7, BytesAre
<1>9. BytesOf(s) = f[n] /\ BytesOf(r) = g[m]
  BY <1>1, <1>2, BytesAre
<1>10. h[n + m] = f[n] \o g[m]
  <2>1. CASE m = 0
    <3>1. g[m] = <<>> /\ f[n] \in Seq(D) /\ h[n + m] = f[n]
      BY <1>3, <1>4, <2>1
    <3> QED BY <3>1
  <2>2. CASE m # 0
    BY <1>3, <2>2
  <2> QED BY <2>1, <2>2
<1>11. BytesOf(s) \in Seq(D)
  BY <1>3, <1>9
<1> HIDE DEF h
<1> QED BY <1>8, <1>9, <1>10, <1>11

LEMMA BytesOfOne ==
    ASSUME NEW a
    PROVE  BytesOf(<<a>>) = IF IsByte(a) THEN <<a.bits>> ELSE <<>>
<1> DEFINE f == [i \in 0..1 |-> IF i = 1 /\ IsByte(a) THEN <<a.bits>> ELSE <<>>]
<1>1. <<a>> \in Seq({a}) /\ Len(<<a>>) = 1 /\ <<a>>[1] = a
  OBVIOUS
<1>2. BytesBy(<<a>>, f)
  BY DEF BytesBy, IsByte
<1>3. BytesOf(<<a>>) = f[1]
  <2> HIDE DEF f
  <2> QED BY <1>1, <1>2, BytesAre
<1> QED BY <1>3

LEMMA NoBytes ==
    ASSUME NEW S, NEW s \in Seq(S), \A a \in S : ~IsByte(a)
    PROVE  BytesOf(s) = <<>>
<1> DEFINE f == [i \in 0..Len(s) |-> <<>>]
<1>1. BytesBy(s, f)
  BY DEF BytesBy, IsByte
<1>2. BytesOf(s) = f[Len(s)]
  <2> HIDE DEF f
  <2> QED BY <1>1, BytesAre
<1> QED BY <1>2

\* The first access taken off.
LEMMA BytesOfRest ==
    ASSUME NEW S, NEW s \in Seq(S), s # <<>>, NEW D,
           \A a \in S : IsByte(a) => a.bits \in D
    PROVE  /\ BytesOf(s) = IF IsByte(Head(s)) THEN <<Head(s).bits>> \o BytesOf(Tail(s))
                           ELSE BytesOf(Tail(s))
           /\ BytesOf(Tail(s)) \in Seq(D)
<1>1. s = <<Head(s)>> \o Tail(s) /\ Tail(s) \in Seq(S) /\ <<Head(s)>> \in Seq(S)
  OBVIOUS
<1>2. BytesOf(s) = BytesOf(<<Head(s)>>) \o BytesOf(Tail(s))
      /\ BytesOf(Tail(s)) \in Seq(D)
  BY <1>1, BytesConcat
<1> HIDE DEF BytesOf
<1>3. CASE IsByte(Head(s))
  BY <1>2, <1>3, BytesOfOne
<1>4. CASE ~IsByte(Head(s))
  <2>1. BytesOf(<<Head(s)>>) = <<>>
    BY <1>4, BytesOfOne
  <2> QED BY <1>2, <1>4, <2>1, ConcatEmptySeq
<1> QED BY <1>3, <1>4
-----------------------------------------------------------------------------
(* What the drivers do: the accesses of a transmission.                    *)

\* What FlattenSeq makes of non-empty sequences.
LEMMA FlattenIs ==
    ASSUME NEW seqs, Len(seqs) \in Nat \ {0}, NEW f,
           f = [i \in 1..Len(seqs) |-> IF i = 1 THEN seqs[i] ELSE f[i - 1] \o seqs[i]]
    PROVE  FlattenSeq(seqs) = f[Len(seqs)]
<1> DEFINE n == Len(seqs)
           By(h) == h = [i \in 1..n |-> IF i = 1 THEN seqs[i] ELSE h[i - 1] \o seqs[i]]
           g == CHOOSE h : By(h)
<1>1. By(f)
  OBVIOUS
<1>2. By(g)
  <2>1. \E h : By(h)
    BY <1>1, Zenon
  <2> QED BY <2>1, Zenon
<1>3. FlattenSeq(seqs) = g[n]
  BY Zenon DEF FlattenSeq
<1> HIDE DEF g
<1> DEFINE B == {i \in 1..n : f[i] # g[i]}
<1>4. /\ f = [i \in 1..n |-> f[i]] /\ g = [i \in 1..n |-> g[i]]
      /\ \A i \in 1..n : /\ f[i] = IF i = 1 THEN seqs[i] ELSE f[i - 1] \o seqs[i]
                         /\ g[i] = IF i = 1 THEN seqs[i] ELSE g[i - 1] \o seqs[i]
  BY <1>1, <1>2
<1> HIDE DEF By
<1>5. B = {}
  <2> SUFFICES ASSUME B # {} PROVE FALSE
    OBVIOUS
  <2>1. \E j \in B : \A l \in B : j <= l
    <3>1. B \in SUBSET Nat
      OBVIOUS
    <3> HIDE DEF B
    <3> QED BY <3>1, LeastMember
  <2>2. PICK j \in B : \A l \in B : j <= l
    BY <2>1
  <2>3. j # 1
    BY <1>4
  <2>4. j - 1 \in 1..n /\ f[j - 1] = g[j - 1]
    BY <2>2, <2>3
  <2>5. j \in 1..n /\ f[j] # g[j]
    OBVIOUS
  <2>6. f[j] = f[j - 1] \o seqs[j] /\ g[j] = g[j - 1] \o seqs[j]
    BY <1>4, <2>3, <2>5
  <2> QED BY <2>4, <2>5, <2>6
<1>6. n \in 1..n /\ (n \in B <=> f[n] # g[n])
  OBVIOUS
<1> QED BY <1>3, <1>5, <1>6

SendByte(u, D) == [op : {"write"}, reg : {<<u, "DR">>}, bits : D]
SendWait(u)    == [op : {"await"}, reg : {<<u, "SR">>}, bits : {{TXE}, {TC}}]

\* Access k of a transmission of buf.
Sent(u, buf, k) ==
    IF k % 2 = 0 THEN [op |-> "write", reg |-> <<u, "DR">>, bits |-> buf[k \div 2]]
    ELSE [op |-> "await", reg |-> <<u, "SR">>, bits |-> IF k = 1 THEN {TXE} ELSE {TC}]

LEMMA PairOf ==
    ASSUME NEW a, NEW b
    PROVE  <<a>> \o <<b>> = <<a, b>>
<1> DEFINE S == {a, b}
<1>1. <<a>> \in Seq(S) /\ <<b>> \in Seq(S) /\ <<a, b>> \in Seq(S)
  OBVIOUS
<1>2. Len(<<a>>) = 1 /\ Len(<<b>>) = 1 /\ Len(<<a, b>>) = 2
      /\ <<a>>[1] = a /\ <<b>>[1] = b /\ <<a, b>>[1] = a /\ <<a, b>>[2] = b
  OBVIOUS
<1> DEFINE c == <<a>> \o <<b>>
<1>3. c \in Seq(S) /\ Len(c) = 2
  BY <1>1, <1>2, ConcatProperties
<1>4. c[1] = a /\ c[2] = b
  BY <1>1, <1>2, ConcatProperties
<1> DEFINE d == <<a, b>>
<1>5. d \in Seq(S) /\ Len(d) = 2 /\ d[1] = a /\ d[2] = b
  BY <1>1, <1>2
<1>6. c = d
  <2> HIDE DEF c, d, S
  <2> QED BY <1>3, <1>4, <1>5, SeqEqual
<1> QED BY <1>6

LEMMA TransmitIs ==
    ASSUME NEW u, NEW D, NEW buf \in Seq(D)
    PROVE  LET s == USART_Transmit(u, buf)
           IN  /\ s \in Seq(SendByte(u, D) \cup SendWait(u))
               /\ Len(s) = 2 * Len(buf) + 1
               /\ \A k \in 1..Len(s) : s[k] = Sent(u, buf, k)
<1> DEFINE n == Len(buf)
           S == SendByte(u, D) \cup SendWait(u)
           first == Await(<<u, "SR">>, {TXE})
           seqs == [i \in DOMAIN buf |-> write_byte(u, buf[i])]
           f == [i \in 1..n |-> [k \in 1..(2 * i) |-> Sent(u, buf, k + 1)]]
           rest == [k \in 1..(2 * n) |-> Sent(u, buf, k + 1)]
<1>1. n \in Nat /\ DOMAIN buf = 1..n /\ \A i \in 1..n : buf[i] \in D
  OBVIOUS
<1>2. \A k \in 1..(2 * n + 1) : Sent(u, buf, k) \in S
  <2> SUFFICES ASSUME NEW k \in 1..(2 * n + 1) PROVE Sent(u, buf, k) \in S
    OBVIOUS
  <2>1. CASE k % 2 = 0
    <3>1. k \div 2 \in 1..n
      BY <1>1, <2>1
    <3>2. buf[k \div 2] \in D
      BY <1>1, <3>1
    <3> QED BY <2>1, <3>2 DEF Sent, SendByte
  <2>2. CASE k % 2 # 0
    BY <2>2 DEF Sent, SendWait
  <2> QED BY <2>1, <2>2
<1>3. Len(seqs) = n
  BY <1>1
<1>4. ASSUME NEW i \in 1..n
      PROVE  /\ Sent(u, buf, 2 * i) = [op |-> "write", reg |-> <<u, "DR">>, bits |-> buf[i]]
             /\ Sent(u, buf, 2 * i + 1) = [op |-> "await", reg |-> <<u, "SR">>, bits |-> {TC}]
             /\ seqs[i] = <<Sent(u, buf, 2 * i), Sent(u, buf, 2 * i + 1)>>
  <2>1. (2 * i) % 2 = 0 /\ (2 * i + 1) % 2 = 1 /\ (2 * i) \div 2 = i /\ 2 * i + 1 # 1
    BY <1>1
  <2>2. Sent(u, buf, 2 * i) = [op |-> "write", reg |-> <<u, "DR">>, bits |-> buf[i]]
    BY <2>1 DEF Sent
  <2>3. Sent(u, buf, 2 * i + 1) = [op |-> "await", reg |-> <<u, "SR">>, bits |-> {TC}]
    BY <2>1 DEF Sent
  <2>4. seqs[i] = write_byte(u, buf[i])
    BY <1>1
  <2>5. write_byte(u, buf[i]) = <<Sent(u, buf, 2 * i), Sent(u, buf, 2 * i + 1)>>
    <3> DEFINE a == Sent(u, buf, 2 * i)
               b == Sent(u, buf, 2 * i + 1)
    <3>1. write_byte(u, buf[i]) = <<a>> \o <<b>>
      BY <2>2, <2>3, Zenon DEF write_byte, Write, Await
    <3> HIDE DEF a, b
    <3>2. <<a>> \o <<b>> = <<a, b>>
      BY PairOf
    <3> QED BY <3>1, <3>2 DEF a, b
  <2> QED BY <2>2, <2>3, <2>4, <2>5
<1>5. FlattenSeq(seqs) = rest
  <2>1. CASE n = 0
    <3>1. seqs = <<>> /\ rest = <<>>
      BY <1>1, <2>1
    <3> QED BY <1>3, <2>1, <3>1 DEF FlattenSeq
  <2>2. CASE n # 0
    <3>1. ASSUME NEW i \in 1..n
          PROVE  f[i] = IF i = 1 THEN seqs[i] ELSE f[i - 1] \o seqs[i]
      <4> DEFINE a == Sent(u, buf, 2 * i)
                 b == Sent(u, buf, 2 * i + 1)
                 before == [k \in 1..(2 * (i - 1)) |-> Sent(u, buf, k + 1)]
      <4>0. a \in S /\ b \in S
        BY <1>1, <1>2
      <4>1. f[i] = [k \in 1..(2 * i) |-> Sent(u, buf, k + 1)]
        OBVIOUS
      <4>2. before \in Seq(S) /\ Len(before) = 2 * (i - 1)
        BY <1>1, <1>2
      <4>3. before \o <<a, b>> = f[i]
        <5>1. f[i] \in Seq(S) /\ Len(f[i]) = 2 * i
          BY <1>1, <1>2
        <5>2. before \o <<a, b>> \in Seq(S) /\ Len(before \o <<a, b>>) = 2 * i
          <6> HIDE DEF before, a, b, S
          <6> QED BY <1>1, <4>0, <4>2
        <5>3. ASSUME NEW k \in 1..(2 * i) PROVE (before \o <<a, b>>)[k] = f[i][k]
          <6>1. f[i][k] = Sent(u, buf, k + 1)
            OBVIOUS
          <6>2. CASE k <= 2 * (i - 1)
            BY <4>2, <6>1, <6>2
          <6>3. CASE k = 2 * i - 1
            <7>1. (before \o <<a, b>>)[k] = a
              <8> HIDE DEF before, a, b, S
              <8> QED BY <4>2, <4>0, <6>3
            <7> QED BY <6>1, <6>3, <7>1
          <6>4. CASE k = 2 * i
            <7>1. (before \o <<a, b>>)[k] = b
              <8> HIDE DEF before, a, b, S
              <8> QED BY <4>2, <4>0, <6>4
            <7> QED BY <6>1, <6>4, <7>1
          <6> QED BY <6>2, <6>3, <6>4
        <5> HIDE DEF before, a, b, S, f
        <5> QED BY <5>1, <5>2, <5>3, SeqEqual
      <4>4. CASE i = 1
        <5>1. before = <<>>
          BY <4>4
        <5> HIDE DEF before, a, b, S, f
        <5>2. <<>> \o <<a, b>> = <<a, b>>
          BY <4>0
        <5> QED BY <1>4, <4>3, <4>4, <5>1, <5>2 DEF a, b
      <4>5. CASE i # 1
        <5>1. f[i - 1] = before
          BY <4>5
        <5> HIDE DEF before, S, f, seqs
        <5> QED BY <1>4, <4>3, <4>5, <5>1
      <4> QED BY <4>4, <4>5
    <3>2. f = [i \in 1..n |-> f[i]]
      OBVIOUS
    <3> HIDE DEF f, seqs
    <3>3. f = [i \in 1..n |-> IF i = 1 THEN seqs[i] ELSE f[i - 1] \o seqs[i]]
      BY <3>1, <3>2
    <3>4. FlattenSeq(seqs) = f[n]
      BY <1>1, <1>3, <2>2, <3>3, FlattenIs
    <3> QED BY <1>1, <2>2, <3>4 DEF f
  <2> QED BY <2>1, <2>2
<1>6. USART_Transmit(u, buf) = first \o rest
  BY <1>5, Zenon DEF USART_Transmit
<1>7. first = <<Sent(u, buf, 1)>>
  BY DEF Await, Sent
<1>8. rest \in Seq(S) /\ Len(rest) = 2 * n
      /\ \A k \in 1..(2 * n) : rest[k] = Sent(u, buf, k + 1)
  BY <1>1, <1>2
<1>9. Sent(u, buf, 1) \in S
  BY <1>1, <1>2
<1> HIDE DEF rest, S, first
<1>10. first \in Seq(S) /\ Len(first) = 1 /\ first[1] = Sent(u, buf, 1)
  BY <1>7, <1>9
<1>11. first \o rest \in Seq(S) /\ Len(first \o rest) = 2 * n + 1
       /\ \A k \in 1..(2 * n + 1) : (first \o rest)[k] = Sent(u, buf, k)
  <2>1. /\ first \o rest \in Seq(S) /\ Len(first \o rest) = 2 * n + 1
        /\ \A k \in 1..(2 * n + 1) :
             (first \o rest)[k] = IF k <= 1 THEN first[k] ELSE rest[k - 1]
    <3> DEFINE c == first \o rest
    <3>1. /\ c \in Seq(S) /\ Len(c) = Len(first) + Len(rest)
          /\ \A k \in 1..(Len(first) + Len(rest)) :
               c[k] = IF k <= Len(first) THEN first[k] ELSE rest[k - Len(first)]
      BY <1>8, <1>10, ConcatProperties
    <3>2. Len(first) = 1 /\ Len(rest) = 2 * n /\ n \in Nat
      BY <1>1, <1>8, <1>10
    <3> HIDE DEF c, n
    <3> QED BY <3>1, <3>2 DEF c
  <2>2. ASSUME NEW k \in 1..(2 * n + 1) PROVE (first \o rest)[k] = Sent(u, buf, k)
    <3>1. CASE k = 1
      BY <1>10, <2>1, <3>1
    <3>2. CASE k # 1
      <4>1. k - 1 \in 1..(2 * n) /\ (k - 1) + 1 = k /\ ~(k <= 1)
        BY <1>1, <3>2
      <4>2. rest[k - 1] = Sent(u, buf, (k - 1) + 1)
        BY <1>8, <4>1
      <4> QED BY <2>1, <4>1, <4>2
    <3> QED BY <3>1, <3>2
  <2> QED BY <2>1, <2>2
<1> QED BY <1>6, <1>11 DEF S

\* A transmission sends what it is given.
LEMMA BytesOfTransmit ==
    ASSUME NEW u, NEW D, NEW buf \in Seq(D)
    PROVE  BytesOf(USART_Transmit(u, buf)) = buf
<1> DEFINE n == Len(buf)
           s == USART_Transmit(u, buf)
           f == [k \in 0..(2 * n + 1) |-> SubSeq(buf, 1, k \div 2)]
<1>1. /\ n \in Nat /\ s \in Seq(SendByte(u, D) \cup SendWait(u))
      /\ Len(s) = 2 * n + 1 /\ \A k \in 1..(2 * n + 1) : s[k] = Sent(u, buf, k)
  BY TransmitIs
<1> HIDE DEF s
<1>2. ASSUME NEW k \in 0..(2 * n + 1)
      PROVE  f[k] = IF k = 0 THEN <<>>
                    ELSE IF s[k].reg[2] = "DR" THEN Append(f[k - 1], s[k].bits)
                    ELSE f[k - 1]
  <2>1. CASE k = 0
    BY <1>1, <2>1
  <2>2. CASE k # 0 /\ k % 2 = 0
    <3> DEFINE j == k \div 2
    <3>1. j \in 1..n /\ (k - 1) \div 2 = j - 1 /\ k \in 1..(2 * n + 1)
          /\ k - 1 \in 0..(2 * n + 1)
      BY <1>1, <2>2
    <3>2. s[k].reg[2] = "DR" /\ s[k].bits = buf[j]
      BY <1>1, <2>2, <3>1 DEF Sent
    <3>3. f[k] = SubSeq(buf, 1, j) /\ f[k - 1] = SubSeq(buf, 1, j - 1)
      BY <3>1
    <3> HIDE DEF j, f
    <3>4. SubSeq(buf, 1, j) = Append(SubSeq(buf, 1, j - 1), buf[j])
      BY <1>1, <3>1
    <3> QED BY <2>2, <3>2, <3>3, <3>4
  <2>3. CASE k % 2 # 0
    <3>1. k # 0 /\ (k - 1) \div 2 = k \div 2 /\ k \in 1..(2 * n + 1)
          /\ k - 1 \in 0..(2 * n + 1)
      BY <1>1, <2>3
    <3>2. s[k].reg[2] # "DR"
      BY <1>1, <2>3, <3>1 DEF Sent
    <3>3. f[k] = f[k - 1]
      BY <3>1
    <3> QED BY <3>1, <3>2, <3>3
  <2> QED BY <2>1, <2>2, <2>3
<1>3. f = [k \in 0..(2 * n + 1) |-> f[k]]
  OBVIOUS
<1>4. f[2 * n + 1] = buf
  <2>1. (2 * n + 1) \div 2 = n /\ SubSeq(buf, 1, n) = buf
    BY <1>1, SubSeqFull
  <2> QED BY <1>1, <2>1
<1>5. BytesBy(s, f)
  <2> HIDE DEF f
  <2> QED BY <1>1, <1>2, <1>3 DEF BytesBy
<1>6. BytesOf(s) = f[Len(s)]
  <2> HIDE DEF f
  <2> QED BY <1>1, <1>5, BytesAre
<1> QED BY <1>1, <1>4, <1>6 DEF s
-----------------------------------------------------------------------------
(* What the drivers do: the accesses of main before it transmits.          *)

Byte == ToSet(Greeting) \cup UNION {ToSet(m) : m \in Messages}

AHB1ENR == <<"RCC", "AHB1ENR">>
ODR     == <<"GPIOA", "ODR">>
RccReg  == {"RCC"} \X {"AHB1ENR", "APB1ENR", "APB2ENR"}
UsartReg == (DOMAIN Usart) \X {"CR1", "CR2", "CR3", "BRR"}

Configuring ==
    Setting \cup Branching
      \cup [op : {"set"}, reg : RccReg, bits : SUBSET (0..31)]
      \cup [op : {"set", "write"}, reg : UsartReg, bits : SUBSET (0..31)]
      \cup [op : {"write"}, reg : LineRegs, bits : SUBSET (0..31)]

\* main begins by giving the ports a clock, that of GPIOA first.
FirstAccess == [op |-> "set", reg |-> AHB1ENR, bits |-> {0}]

Sending == SendByte(usart.usartx, Byte) \cup SendWait(usart.usartx)

-----------------------------------------------------------------------------
(* The inductive invariant.                                                *)

Typed ==
    /\ usart \in InitStructs
    /\ reg = [r \in Register |-> reg[r]]
    /\ todo = [t \in Thread |-> todo[t]] /\ loaded = [t \in Thread |-> loaded[t]]
    /\ todo["main"] \in Seq(Configuring \cup Sending)
    /\ todo["uart"] \in Seq(Sending)
    /\ todo["setup"] \in Seq(Setting \cup Branching)

\* A thread is in the middle of a read-modify-write only when that is next.
LoadedRight ==
    \A t \in Thread :
        loaded[t] # NotLoaded => ~Idle(t) /\ Access(t).op \in {"set", "clear"}

MainFirst == ~Idle("main") => \A t \in Task : Idle(t)

ClockRight ==
    /\ 0 \notin reg[AHB1ENR] => ~Idle("main") /\ Access("main") = FirstAccess
    /\ loaded["main"] # NotLoaded /\ Access("main").reg = AHB1ENR =>
          loaded["main"] = reg[AHB1ENR]

\* The pin of a LED is as it was written, or will be by the access that is left.
LedRight(l) ==
    LET on == LedPin[l] \in reg[ODR]
    IN  \/ todo[l] = <<>> /\ (level[l] <=> on)
        \/ todo[l] = GPIO_Write("GPIOA", LedPin[l], level[l])
        \/ todo[l] = GPIO_Toggle("GPIOA", LedPin[l]) /\ (level[l] <=> ~on)

LedsRight == level \in [Led -> BOOLEAN] /\ \A l \in Led : LedRight(l)

\* Each byte comes after a wait for the one before it.
Paced(s) == \A i \in 2..Len(s) : IsByte(s[i]) => s[i - 1].op = "await"

Serial == {"main", "uart"}

OneByte == {Empty} \cup {{b} : b \in Byte}

SerialRight ==
    /\ \A t \in Serial :
         Paced(todo[t]) /\ (~Idle(t) /\ IsByte(Access(t)) => data = Empty)
    /\ TXE \in reg[SR] => data = Empty
    /\ TC \in reg[SR] => data = Empty /\ shifter = Empty
    /\ data \in OneByte /\ shifter \in OneByte
    /\ due \in Seq(Byte) /\ BytesInOrder

HalInv ==
    /\ Typed /\ LoadedRight /\ MainFirst /\ ClockRight /\ LedsRight /\ SerialRight
-----------------------------------------------------------------------------
(* The accesses.                                                           *)

LEMMA UsartFacts ==
    /\ DOMAIN Usart = {"USART1", "USART2", "USART3", "UART4", "UART5", "USART6"}
    /\ \A u \in DOMAIN Usart :
         /\ Usart[u].tx \in 0..15 /\ Usart[u].rx \in 0..15
         /\ Usart[u].af \in SUBSET (0..3) /\ Usart[u].clock \in 0..31
         /\ Usart[u].enr \in RccReg /\ Usart[u].irqn \in 0..95
<1>1. DOMAIN Usart = {"USART1", "USART2", "USART3", "UART4", "UART5", "USART6"}
  BY DEF Usart
<1>2. ASSUME NEW u \in DOMAIN Usart
      PROVE  /\ Usart[u].tx \in 0..15 /\ Usart[u].rx \in 0..15
             /\ Usart[u].af \in SUBSET (0..3) /\ Usart[u].clock \in 0..31
             /\ Usart[u].enr \in RccReg /\ Usart[u].irqn \in 0..95
  BY <1>1 DEF Usart, Pins, AF7, AF8, RccReg
<1> QED BY <1>1, <1>2

LEMMA ClockOfIs ==
    /\ \A p \in DOMAIN Clock : ClockOf(p) = {<<AHB1ENR, Clock[p]>>}
    /\ \A p \in DOMAIN Usart : ClockOf(p) = {<<Usart[p].enr, Usart[p].clock>>}
    /\ \A p : p \notin (DOMAIN Clock) \cup (DOMAIN Usart) => ClockOf(p) = {}
<1>1. \A p \in DOMAIN Usart : p \notin DOMAIN Clock
  BY UsartFacts DEF Clock
<1> QED BY <1>1 DEF ClockOf, AHB1ENR

\* What main gives to USART_Init.
LEMMA StructFacts ==
    ASSUME NEW init \in InitStructs
    PROVE  LET u == Usart[init.usartx]
           IN  /\ init.usartx \in DOMAIN Usart /\ u.txPort \in Ports /\ u.rxPort \in Ports
               /\ u.tx \in 0..15 /\ u.rx \in 0..15 /\ u.af \in SUBSET (0..3)
               /\ u.clock \in 0..31 /\ u.enr \in RccReg
<1>1. /\ init.usartx \in DOMAIN Usart
      /\ Usart[init.usartx].txPort \in Ports /\ Usart[init.usartx].rxPort \in Ports
  BY HalAssumption
<1> QED BY ONLY <1>1, UsartFacts

\* What an access of main, of the transmitting and of the configuring task is.
LEMMA AccessFacts ==
    ASSUME NEW u \in DOMAIN Usart,
           NEW a \in Configuring \cup (SendByte(u, Byte) \cup SendWait(u))
    PROVE  /\ a.op \in {"set", "clear"} =>
                a.reg \notin {ODR, <<u, "SR">>} /\ a.reg[2] # "DR" /\ a.reg \in Register
           /\ a.op = "write" => a.reg \notin {ODR, <<u, "SR">>, AHB1ENR}
                                /\ a.reg[2] # "BSRR" /\ a.reg # <<"GPIOA", "BSRR">>
           /\ a.op = "write" /\ a.reg[2] # "DR" => a.reg \in Register
           /\ a.op = "write" /\ a.reg[2] = "DR" => a \in SendByte(u, Byte)
           /\ a.reg = AHB1ENR => a.op = "set"
           /\ a.op = "await" => a \in SendWait(u)
           /\ a.op = "if" => a.yes \in Seq(Setting) /\ a.no \in Seq(Setting)
                             /\ a.reg[2] # "DR"
           /\ a.reg[2] = "DR" => a.op = "write" /\ a.bits \in Byte
           /\ a.op \in {"set", "clear", "write", "await", "if"}
<1>0. a \in Setting \/ a \in Branching
      \/ a \in [op : {"set"}, reg : RccReg, bits : SUBSET (0..31)]
      \/ a \in [op : {"set", "write"}, reg : UsartReg, bits : SUBSET (0..31)]
      \/ a \in [op : {"write"}, reg : LineRegs, bits : SUBSET (0..31)]
      \/ a \in SendByte(u, Byte) \/ a \in SendWait(u)
  BY DEF Configuring
<1>1. ASSUME NEW r \in PinRegs
      PROVE  r # ODR /\ r # <<u, "SR">> /\ r[2] \notin {"DR", "BSRR"} /\ r # AHB1ENR
             /\ r \in Register
  BY DEF PinRegs, ODR, AHB1ENR, Register
<1>2. ASSUME NEW r \in LineRegs
      PROVE  r # ODR /\ r # <<u, "SR">> /\ r[2] \notin {"DR", "BSRR"} /\ r # AHB1ENR
             /\ r \in Register
  <2>1. /\ r[1] \in {"EXTI", "NVIC"}
        /\ r[2] \in {"IMR", "RTSR", "FTSR", "ISER0", "ISER1", "ISER2"}
    BY DEF LineRegs, ISER
  <2>2. u # "EXTI" /\ u # "NVIC"
    BY UsartFacts
  <2>3. r \in Register
    BY DEF Register
  <2> QED BY <2>1, <2>2, <2>3 DEF ODR, AHB1ENR
<1>3. ASSUME NEW r \in RccReg
      PROVE  r # ODR /\ r # <<u, "SR">> /\ r[2] \notin {"DR", "BSRR"} /\ r \in Register
  BY UsartFacts DEF RccReg, ODR, Register
<1>4. ASSUME NEW r \in UsartReg
      PROVE  r # ODR /\ r # <<u, "SR">> /\ r[2] \notin {"DR", "BSRR"} /\ r # AHB1ENR
             /\ r \in Register
  BY UsartFacts DEF UsartReg, ODR, AHB1ENR, Register
<1>5. CASE a \in Setting
  BY <1>1, <1>2, <1>5 DEF Setting
<1>6. CASE a \in Branching
  BY <1>1, <1>6 DEF Branching
<1>7. CASE a \in [op : {"set"}, reg : RccReg, bits : SUBSET (0..31)]
  BY <1>3, <1>7
<1>8. CASE a \in [op : {"set", "write"}, reg : UsartReg, bits : SUBSET (0..31)]
  BY <1>4, <1>8
<1>9. CASE a \in [op : {"write"}, reg : LineRegs, bits : SUBSET (0..31)]
  BY <1>2, <1>9
<1>10. CASE a \in SendByte(u, Byte)
  <2>1. <<u, "DR">> # ODR /\ <<u, "DR">> # <<u, "SR">> /\ <<u, "DR">> # AHB1ENR
    BY DEF ODR, AHB1ENR
  <2> QED BY <1>10, <2>1 DEF SendByte
<1>11. CASE a \in SendWait(u)
  <2>1. <<u, "SR">> # AHB1ENR
    BY DEF AHB1ENR
  <2> QED BY <1>11, <2>1 DEF SendWait
<1> QED BY <1>0, <1>5, <1>6, <1>7, <1>8, <1>9, <1>10, <1>11

\* The driver functions configure.
LEMMA ConfiguringConcat ==
    ASSUME NEW s \in Seq(Configuring), NEW r \in Seq(Configuring)
    PROVE  s \o r \in Seq(Configuring)
OBVIOUS

LEMMA SetModeConfigures ==
    ASSUME NEW port \in Ports, NEW pin \in 0..15, NEW mode \in SUBSET {0, 1}
    PROVE  GPIO_Set_Mode(port, pin, mode) \in Seq(Setting)
<1>1. Shift({0, 1}, pin * 2) \in SUBSET (0..31) /\ Shift(mode, pin * 2) \in SUBSET (0..31)
  BY DEF Shift
<1>2. <<port, "MODER">> \in PinRegs
  BY DEF PinRegs
<1>3. Clear(<<port, "MODER">>, Shift({0, 1}, pin * 2)) \in Seq(Setting)
  BY <1>1, <1>2 DEF Clear, Setting
<1>4. Set(<<port, "MODER">>, Shift(mode, pin * 2)) \in Seq(Setting)
  BY <1>1, <1>2 DEF Set, Setting
<1> QED BY <1>3, <1>4 DEF GPIO_Set_Mode

LEMMA SetAFConfigures ==
    ASSUME NEW port \in Ports, NEW pin \in 0..15, NEW af \in SUBSET (0..3)
    PROVE  GPIO_Set_AF(port, pin, af) \in Seq(Setting \cup Branching)
<1> DEFINE afr == <<port, IF pin <= 7 THEN "AFRL" ELSE "AFRH">>
           choice == If(<<port, "MODER">>, Shift(GPIO_MODE_AF, pin * 2), <<>>,
                        GPIO_Set_Mode(port, pin, GPIO_MODE_AF))
           clear == Clear(afr, Shift(0..3, pin * 4))
           set == Set(afr, Shift(af, pin * 4))
<1>1. afr \in PinRegs /\ <<port, "MODER">> \in PinRegs
  BY DEF PinRegs
<1>2. \A bits, n : Shift(bits, n) \in SUBSET (0..31)
  BY DEF Shift
<1>3. GPIO_Set_Mode(port, pin, GPIO_MODE_AF) \in Seq(Setting) /\ <<>> \in Seq(Setting)
  BY SetModeConfigures DEF GPIO_MODE_AF
<1> HIDE DEF afr
<1>4. choice \in Seq(Branching)
  <2> DEFINE no == GPIO_Set_Mode(port, pin, GPIO_MODE_AF)
             bits == Shift(GPIO_MODE_AF, pin * 2)
  <2>1. bits \in SUBSET (0..31)
    BY <1>2
  <2>2. no \in Seq(Setting)
    BY <1>3
  <2> HIDE DEF no, bits
  <2>3. [op |-> "if", reg |-> <<port, "MODER">>, bits |-> bits, yes |-> <<>>, no |-> no]
          \in Branching
    BY <1>1, <1>3, <2>1, <2>2 DEF Branching
  <2> QED BY <2>3 DEF If, no, bits
<1>5. clear \in Seq(Setting) /\ set \in Seq(Setting)
  BY <1>1, <1>2 DEF Clear, Set, Setting
<1> HIDE DEF choice, clear, set
<1>6. /\ choice \in Seq(Setting \cup Branching)
      /\ clear \in Seq(Setting \cup Branching) /\ set \in Seq(Setting \cup Branching)
  BY <1>4, <1>5, SeqMonotonic
<1>7. GPIO_Set_AF(port, pin, af) = choice \o clear \o set
  BY Zenon DEF GPIO_Set_AF, choice, clear, set, afr
<1> QED BY <1>6, <1>7

LEMMA OneConfigures ==
    ASSUME NEW a \in Configuring PROVE <<a>> \in Seq(Configuring)
OBVIOUS

LEMMA WhenConfigures ==
    ASSUME NEW c, NEW s \in Seq(Configuring) PROVE When(c, s) \in Seq(Configuring)
BY DEF When

LEMMA NVICConfigures ==
    ASSUME NEW irqn \in 0..95 PROVE NVIC_EnableIRQ(irqn) \in Seq(Configuring)
<1>1. ISER(irqn) \in {ISER(0), ISER(32), ISER(64)}
  <2>1. irqn \div 32 \in {0, 1, 2} /\ 0 \div 32 = 0 /\ 32 \div 32 = 1 /\ 64 \div 32 = 2
    OBVIOUS
  <2> QED BY <2>1 DEF ISER
<1>2. ISER(irqn) \in LineRegs
  BY <1>1 DEF LineRegs
<1>3. {irqn % 32} \in SUBSET (0..31)
  OBVIOUS
<1>4. [op |-> "write", reg |-> ISER(irqn), bits |-> {irqn % 32}] \in Configuring
  BY <1>2, <1>3 DEF Configuring
<1>5. Write(ISER(irqn), {irqn % 32}) \in Seq(Configuring)
  BY <1>4 DEF Write
<1> QED BY <1>5, WhenConfigures DEF NVIC_EnableIRQ

LEMMA EnableConfigures ==
    ASSUME NEW init, init.usartx \in DOMAIN Usart
    PROVE  Enable(init) \in Seq(Configuring)
<1> DEFINE R(name) == <<init.usartx, name>>
           CR1 == R("CR1")
           irqn == Usart[init.usartx].irqn
<1>1. ASSUME NEW name \in {"CR1", "CR2", "CR3", "BRR"}, NEW bits \in SUBSET (0..31)
      PROVE  Write(R(name), bits) \in Seq(Configuring)
             /\ Set(R(name), bits) \in Seq(Configuring)
  <2>1. R(name) \in UsartReg
    BY DEF UsartReg
  <2> HIDE DEF R
  <2>2. /\ [op |-> "write", reg |-> R(name), bits |-> bits] \in Configuring
        /\ [op |-> "set", reg |-> R(name), bits |-> bits] \in Configuring
    BY <2>1 DEF Configuring
  <2> QED BY <2>2 DEF Write, Set
<1>2. /\ Write(CR1, {}) \in Seq(Configuring) /\ Write(R("CR2"), {}) \in Seq(Configuring)
      /\ Write(R("CR3"), {}) \in Seq(Configuring)
  BY <1>1
<1>3. \A b \in {2, 3, 5, 6, 13} : Set(CR1, {b}) \in Seq(Configuring)
  <2>1. \A b \in {2, 3, 5, 6, 13} : {b} \in SUBSET (0..31)
    OBVIOUS
  <2> QED BY <1>1, <2>1
<1>4. NVIC_EnableIRQ(irqn) \in Seq(Configuring)
  BY UsartFacts, NVICConfigures
<1> DEFINE e1 == Write(CR1, {})
           e2 == Write(R("CR2"), {})
           e3 == Write(R("CR3"), {})
           e4 == Set(CR1, {13})
           e5 == When(init.transmit_en, Set(CR1, {3}))
           e6 == When(init.receive_en, Set(CR1, {2}))
           e7 == When(init.transmit_interrupts_en, Set(CR1, {6}) \o NVIC_EnableIRQ(irqn))
           e8 == When(init.receive_interrupts_en, Set(CR1, {5}) \o NVIC_EnableIRQ(irqn))
<1>5. /\ Set(CR1, {6}) \o NVIC_EnableIRQ(irqn) \in Seq(Configuring)
      /\ Set(CR1, {5}) \o NVIC_EnableIRQ(irqn) \in Seq(Configuring)
      /\ Set(CR1, {2}) \in Seq(Configuring) /\ Set(CR1, {3}) \in Seq(Configuring)
      /\ Set(CR1, {13}) \in Seq(Configuring)
  BY <1>3, <1>4, ConfiguringConcat
<1>6. /\ e1 \in Seq(Configuring) /\ e2 \in Seq(Configuring) /\ e3 \in Seq(Configuring)
      /\ e4 \in Seq(Configuring) /\ e5 \in Seq(Configuring) /\ e6 \in Seq(Configuring)
      /\ e7 \in Seq(Configuring) /\ e8 \in Seq(Configuring)
  BY <1>2, <1>5, WhenConfigures
<1>7. Enable(init) = e1 \o e2 \o e3 \o e4 \o e5 \o e6 \o e7 \o e8
  BY Zenon DEF Enable
<1> HIDE DEF e1, e2, e3, e4, e5, e6, e7, e8
<1> QED BY <1>6, <1>7

LEMMA USARTInitConfigures ==
    ASSUME NEW init \in InitStructs PROVE USART_Init(init) \in Seq(Configuring)
<1> DEFINE u == Usart[init.usartx]
           Alternate(port, pin) == GPIO_Set_Mode(port, pin, GPIO_MODE_AF)
                                     \o GPIO_Set_AF(port, pin, u.af)
           brr == Bits(UART_BRR_SAMPLING16(init.sys_freq, init.baud_rate))
           a1 == Set(u.enr, {u.clock})
           a2 == Alternate(u.txPort, u.tx)
           a3 == Alternate(u.rxPort, u.rx)
           a4 == Write(<<init.usartx, "BRR">>, brr)
<1>1. /\ init.usartx \in DOMAIN Usart /\ u.txPort \in Ports /\ u.rxPort \in Ports
      /\ u.tx \in 0..15 /\ u.rx \in 0..15 /\ u.af \in SUBSET (0..3)
      /\ u.clock \in 0..31 /\ u.enr \in RccReg
  BY StructFacts
<1>2. a1 \in Seq(Configuring)
  <2>1. [op |-> "set", reg |-> u.enr, bits |-> {u.clock}] \in Configuring
    <3> HIDE DEF u
    <3> QED BY <1>1 DEF Configuring
  <2> QED BY <2>1 DEF Set
<1>3. ASSUME NEW port \in Ports, NEW pin \in 0..15
      PROVE  Alternate(port, pin) \in Seq(Configuring)
  <2>1. GPIO_Set_Mode(port, pin, GPIO_MODE_AF) \in Seq(Setting)
    BY SetModeConfigures DEF GPIO_MODE_AF
  <2>2. GPIO_Set_AF(port, pin, u.af) \in Seq(Setting \cup Branching)
    BY <1>1, SetAFConfigures
  <2>3. Setting \subseteq Configuring /\ Setting \cup Branching \subseteq Configuring
    BY DEF Configuring
  <2>4. /\ GPIO_Set_Mode(port, pin, GPIO_MODE_AF) \in Seq(Configuring)
        /\ GPIO_Set_AF(port, pin, u.af) \in Seq(Configuring)
    BY <2>1, <2>2, <2>3, SeqMonotonic
  <2> QED BY <2>4, ConfiguringConcat
<1>4. a2 \in Seq(Configuring) /\ a3 \in Seq(Configuring)
  <2> HIDE DEF Alternate, u
  <2> QED BY <1>1, <1>3
<1>5. Enable(init) \in Seq(Configuring)
  BY <1>1, EnableConfigures
<1>6. a4 \in Seq(Configuring)
  <2>1. brr \in SUBSET (0..31)
    <3>1. \A n : Bits(n) \subseteq 0..31
      BY DEF Bits
    <3> QED BY <3>1
  <2>2. <<init.usartx, "BRR">> \in UsartReg
    BY <1>1 DEF UsartReg
  <2> HIDE DEF brr
  <2>3. [op |-> "write", reg |-> <<init.usartx, "BRR">>, bits |-> brr] \in Configuring
    BY <2>1, <2>2 DEF Configuring
  <2> QED BY <2>3 DEF Write
<1>7. USART_Init(init) = a1 \o a2 \o a3 \o Enable(init) \o a4
  <2>1. USART_Init(init) = a1 \o (GPIO_Set_Mode(u.txPort, u.tx, GPIO_MODE_AF)
                                     \o GPIO_Set_AF(u.txPort, u.tx, u.af))
                              \o (GPIO_Set_Mode(u.rxPort, u.rx, GPIO_MODE_AF)
                                     \o GPIO_Set_AF(u.rxPort, u.rx, u.af))
                              \o Enable(init) \o a4
    BY Zenon DEF USART_Init
  <2> QED BY <2>1
<1> HIDE DEF a1, a2, a3, a4
<1> QED BY <1>2, <1>4, <1>5, <1>6, <1>7

\* s begins with FirstAccess and configures.
Begins(s) == s \in Seq(Configuring) /\ s # <<>> /\ Head(s) = FirstAccess

LEMMA BeginsConcat ==
    ASSUME NEW s, Begins(s), NEW r \in Seq(Configuring) PROVE Begins(s \o r)
BY DEF Begins

\* main configures, then transmits.
LEMMA MainConfigures ==
    ASSUME NEW init \in InitStructs
    PROVE  \E c : /\ Begins(c)
                  /\ MainProgram(init) = c \o USART_Transmit(init.usartx, Greeting)
<1> DEFINE On(b) == Set(AHB1ENR, {b})
           m1 == GPIO_Set_Mode("GPIOA", LedPin["red"], GPIO_MODE_OUTPUT)
           m2 == GPIO_Set_Mode("GPIOA", LedPin["green"], GPIO_MODE_OUTPUT)
<1>1. ASSUME NEW b \in 0..31 PROVE On(b) \in Seq(Configuring)
  <2>1. AHB1ENR \in RccReg
    BY DEF AHB1ENR, RccReg
  <2>2. [op |-> "set", reg |-> AHB1ENR, bits |-> {b}] \in Configuring
    BY <2>1 DEF Configuring
  <2> QED BY <2>2 DEF Set
<1>2. Begins(On(0))
  <2>1. On(0) = <<FirstAccess>>
    BY DEF Set, FirstAccess
  <2>2. On(0) \in Seq(Configuring)
    BY <1>1
  <2> QED BY <2>1, <2>2 DEF Begins
<1>3. GPIO_Clock_Init = On(0) \o On(1) \o On(2) \o On(3) \o On(7)
  BY Zenon DEF GPIO_Clock_Init, AHB1ENR
<1>4. /\ On(1) \in Seq(Configuring) /\ On(2) \in Seq(Configuring)
      /\ On(3) \in Seq(Configuring) /\ On(7) \in Seq(Configuring)
  BY <1>1
<1> HIDE DEF On
<1>5. Begins(GPIO_Clock_Init)
  <2>1. Begins(On(0) \o On(1))
    BY <1>2, <1>4, BeginsConcat
  <2>2. Begins(On(0) \o On(1) \o On(2))
    BY <2>1, <1>4, BeginsConcat
  <2>3. Begins(On(0) \o On(1) \o On(2) \o On(3))
    BY <2>2, <1>4, BeginsConcat
  <2> QED BY <2>3, <1>3, <1>4, BeginsConcat
<1>6. m1 \in Seq(Configuring) /\ m2 \in Seq(Configuring)
  <2>1. "GPIOA" \in Ports /\ LedPin["red"] \in 0..15 /\ LedPin["green"] \in 0..15
        /\ GPIO_MODE_OUTPUT \in SUBSET {0, 1}
    BY HalAssumption DEF LedPin, GPIO_MODE_OUTPUT
  <2>2. m1 \in Seq(Setting) /\ m2 \in Seq(Setting)
    BY <2>1, SetModeConfigures
  <2>3. Setting \subseteq Configuring
    BY DEF Configuring
  <2> HIDE DEF m1, m2
  <2> QED BY <2>2, <2>3, SeqMonotonic
<1>7. USART_Init(init) \in Seq(Configuring)
  BY USARTInitConfigures
<1> DEFINE c == GPIO_Clock_Init \o m1 \o m2 \o USART_Init(init)
<1>8. Begins(c)
  <2> HIDE DEF m1, m2
  <2>1. Begins(GPIO_Clock_Init \o m1)
    BY <1>5, <1>6, BeginsConcat
  <2>2. Begins(GPIO_Clock_Init \o m1 \o m2)
    BY <2>1, <1>6, BeginsConcat
  <2> QED BY <2>2, <1>7, BeginsConcat
<1>9. MainProgram(init) = c \o USART_Transmit(init.usartx, Greeting)
  BY Zenon DEF MainProgram
<1> HIDE DEF c
<1> QED BY <1>8, <1>9

\* Messages consist of bytes.
LEMMA MessageFacts == Greeting \in Seq(Byte) /\ \A m \in Messages : m \in Seq(Byte)
<1>1. Greeting \in Seq(Byte)
  <2>1. "g" \in Byte
    BY DEF Byte, ToSet, Greeting
  <2> QED BY <2>1 DEF Greeting
<1>2. ASSUME NEW m \in Messages PROVE m \in Seq(Byte)
  <2>1. m \in Seq(ToSet(m)) /\ ToSet(m) \subseteq Byte
    BY HalAssumption DEF Byte
  <2> QED BY <2>1, SeqMonotonic
<1> QED BY <1>1, <1>2

-----------------------------------------------------------------------------
(* What the steps of a thread have in common.                              *)

Caller == {"main", "uart", "setup"}

LEMMA UsartIs == ASSUME Typed PROVE usart.usartx \in DOMAIN Usart /\ SR \in Register
<1>1. usart.usartx \in DOMAIN Usart
  BY HalAssumption DEF Typed
<1> QED BY <1>1 DEF SR, Register

LEMMA CallersAccess ==
    ASSUME Typed, NEW t \in Caller
    PROVE  /\ todo[t] \in Seq(Configuring \cup Sending)
           /\ ~Idle(t) => /\ Access(t) \in Configuring \cup Sending
                          /\ Tail(todo[t]) \in Seq(Configuring \cup Sending)
                          /\ t = "uart" => Access(t) \in Sending
                          /\ t = "setup" => Access(t) \in Setting \cup Branching
<1> DEFINE S == Configuring \cup Sending
           Conf == Setting \cup Branching
<1>1. Sending \subseteq S /\ Conf \subseteq S
  BY DEF Configuring
<1>2. /\ todo["main"] \in Seq(S) /\ todo["uart"] \in Seq(Sending)
      /\ todo["setup"] \in Seq(Conf)
  BY DEF Typed
<1> HIDE DEF S, Conf
<1>3. todo["uart"] \in Seq(S) /\ todo["setup"] \in Seq(S)
  BY <1>1, <1>2, SeqMonotonic
<1>4. todo[t] \in Seq(S)
  BY <1>2, <1>3 DEF Caller
<1>5. ASSUME ~Idle(t)
      PROVE  /\ Access(t) \in S /\ Tail(todo[t]) \in Seq(S)
             /\ t = "uart" => Access(t) \in Sending
             /\ t = "setup" => Access(t) \in Conf
  <2>1. todo[t] # <<>>
    BY <1>5 DEF Idle
  <2> QED BY <1>2, <1>4, <2>1 DEF Access
<1> QED BY <1>4, <1>5 DEF S, Conf

LEMMA CallersAccessIs ==
    ASSUME Typed, NEW t \in Caller, ~Idle(t)
    PROVE  LET a == Access(t)
           IN  /\ a.op \in {"set", "clear"} =>
                    a.reg \notin {ODR, SR} /\ a.reg[2] # "DR" /\ a.reg \in Register
               /\ a.op = "write" => a.reg \notin {ODR, SR, AHB1ENR}
                                    /\ a.reg[2] # "BSRR" /\ a.reg # <<"GPIOA", "BSRR">>
               /\ a.op = "write" /\ a.reg[2] # "DR" => a.reg \in Register
               /\ a.op = "write" /\ a.reg[2] = "DR" => a \in SendByte(usart.usartx, Byte)
               /\ a.reg = AHB1ENR => a.op = "set"
               /\ a.op = "await" => a \in SendWait(usart.usartx)
               /\ a.op = "if" => a.yes \in Seq(Setting) /\ a.no \in Seq(Setting)
                                 /\ a.reg[2] # "DR"
               /\ a.reg[2] = "DR" => a.op = "write" /\ a.bits \in Byte
               /\ a.op \in {"set", "clear", "write", "await", "if"}
<1>1. /\ usart.usartx \in DOMAIN Usart
      /\ Access(t) \in Configuring \cup (SendByte(usart.usartx, Byte) \cup SendWait(usart.usartx))
  BY UsartIs, CallersAccess DEF Sending
<1> QED BY ONLY <1>1, AccessFacts DEF SR

\* The accesses of a LED.
LedWrite(l, high) ==
    [op |-> "write", reg |-> <<"GPIOA", "BSRR">>,
     bits |-> {IF high THEN LedPin[l] ELSE LedPin[l] + 16}]
LedChoice(l) ==
    [op |-> "if", reg |-> ODR, bits |-> {LedPin[l]},
     yes |-> <<LedWrite(l, FALSE)>>, no |-> <<LedWrite(l, TRUE)>>]

LEMMA LedCalls ==
    ASSUME NEW l \in Led
    PROVE  /\ \A high : GPIO_Write("GPIOA", LedPin[l], high) = <<LedWrite(l, high)>>
           /\ GPIO_Toggle("GPIOA", LedPin[l]) = <<LedChoice(l)>>
<1>1. \A high : GPIO_Write("GPIOA", LedPin[l], high) = <<LedWrite(l, high)>>
  BY DEF GPIO_Write, Write, LedWrite
<1>2. GPIO_Toggle("GPIOA", LedPin[l]) =
        <<[op |-> "if", reg |-> ODR, bits |-> {LedPin[l]},
           yes |-> GPIO_Write("GPIOA", LedPin[l], FALSE),
           no |-> GPIO_Write("GPIOA", LedPin[l], TRUE)]>>
  BY Zenon DEF GPIO_Toggle, If, ODR
<1> QED BY <1>1, <1>2, Zenon DEF LedChoice

LEMMA LedsAccess ==
    ASSUME LedsRight, NEW l \in Led, ~Idle(l)
    PROVE  /\ \/ todo[l] = <<LedWrite(l, level[l])>> /\ Access(l) = LedWrite(l, level[l])
              \/ /\ todo[l] = <<LedChoice(l)>> /\ Access(l) = LedChoice(l)
                 /\ level[l] <=> LedPin[l] \notin reg[ODR]
           /\ Tail(todo[l]) = <<>>
           /\ \/ Access(l).op = "write" /\ Access(l).reg = <<"GPIOA", "BSRR">>
              \/ Access(l).op = "if" /\ Access(l).reg = ODR
<1>1. \/ todo[l] = <<LedWrite(l, level[l])>>
      \/ todo[l] = <<LedChoice(l)>> /\ (level[l] <=> LedPin[l] \notin reg[ODR])
  BY LedCalls DEF LedsRight, LedRight, Idle
<1>2. LedWrite(l, level[l]).op = "write" /\ LedWrite(l, level[l]).reg = <<"GPIOA", "BSRR">>
      /\ LedChoice(l).op = "if" /\ LedChoice(l).reg = ODR
  BY DEF LedWrite, LedChoice
<1>3. \A a : Head(<<a>>) = a /\ Tail(<<a>>) = <<>>
  OBVIOUS
<1> QED BY <1>1, <1>2, <1>3 DEF Access

LEMMA ThreadIs == Thread = Led \cup Caller /\ Led \cap Caller = {} /\ "main" \notin Task
                  /\ Task \subseteq Thread /\ Thread \ {"main"} = Task
BY DEF Thread, Task, Led, Caller

\* What a step of a thread makes of its calls.
LEMMA StepTodo ==
    ASSUME Typed, LoadedRight, NEW t \in Thread, Step(t)
    PROVE  /\ ~Idle(t) /\ usart' = usart /\ level' = level /\ due' = due
           /\ \A p \in Thread : p # t => todo'[p] = todo[p] /\ loaded'[p] = loaded[p]
           /\ todo' = [p \in Thread |-> todo'[p]] /\ loaded' = [p \in Thread |-> loaded'[p]]
           /\ \/ /\ Load(t) /\ Access(t).op \in {"set", "clear"}
                 /\ todo' = todo /\ loaded'[t] = reg[Access(t).reg] /\ reg' = reg
              \/ /\ Store(t) \/ Assign(t) \/ WriteDR(t) \/ Poll(t)
                 /\ todo'[t] = Tail(todo[t]) /\ loaded'[t] = NotLoaded
              \/ Poll(t) /\ UNCHANGED halVars
              \/ /\ Branch(t) /\ Access(t).op = "if" /\ loaded'[t] = NotLoaded
                 /\ todo'[t] = (IF Access(t).bits \subseteq reg[Access(t).reg]
                                THEN Access(t).yes ELSE Access(t).no) \o Tail(todo[t])
<1> USE DEF others
<1>0. todo = [p \in Thread |-> todo[p]] /\ loaded = [p \in Thread |-> loaded[p]]
  BY DEF Typed
<1>1. CASE Load(t)
  BY <1>0, <1>1 DEF Load
<1>2. CASE Store(t)
  BY <1>0, <1>2 DEF Store, Done
<1>3. CASE Assign(t) \/ WriteDR(t)
  <2>1. loaded[t] = NotLoaded /\ loaded' = loaded
    BY <1>3 DEF Assign, WriteDR, LoadedRight
  <2> QED BY <1>0, <1>3, <2>1 DEF Assign, WriteDR, Done
<1>4. CASE Poll(t)
  <2>1. loaded[t] = NotLoaded /\ loaded' = loaded
    BY <1>4 DEF Poll, LoadedRight
  <2>2. CASE todo' = todo
    BY <1>0, <1>4, <2>1, <2>2 DEF Poll, halVars
  <2>3. CASE todo' = [todo EXCEPT ![t] = Tail(@)]
    BY <1>0, <1>4, <2>1, <2>3 DEF Poll
  <2> QED BY <1>4, <2>2, <2>3 DEF Poll
<1>5. CASE Branch(t)
  <2>1. loaded[t] = NotLoaded /\ loaded' = loaded
    BY <1>5 DEF Branch, LoadedRight
  <2> QED BY <1>0, <1>5, <2>1 DEF Branch
<1> QED BY <1>1, <1>2, <1>3, <1>4, <1>5 DEF Step

\* The registers that a step of a thread leaves alone.
LEMMA OnlyMainClocks ==
    ASSUME Typed, NEW t \in {"uart", "setup"}, ~Idle(t)
    PROVE  Access(t).reg # AHB1ENR
<1>1. CASE t = "uart"
  <2>1. Access(t) \in Sending
    BY <1>1, CallersAccess DEF Caller
  <2>2. Access(t).reg[2] \in {"DR", "SR"}
    BY <2>1 DEF Sending, SendByte, SendWait
  <2> QED BY <2>2 DEF AHB1ENR
<1>2. CASE t = "setup"
  <2>1. Access(t) \in Setting \cup Branching
    BY <1>2, CallersAccess DEF Caller
  <2>2. Access(t).reg \in PinRegs \cup LineRegs
    BY <2>1 DEF Setting, Branching
  <2>3. \A r \in PinRegs : r[2] # "AHB1ENR"
    BY DEF PinRegs
  <2>4. \A r \in LineRegs : r[2] # "AHB1ENR"
    <3>1. \A r \in LineRegs : r[2] \in {"IMR", "RTSR", "FTSR", "ISER0", "ISER1", "ISER2"}
      BY DEF LineRegs, ISER
    <3> QED BY <3>1
  <2> QED BY <2>2, <2>3, <2>4 DEF AHB1ENR
<1> QED BY <1>1, <1>2

LEMMA RegistersApart == ODR # AHB1ENR /\ ODR # SR /\ SR # AHB1ENR /\ ODR \in Register
                        /\ AHB1ENR \in Register
<1>1. ODR \in Register
  BY HalAssumption DEF ODR, Register
<1>2. AHB1ENR \in Register
  BY DEF AHB1ENR, Register
<1> QED BY <1>1, <1>2 DEF ODR, AHB1ENR, SR

LEMMA LedAssigned ==
    ASSUME NEW a, a.reg = <<"GPIOA", "BSRR">>
    PROVE  Assigned(a) = [reg EXCEPT ![ODR] =
                            (reg[ODR] \ {b - 16 : b \in a.bits}) \cup (a.bits \cap 0..15)]
<1>1. a.reg[2] = "BSRR" /\ <<a.reg[1], "ODR">> = ODR
  BY DEF ODR
<1>2. Assigned(a) = [reg EXCEPT ![<<a.reg[1], "ODR">>] =
                       (@ \ {b - 16 : b \in a.bits}) \cup (a.bits \cap 0..15)]
  BY <1>1 DEF Assigned
<1> HIDE DEF ODR
<1> QED BY <1>1, <1>2

LEMMA StepReg ==
    ASSUME Typed, LoadedRight, LedsRight, NEW t \in Thread, Step(t)
    PROVE  /\ reg' = [r \in Register |-> reg'[r]]
           /\ t \in Led => reg'[SR] = reg[SR] /\ reg'[AHB1ENR] = reg[AHB1ENR]
           /\ t \in Caller =>
                /\ reg'[ODR] = reg[ODR]
                /\ reg'[SR] = IF IsByte(Access(t)) THEN reg[SR] \ {TXE, TC} ELSE reg[SR]
                /\ t # "main" \/ Access(t).op # "set" => reg'[AHB1ENR] = reg[AHB1ENR]
                /\ IsByte(Access(t)) => WriteDR(t)
                /\ WriteDR(t) => IsByte(Access(t))
<1> DEFINE a == Access(t)
           Frame ==
             /\ reg' = [r \in Register |-> reg'[r]]
             /\ t \in Led => reg'[SR] = reg[SR] /\ reg'[AHB1ENR] = reg[AHB1ENR]
             /\ t \in Caller =>
                  /\ reg'[ODR] = reg[ODR]
                  /\ reg'[SR] = IF IsByte(a) THEN reg[SR] \ {TXE, TC} ELSE reg[SR]
                  /\ t # "main" \/ a.op # "set" => reg'[AHB1ENR] = reg[AHB1ENR]
                  /\ IsByte(a) => WriteDR(t)
                  /\ WriteDR(t) => IsByte(a)
<1> SUFFICES Frame
  OBVIOUS
<1>1. reg = [r \in Register |-> reg[r]]
  BY DEF Typed
<1>2. ~Idle(t)
  BY DEF Step, Load, Store, Assign, WriteDR, Poll, Branch
<1>3. WriteDR(t) => a.op = "write" /\ IsByte(a)
  BY DEF WriteDR, IsByte
<1>4. t \in Led => a.op \in {"write", "if"} /\ a.reg \in {ODR, <<"GPIOA", "BSRR">>}
  BY <1>2, LedsAccess
<1>5. ASSUME t \in Caller
      PROVE  /\ a.op \in {"set", "clear"} =>
                  a.reg \notin {ODR, SR} /\ ~IsByte(a) /\ a.reg \in Register
             /\ a.op = "write" => a.reg \notin {ODR, SR, AHB1ENR} /\ a.reg[2] # "BSRR"
             /\ a.op = "write" /\ ~IsByte(a) => a.reg \in Register
             /\ a.op = "write" /\ IsByte(a) => a.reg = <<usart.usartx, "DR">>
             /\ a.reg = AHB1ENR => a.op = "set"
             /\ IsByte(a) => a.op = "write"
  BY <1>2, <1>5, CallersAccessIs DEF IsByte, SendByte
<1>6. t \in Caller /\ t # "main" => a.reg # AHB1ENR
  BY <1>2, OnlyMainClocks DEF Caller
<1> HIDE DEF a
<1>7. CASE Load(t) \/ Poll(t) \/ Branch(t)
  <2>1. reg' = reg /\ a.op \in {"set", "clear", "await", "if"}
    BY <1>7 DEF Load, Poll, Branch, a
  <2> QED BY <1>1, <1>3, <1>5, <2>1
<1>8. CASE Store(t)
  <2>1. a.op \in {"set", "clear"}
    BY <1>8 DEF Store, LoadedRight, a
  <2>2. t \in Caller
    BY <1>4, <2>1, ThreadIs
  <2>3. \E v : reg' = reg \/ reg' = [reg EXCEPT ![a.reg] = v]
    BY <1>8 DEF Store, a
  <2>4. a.reg \notin {ODR, SR} /\ ~IsByte(a) /\ a.reg \in Register
    BY <1>5, <2>1, <2>2
  <2>5. reg' = [r \in Register |-> reg'[r]] /\ \A r \in Register : r # a.reg => reg'[r] = reg[r]
    BY <1>1, <2>3, <2>4
  <2>6. reg'[ODR] = reg[ODR] /\ reg'[SR] = reg[SR]
        /\ (a.reg # AHB1ENR => reg'[AHB1ENR] = reg[AHB1ENR])
    BY <2>4, <2>5, RegistersApart, UsartIs
  <2> QED BY <1>3, <1>5, <1>6, <2>2, <2>4, <2>5, <2>6, ThreadIs
<1>9. CASE Assign(t)
  <2>1. a.op = "write" /\ ~IsByte(a)
    BY <1>9 DEF Assign, a, IsByte
  <2>2. reg' = reg \/ reg' = Assigned(a)
    BY <1>9 DEF Assign, a
  <2>3. CASE t \in Led
    <3>1. a.reg = <<"GPIOA", "BSRR">>
      BY <1>2, <2>1, <2>3, LedsAccess DEF a
    <3>2. \E v : Assigned(a) = [reg EXCEPT ![ODR] = v]
      BY <3>1, LedAssigned
    <3>3. reg' = [r \in Register |-> reg'[r]] /\ \A r \in Register : r # ODR => reg'[r] = reg[r]
      BY <1>1, <2>2, <3>2, RegistersApart
    <3> QED BY <2>3, <3>3, RegistersApart, UsartIs, ThreadIs
  <2>4. CASE t \in Caller
    <3>1. a.reg \notin {ODR, SR, AHB1ENR} /\ a.reg[2] # "BSRR" /\ a.reg \in Register
      BY <1>5, <2>1, <2>4
    <3>2. \E v : Assigned(a) = [reg EXCEPT ![a.reg] = v]
      BY <3>1 DEF Assigned
    <3>3. reg' = [r \in Register |-> reg'[r]] /\ \A r \in Register : r # a.reg => reg'[r] = reg[r]
      BY <1>1, <2>2, <3>1, <3>2
    <3> QED BY <1>3, <2>1, <2>4, <3>1, <3>3, RegistersApart, UsartIs, ThreadIs
  <2> QED BY <2>3, <2>4, ThreadIs
<1>10. CASE WriteDR(t)
  <2>1. a.op = "write" /\ IsByte(a)
    BY <1>3, <1>10
  <2>2. t \in Caller
    <3>1. ODR[2] # "DR" /\ <<"GPIOA", "BSRR">>[2] # "DR"
      BY DEF ODR
    <3> QED BY <1>4, <2>1, <3>1, ThreadIs DEF IsByte
  <2>3. a.reg = <<usart.usartx, "DR">>
    BY <1>5, <2>1, <2>2
  <2>4. reg' = [reg EXCEPT ![SR] = @ \ {TXE, TC}]
    BY <1>10, <2>3 DEF WriteDR, a, SR
  <2>5. /\ reg' = [r \in Register |-> reg'[r]] /\ \A r \in Register : r # SR => reg'[r] = reg[r]
        /\ reg'[SR] = reg[SR] \ {TXE, TC}
    BY <1>1, <2>4, UsartIs
  <2> QED BY <1>10, <2>1, <2>2, <2>5, RegistersApart, ThreadIs
<1> QED BY <1>7, <1>8, <1>9, <1>10 DEF Step

-----------------------------------------------------------------------------
(* Each part of the invariant is kept.                                     *)

\* Of a sequence over S, the rest of it, and with settings before it.
LEMMA RestTyped ==
    ASSUME NEW S, NEW s \in Seq(S), s # <<>>, NEW c
    PROVE  Tail(s) \in Seq(S) /\ (c \in Seq(S) => c \o Tail(s) \in Seq(S))
OBVIOUS

LEMMA CallsTyped ==
    ASSUME Typed, LoadedRight, NEW t \in Caller, Step(t)
    PROVE  /\ t = "main" => todo'[t] \in Seq(Configuring \cup Sending)
           /\ t = "uart" => todo'[t] \in Seq(Sending)
           /\ t = "setup" => todo'[t] \in Seq(Setting \cup Branching)
<1>1. t \in Thread
  BY ThreadIs
<1>2. ~Idle(t) /\ todo[t] # <<>>
  BY <1>1, StepTodo DEF Idle
<1>3. \/ todo'[t] = todo[t]
      \/ todo'[t] = Tail(todo[t])
      \/ /\ Access(t).op = "if"
         /\ \E c \in {Access(t).yes, Access(t).no} : todo'[t] = c \o Tail(todo[t])
  BY <1>1, StepTodo DEF halVars
<1>4. Access(t).op = "if" => Access(t).yes \in Seq(Setting) /\ Access(t).no \in Seq(Setting)
  BY <1>2, CallersAccessIs
<1>5. CASE t = "main"
  <2> DEFINE S == Configuring \cup Sending
  <2>1. todo[t] \in Seq(S)
    BY <1>5 DEF Typed
  <2>2. Setting \subseteq S
    BY DEF Configuring
  <2> HIDE DEF S
  <2>3. \A c \in Seq(Setting) : c \in Seq(S)
    BY <2>2, SeqMonotonic
  <2>4. todo'[t] \in Seq(S)
    BY <1>2, <1>3, <1>4, <2>1, <2>3, RestTyped
  <2> QED BY <1>5, <2>4 DEF S
<1>6. CASE t = "uart"
  <2>1. todo[t] \in Seq(Sending)
    BY <1>6 DEF Typed
  <2>2. Access(t).op # "if"
    <3>1. Access(t) \in Sending
      BY <1>2, <1>6, CallersAccess
    <3> QED BY <3>1 DEF Sending, SendByte, SendWait
  <2>3. todo'[t] \in Seq(Sending)
    BY <1>2, <1>3, <2>1, <2>2, RestTyped
  <2> QED BY <1>6, <2>3
<1>7. CASE t = "setup"
  <2> DEFINE S == Setting \cup Branching
  <2>1. todo[t] \in Seq(S) /\ Setting \subseteq S
    BY <1>7 DEF Typed
  <2> HIDE DEF S
  <2>2. \A c \in Seq(Setting) : c \in Seq(S)
    BY <2>1, SeqMonotonic
  <2>3. todo'[t] \in Seq(S)
    BY <1>2, <1>3, <1>4, <2>1, <2>2, RestTyped
  <2> QED BY <1>7, <2>3 DEF S
<1> QED BY <1>5, <1>6, <1>7

LEMMA UsartSteps ==
    ASSUME Typed, TransferByte \/ FrameSent
    PROVE  /\ UNCHANGED <<todo, loaded, usart, level>>
           /\ reg' = [r \in Register |-> reg'[r]]
           /\ reg'[ODR] = reg[ODR] /\ reg'[AHB1ENR] = reg[AHB1ENR]
<1>1. \E v : reg' = reg \/ reg' = [reg EXCEPT ![SR] = v]
  BY DEF TransferByte, FrameSent
<1>2. reg = [r \in Register |-> reg[r]]
  BY DEF Typed
<1>3. /\ reg' = [r \in Register |-> reg'[r]]
      /\ \A r \in Register : r # SR => reg'[r] = reg[r]
  BY <1>1, <1>2, UsartIs
<1> QED BY <1>3, RegistersApart DEF TransferByte, FrameSent, others

\* A task begins a call.
Begin(t) ==
    /\ t \in Task /\ Idle("main") /\ Idle(t)
    /\ todo' = [p \in Thread |-> todo'[p]]
    /\ \A p \in Thread \ {t} : todo'[p] = todo[p]
    /\ reg' = reg /\ loaded' = loaded /\ usart' = usart /\ data' = data /\ shifter' = shifter

LEMMA BeginSteps ==
    ASSUME Typed
    PROVE  /\ \A l \in Led : Blink(l) => Begin(l)
           /\ \A m \in Messages : Transmit(m) =>
                Begin("uart") /\ todo'["uart"] = USART_Transmit(usart.usartx, m)
                /\ level' = level
           /\ \A call \in SetupCalls : Setup(call) =>
                Begin("setup") /\ todo'["setup"] = call.accesses /\ level' = level /\ due' = due
<1> USE DEF Start, Begin, hardware
<1>1. todo = [p \in Thread |-> todo[p]]
  BY DEF Typed
<1>2. ASSUME NEW t \in Task, NEW acc, todo' = [todo EXCEPT ![t] = acc]
      PROVE  /\ todo' = [p \in Thread |-> todo'[p]] /\ todo'[t] = acc
             /\ \A p \in Thread \ {t} : todo'[p] = todo[p]
  BY <1>1, <1>2, ThreadIs
<1>3. ASSUME NEW l \in Led, Blink(l) PROVE Begin(l)
  <2>1. l \in Task
    BY DEF Task
  <2>2. PICK acc : Start(l, acc)
    BY <1>3 DEF Blink
  <2> QED BY <1>2, <1>3, <2>1, <2>2 DEF Blink
<1>4. ASSUME NEW m \in Messages, Transmit(m)
      PROVE  Begin("uart") /\ todo'["uart"] = USART_Transmit(usart.usartx, m) /\ level' = level
  BY <1>2, <1>4 DEF Transmit, Task
<1>5. ASSUME NEW call \in SetupCalls, Setup(call)
      PROVE  Begin("setup") /\ todo'["setup"] = call.accesses /\ level' = level /\ due' = due
  BY <1>2, <1>5 DEF Setup, Task
<1> QED BY <1>3, <1>4, <1>5

LEMMA TypedKept ==
    ASSUME Typed, LoadedRight, LedsRight, [Next]_halVars
    PROVE  Typed'
<1>1. CASE UNCHANGED halVars
  BY <1>1 DEF Typed, halVars, Sending
<1>2. ASSUME NEW t \in Task, Begin(t),
             t = "uart" => todo'[t] \in Seq(Sending),
             t = "setup" => todo'[t] \in Seq(Setting \cup Branching)
      PROVE  Typed'
  <2>1. {"main", "uart", "setup"} \subseteq Thread /\ t # "main"
    BY ThreadIs DEF Caller
  <2>2. /\ todo'["main"] \in Seq(Configuring \cup Sending)
        /\ todo'["uart"] \in Seq(Sending)
        /\ todo'["setup"] \in Seq(Setting \cup Branching)
    BY <1>2, <2>1 DEF Typed, Begin
  <2>3. Sending' = Sending
    BY <1>2 DEF Sending, Begin
  <2> QED BY <1>2, <2>2, <2>3 DEF Typed, Begin
<1>3. ASSUME NEW l \in Led, Blink(l) PROVE Typed'
  <2>1. Begin(l) /\ l \in Task /\ l \notin {"uart", "setup"}
    BY <1>3, BeginSteps DEF Task, Led
  <2> QED BY <1>2, <2>1
<1>4. ASSUME NEW m \in Messages, Transmit(m) PROVE Typed'
  <2>1. Begin("uart") /\ todo'["uart"] = USART_Transmit(usart.usartx, m)
    BY <1>4, BeginSteps
  <2>2. USART_Transmit(usart.usartx, m) \in Seq(Sending)
    BY MessageFacts, TransmitIs DEF Sending
  <2> QED BY <1>2, <2>1, <2>2 DEF Task
<1>5. ASSUME NEW call \in SetupCalls, Setup(call) PROVE Typed'
  <2>1. Begin("setup") /\ todo'["setup"] = call.accesses
    BY <1>5, BeginSteps
  <2>2. call.accesses \in Seq(Setting \cup Branching)
    BY HalAssumption
  <2> QED BY <1>2, <2>1, <2>2 DEF Task
<1>6. ASSUME NEW t \in Thread, Step(t) PROVE Typed'
  <2>1. {"main", "uart", "setup"} = Caller /\ Caller \subseteq Thread
    BY ThreadIs DEF Caller
  <2>2. \A p \in Thread : p # t => todo'[p] = todo[p]
    BY <1>6, StepTodo
  <2>3. /\ todo'["main"] \in Seq(Configuring \cup Sending)
        /\ todo'["uart"] \in Seq(Sending)
        /\ todo'["setup"] \in Seq(Setting \cup Branching)
    BY <1>6, <2>1, <2>2, CallsTyped DEF Typed
  <2>4. usart' = usart /\ Sending' = Sending
    BY <1>6, StepTodo DEF Sending
  <2>5. /\ reg' = [r \in Register |-> reg'[r]]
        /\ todo' = [p \in Thread |-> todo'[p]] /\ loaded' = [p \in Thread |-> loaded'[p]]
    BY <1>6, StepTodo, StepReg
  <2>6. usart' \in InitStructs
    BY <2>4 DEF Typed
  <2> QED BY <2>3, <2>4, <2>5, <2>6 DEF Typed
<1>7. CASE TransferByte \/ FrameSent
  BY <1>7, UsartSteps DEF Typed, Sending
<1> QED BY <1>1, <1>3, <1>4, <1>5, <1>6, <1>7 DEF Next

LEMMA LoadedKept ==
    ASSUME Typed, LoadedRight, LedsRight, [Next]_halVars
    PROVE  LoadedRight'
<1> SUFFICES ASSUME NEW t \in Thread, loaded'[t] # NotLoaded
             PROVE  ~Idle(t)' /\ Access(t)'.op \in {"set", "clear"}
  BY DEF LoadedRight
<1>1. ASSUME todo'[t] = todo[t], loaded'[t] = loaded[t]
      PROVE  ~Idle(t)' /\ Access(t)'.op \in {"set", "clear"}
  BY <1>1 DEF LoadedRight, Idle, Access
<1>2. CASE UNCHANGED halVars
  BY <1>1, <1>2 DEF halVars
<1>3. ASSUME NEW p \in Task, Begin(p)
      PROVE  todo'[t] = todo[t] /\ loaded'[t] = loaded[t]
  <2>1. t # p
    BY <1>3, ThreadIs DEF Begin, LoadedRight
  <2> QED BY <1>3, <2>1 DEF Begin
<1>4. CASE \/ \E l \in Led : Blink(l)
           \/ \E m \in Messages : Transmit(m)
           \/ \E call \in SetupCalls : Setup(call)
  <2>1. \E p \in Task : Begin(p)
    BY <1>4, BeginSteps DEF Begin
  <2> QED BY <1>1, <1>3, <2>1
<1>5. ASSUME NEW p \in Thread, Step(p) PROVE ~Idle(t)' /\ Access(t)'.op \in {"set", "clear"}
  <2>1. CASE t # p
    BY <1>1, <1>5, <2>1, StepTodo
  <2>2. CASE t = p
    <3>1. \/ Access(t).op \in {"set", "clear"} /\ todo' = todo
          \/ UNCHANGED halVars
      BY <1>5, <2>2, StepTodo
    <3>2. CASE Access(t).op \in {"set", "clear"} /\ todo' = todo
      BY <1>5, <2>2, <3>2, StepTodo DEF Idle, Access
    <3> QED BY <1>2, <3>1, <3>2
  <2> QED BY <2>1, <2>2
<1>6. CASE TransferByte \/ FrameSent
  BY <1>1, <1>6, UsartSteps
<1> QED BY <1>2, <1>4, <1>5, <1>6 DEF Next

LEMMA MainFirstKept ==
    ASSUME Typed, LoadedRight, LedsRight, MainFirst, [Next]_halVars
    PROVE  MainFirst'
<1>1. CASE UNCHANGED halVars
  BY <1>1 DEF MainFirst, Idle, halVars
<1>2. CASE \/ \E l \in Led : Blink(l)
           \/ \E m \in Messages : Transmit(m)
           \/ \E call \in SetupCalls : Setup(call)
  <2>1. PICK p \in Task : Begin(p)
    BY <1>2, BeginSteps DEF Begin
  <2>2. "main" \in Thread \ {p}
    BY ThreadIs DEF Thread
  <2> QED BY <2>1, <2>2 DEF MainFirst, Idle, Begin
<1>3. ASSUME NEW p \in Thread, Step(p) PROVE MainFirst'
  <2>1. ~Idle(p) /\ \A q \in Thread : q # p => todo'[q] = todo[q]
    BY <1>3, StepTodo
  <2>2. "main" \in Thread /\ \A q \in Task : q \in Thread /\ q # "main"
    BY ThreadIs DEF Thread
  <2> QED BY <2>1, <2>2 DEF MainFirst, Idle
<1>4. CASE TransferByte \/ FrameSent
  BY <1>4, UsartSteps DEF MainFirst, Idle
<1> QED BY <1>1, <1>2, <1>3, <1>4 DEF Next

LEMMA ClockKept ==
    ASSUME Typed, LoadedRight, LedsRight, MainFirst, ClockRight, [Next]_halVars
    PROVE  ClockRight'
<1>0. "main" \in Thread /\ "main" \in Caller
  BY DEF Thread, Caller
<1>1. ASSUME todo'["main"] = todo["main"], loaded'["main"] = loaded["main"],
             reg'[AHB1ENR] = reg[AHB1ENR]
      PROVE  ClockRight'
  BY <1>1 DEF ClockRight, Idle, Access
<1>2. CASE UNCHANGED halVars
  BY <1>1, <1>2 DEF halVars
<1>3. CASE \/ \E l \in Led : Blink(l)
           \/ \E m \in Messages : Transmit(m)
           \/ \E call \in SetupCalls : Setup(call)
  <2>1. PICK p \in Task : Begin(p)
    BY <1>3, BeginSteps DEF Begin
  <2>2. "main" \in Thread \ {p}
    BY ThreadIs, <1>0
  <2> QED BY <1>1, <2>1, <2>2 DEF Begin
<1>4. ASSUME NEW p \in Task, Step(p) PROVE ClockRight'
  <2>1. p \in Thread /\ p # "main"
    BY ThreadIs
  <2>2. reg'[AHB1ENR] = reg[AHB1ENR]
    BY <1>4, <2>1, StepReg, ThreadIs
  <2>3. todo'["main"] = todo["main"] /\ loaded'["main"] = loaded["main"]
    BY <1>0, <1>4, <2>1, StepTodo
  <2> QED BY <1>1, <2>2, <2>3
<1>5. ASSUME Step("main") PROVE ClockRight'
  <2> DEFINE a == Access("main")
  <2>1. ~Idle("main") /\ todo["main"] # <<>>
    BY <1>0, <1>5, StepTodo DEF Idle
  <2>2. a.reg = AHB1ENR => a.op = "set"
    BY <1>0, <2>1, CallersAccessIs
  <2>3. /\ 0 \notin reg[AHB1ENR] => a = FirstAccess
        /\ loaded["main"] # NotLoaded /\ a.reg = AHB1ENR => loaded["main"] = reg[AHB1ENR]
    BY DEF ClockRight
  <2>4. FirstAccess.op = "set" /\ FirstAccess.reg = AHB1ENR /\ FirstAccess.bits = {0}
    BY DEF FirstAccess
  <2>5. CASE Load("main")
    <3>1. todo' = todo /\ reg' = reg /\ loaded'["main"] = reg[a.reg]
      BY <1>0, <2>5, StepTodo DEF Load, others, Typed
    <3> QED BY <2>1, <2>3, <3>1 DEF ClockRight, Idle, Access
  <2>6. CASE Store("main")
    <3> DEFINE v == IF a.op = "set" THEN loaded["main"] \cup a.bits
                    ELSE loaded["main"] \ a.bits
    <3>1. /\ loaded["main"] # NotLoaded /\ loaded'["main"] = NotLoaded
          /\ reg' = IF Clocked(a.reg[1]) THEN [reg EXCEPT ![a.reg] = v] ELSE reg
      BY <1>0, <2>6 DEF Store, Typed
    <3>2. 0 \in reg'[AHB1ENR]
      <4>1. CASE a.reg = AHB1ENR
        <5>1. Clocked(a.reg[1])
          <6>1. a.reg[1] \notin DOMAIN Clock /\ a.reg[1] \notin DOMAIN Usart
            BY <4>1, UsartFacts DEF AHB1ENR, Clock
          <6> QED BY <6>1, ClockOfIs DEF Clocked
        <5>2. 0 \in v
          BY <2>2, <2>3, <2>4, <3>1, <4>1
        <5>3. AHB1ENR \in DOMAIN reg
          BY RegistersApart DEF Typed
        <5> HIDE DEF v
        <5> QED BY <3>1, <4>1, <5>1, <5>2, <5>3
      <4>2. CASE a.reg # AHB1ENR
        <5>1. 0 \in reg[AHB1ENR]
          BY <2>3, <2>4, <4>2
        <5>2. reg'[AHB1ENR] = reg[AHB1ENR]
          <6> HIDE DEF v
          <6>1. AHB1ENR \in DOMAIN reg
            BY RegistersApart DEF Typed
          <6> QED BY <3>1, <4>2, <6>1
        <5> QED BY <5>1, <5>2
      <4> QED BY <4>1, <4>2
    <3> QED BY <3>1, <3>2 DEF ClockRight
  <2>7. CASE Poll("main") /\ UNCHANGED halVars
    BY <1>2, <2>7
  <2>8. CASE a.op \notin {"set", "clear"} /\ loaded'["main"] = NotLoaded
    <3>1. reg'[AHB1ENR] = reg[AHB1ENR]
      BY <1>0, <1>5, <2>8, StepReg
    <3>2. 0 \in reg'[AHB1ENR]
      BY <2>3, <2>4, <2>8, <3>1
    <3> QED BY <2>8, <3>2 DEF ClockRight
  <2>9. Poll("main") \/ Assign("main") \/ WriteDR("main") => a.op \notin {"set", "clear"}
    BY DEF Poll, Assign, WriteDR
  <2> QED BY <1>0, <1>5, <2>5, <2>6, <2>7, <2>8, <2>9, StepTodo
<1>6. CASE TransferByte \/ FrameSent
  BY <1>1, <1>6, UsartSteps
<1> QED BY <1>2, <1>3, <1>4, <1>5, <1>6, ThreadIs DEF Next

\* A write to BSRR drives its pin and no other.
LEMMA LedWritten ==
    ASSUME NEW l \in Led, NEW k \in Led, NEW high \in BOOLEAN
    PROVE  /\ LedPin[k] \in {b - 16 : b \in LedWrite(l, high).bits} <=> k = l /\ ~high
           /\ LedPin[k] \in LedWrite(l, high).bits \cap 0..15 <=> k = l /\ high
<1> DEFINE p == LedPin[l]
           q == LedPin[k]
<1>1. p \in {8, 9} /\ q \in {8, 9} /\ (p = q <=> k = l)
  BY DEF LedPin, Led
<1>2. LedWrite(l, high).bits = {IF high THEN p ELSE p + 16}
  BY DEF LedWrite
<1> HIDE DEF p, q
<1>3. q \in {b - 16 : b \in LedWrite(l, high).bits} <=> k = l /\ ~high
  BY <1>1, <1>2
<1>4. q \in LedWrite(l, high).bits \cap 0..15 <=> k = l /\ high
  <2>1. q \in 0..15 /\ p + 16 # q
    BY <1>1
  <2> QED BY <1>1, <1>2, <2>1
<1> QED BY <1>3, <1>4 DEF q

LEMMA LedsKept ==
    ASSUME Typed, LoadedRight, LedsRight, MainFirst, ClockRight, [Next]_halVars
    PROVE  LedsRight'
<1>0. /\ \A l \in Led : l \in Thread /\ l \in Task /\ l # "main" /\ LedRight(l)
      /\ level \in [Led -> BOOLEAN]
  BY ThreadIs DEF LedsRight, Task
<1>1. ASSUME NEW l \in Led, todo'[l] = todo[l], level'[l] = level[l],
             LedPin[l] \in reg'[ODR] <=> LedPin[l] \in reg[ODR]
      PROVE  LedRight(l)'
  BY <1>0, <1>1 DEF LedRight
<1>2. ASSUME \A l \in Led : todo'[l] = todo[l], level' = level, reg'[ODR] = reg[ODR]
      PROVE  LedsRight'
  BY <1>0, <1>1, <1>2 DEF LedsRight
<1>3. CASE UNCHANGED halVars
  BY <1>2, <1>3 DEF halVars
<1>4. ASSUME NEW l \in Led, Blink(l) PROVE LedsRight'
  <2>1. Begin(l) /\ todo[l] = <<>>
    BY <1>4, BeginSteps DEF Begin, Idle
  <2>2. reg' = reg /\ \A k \in Led : k # l => todo'[k] = todo[k]
    BY <1>0, <2>1 DEF Begin
  <2>3. l \in DOMAIN todo /\ level[l] \in BOOLEAN
    BY <1>0 DEF Typed
  <2>4. level[l] <=> LedPin[l] \in reg[ODR]
    BY <1>0, <2>1, LedCalls DEF LedRight
  <2>5. ASSUME NEW high \in BOOLEAN, Start(l, GPIO_Write("GPIOA", LedPin[l], high)),
               level' = [level EXCEPT ![l] = high]
        PROVE  LedsRight'
    <3>1. todo'[l] = GPIO_Write("GPIOA", LedPin[l], high)
      BY <2>3, <2>5 DEF Start
    <3>2. /\ level'[l] = high /\ level' \in [Led -> BOOLEAN]
          /\ \A k \in Led : k # l => level'[k] = level[k]
      BY <1>0, <2>5
    <3>3. LedRight(l)'
      BY <3>1, <3>2 DEF LedRight
    <3> QED BY <1>1, <2>2, <3>2, <3>3 DEF LedsRight
  <2>6. ASSUME Start(l, GPIO_Toggle("GPIOA", LedPin[l])), level' = [level EXCEPT ![l] = ~@]
        PROVE  LedsRight'
    <3>1. todo'[l] = GPIO_Toggle("GPIOA", LedPin[l])
      BY <2>3, <2>6 DEF Start
    <3>2. level'[l] = ~level[l] /\ level' \in [Led -> BOOLEAN]
          /\ \A k \in Led : k # l => level'[k] = level[k]
      BY <1>0, <2>6
    <3>3. LedRight(l)'
      BY <2>2, <2>3, <2>4, <3>1, <3>2 DEF LedRight
    <3> QED BY <1>1, <2>2, <3>2, <3>3 DEF LedsRight
  <2> QED BY <1>4, <2>5, <2>6 DEF Blink
<1>5. ASSUME NEW p \in {"uart", "setup"}, Begin(p), level' = level PROVE LedsRight'
  <2>1. \A l \in Led : l \in Thread \ {p}
    BY <1>0 DEF Led
  <2> QED BY <1>2, <1>5, <2>1 DEF Begin
<1>6. CASE \/ \E m \in Messages : Transmit(m)
           \/ \E call \in SetupCalls : Setup(call)
  BY <1>5, <1>6, BeginSteps
<1>7. ASSUME NEW t \in Caller, Step(t) PROVE LedsRight'
  <2>1. t \in Thread /\ \A l \in Led : l \in Thread /\ l # t
    BY <1>0, ThreadIs DEF Led, Caller
  <2> QED BY <1>2, <1>7, <2>1, StepTodo, StepReg
<1>8. ASSUME NEW l \in Led, Step(l) PROVE LedsRight'
  <2>1. /\ ~Idle(l) /\ level' = level /\ \A k \in Led : k # l => todo'[k] = todo[k]
    BY <1>0, <1>8, StepTodo
  <2>2. Tail(todo[l]) = <<>>
    BY <2>1, LedsAccess
  <2>3. level[l] \in BOOLEAN
    BY <1>0
  <2>4. CASE Access(l) = LedWrite(l, level[l])
    <3>1. /\ Access(l).op = "write" /\ Access(l).reg = <<"GPIOA", "BSRR">>
          /\ Access(l).reg[2] # "DR"
      BY <2>4 DEF LedWrite
    <3>2. Assign(l)
      BY <1>0, <1>8, <3>1 DEF Step, Load, Store, WriteDR, Poll, Branch, LoadedRight
    <3>3. Clocked("GPIOA")
      <4>1. Idle("main")
        BY <1>0, <2>1 DEF MainFirst
      <4>2. 0 \in reg[AHB1ENR]
        BY <4>1 DEF ClockRight
      <4>3. "GPIOA" \in DOMAIN Clock /\ Clock["GPIOA"] = 0 /\ "GPIOA" \notin DOMAIN Usart
        BY UsartFacts DEF Clock
      <4> QED BY <4>2, <4>3, ClockOfIs DEF Clocked
    <3>4. /\ reg' = [reg EXCEPT ![ODR] = (reg[ODR] \ {b - 16 : b \in Access(l).bits})
                                           \cup (Access(l).bits \cap 0..15)]
          /\ todo'[l] = <<>>
      <4>1. reg' = Assigned(Access(l))
        BY <3>1, <3>2, <3>3 DEF Assign
      <4>2. todo'[l] = Tail(todo[l])
        BY <1>0, <3>2 DEF Assign, Done, Typed
      <4> QED BY <2>2, <3>1, <4>1, <4>2, LedAssigned
    <3>5. reg'[ODR] = (reg[ODR] \ {b - 16 : b \in LedWrite(l, level[l]).bits})
                        \cup (LedWrite(l, level[l]).bits \cap 0..15)
      <4>1. ODR \in DOMAIN reg
        BY RegistersApart DEF Typed
      <4> QED BY <2>4, <3>4, <4>1
    <3>6. \A k \in Led : LedPin[k] \in reg'[ODR] <=>
                           IF k = l THEN level[l] ELSE LedPin[k] \in reg[ODR]
      <4> TAKE k \in Led
      <4> QED BY <2>3, <3>5, LedWritten
    <3>7. LedRight(l)'
      BY <2>1, <3>4, <3>6 DEF LedRight
    <3> QED BY <1>0, <1>1, <2>1, <3>6, <3>7 DEF LedsRight
  <2>5. CASE Access(l) = LedChoice(l) /\ (level[l] <=> LedPin[l] \notin reg[ODR])
    <3>1. /\ Access(l).op = "if" /\ Access(l).reg = ODR /\ Access(l).bits = {LedPin[l]}
          /\ Access(l).yes = <<LedWrite(l, FALSE)>> /\ Access(l).no = <<LedWrite(l, TRUE)>>
      <4>1. /\ LedChoice(l).op = "if" /\ LedChoice(l).reg = ODR
            /\ LedChoice(l).bits = {LedPin[l]}
            /\ LedChoice(l).yes = <<LedWrite(l, FALSE)>>
            /\ LedChoice(l).no = <<LedWrite(l, TRUE)>>
        BY DEF LedChoice
      <4> QED BY <2>5, <4>1
    <3>2. Branch(l)
      BY <1>0, <1>8, <3>1 DEF Step, Load, Store, Assign, WriteDR, Poll, LoadedRight
    <3>3. todo'[l] = (IF Access(l).bits \subseteq reg[Access(l).reg]
                      THEN Access(l).yes ELSE Access(l).no) \o Tail(todo[l])
      BY <1>0, <3>2 DEF Branch, Typed
    <3>4. \A a : <<a>> \o <<>> = <<a>>
      OBVIOUS
    <3>5. todo'[l] = <<LedWrite(l, level[l])>>
      <4>1. CASE LedPin[l] \in reg[ODR]
        <5>1. level[l] = FALSE /\ {LedPin[l]} \subseteq reg[ODR]
          BY <2>3, <2>5, <4>1
        <5> QED BY <2>2, <3>1, <3>3, <3>4, <5>1
      <4>2. CASE LedPin[l] \notin reg[ODR]
        <5>1. level[l] = TRUE /\ ~({LedPin[l]} \subseteq reg[ODR])
          BY <2>3, <2>5, <4>2
        <5> QED BY <2>2, <3>1, <3>3, <3>4, <5>1
      <4> QED BY <4>1, <4>2
    <3>6. LedRight(l)'
      BY <2>1, <3>5, LedCalls DEF LedRight
    <3>7. reg' = reg
      BY <3>2 DEF Branch
    <3> QED BY <1>0, <1>1, <2>1, <3>6, <3>7 DEF LedsRight
  <2> QED BY <2>1, <2>4, <2>5, LedsAccess
<1>9. CASE TransferByte \/ FrameSent
  BY <1>2, <1>9, UsartSteps
<1> QED BY <1>3, <1>4, <1>6, <1>7, <1>8, <1>9, ThreadIs DEF Next

-----------------------------------------------------------------------------
(* The bytes on their way.                                                 *)

LEMMA SeqOfOne == SetToSeq({}) = <<>> /\ \A x : SetToSeq({x}) = <<x>>
<1>1. SetToSeq({}) = <<>>
  <2>1. Cardinality({}) = 0 /\ 1..0 = {}
    BY FS_EmptySet
  <2>2. ASSUME NEW f \in [1..0 -> {}] PROVE f = <<>>
    <3>1. f \in Seq({}) /\ Len(f) = 0
      BY IsASeq
    <3> QED BY <3>1, EmptySeq
  <2>3. <<>> \in [1..0 -> {}] /\ IsInjective(<<>>)
    BY <2>1 DEF IsInjective
  <2> QED BY <2>1, <2>2, <2>3 DEF SetToSeq
<1>2. ASSUME NEW x PROVE SetToSeq({x}) = <<x>>
  <2>1. Cardinality({x}) = 1 /\ 1..1 = {1}
    BY FS_Singleton
  <2>2. <<x>> \in [1..1 -> {x}] /\ \A f \in [1..1 -> {x}] : f = <<x>>
    BY <2>1
  <2>3. IsInjective(<<x>>)
    BY DEF IsInjective
  <2> QED BY <2>1, <2>2, <2>3 DEF SetToSeq
<1> QED BY <1>1, <1>2

LEMMA OneByteSeq ==
    ASSUME NEW b \in OneByte
    PROVE  SetToSeq(b) \in Seq(Byte) /\ (b = Empty => SetToSeq(b) = <<>>)
<1>1. CASE b = {}
  <2>1. SetToSeq(b) = <<>>
    BY <1>1, SeqOfOne
  <2> QED BY <2>1
<1>2. ASSUME NEW x \in Byte, b = {x} PROVE SetToSeq(b) \in Seq(Byte) /\ b # Empty
  <2>1. SetToSeq(b) = <<x>>
    BY <1>2, SeqOfOne
  <2>2. <<x>> \in Seq(Byte) /\ {x} # {}
    OBVIOUS
  <2> QED BY <1>2, <2>1, <2>2 DEF Empty
<1> QED BY <1>1, <1>2 DEF OneByte, Empty

\* Each byte still comes after a wait when the first access is taken off, or
\* replaced by accesses c that write no byte.
LEMMA PacedRest ==
    ASSUME NEW S, NEW s \in Seq(S), s # <<>>, Paced(s)
    PROVE  /\ Paced(Tail(s))
           /\ Tail(s) # <<>> /\ IsByte(Head(Tail(s))) => Head(s).op = "await"
<1> DEFINE r == Tail(s)
<1>1. Len(r) = Len(s) - 1 /\ Len(s) \in Nat \ {0} /\ \A i \in 1..Len(r) : r[i] = s[i + 1]
  OBVIOUS
<1>2. Head(s) = s[1] /\ (r # <<>> => Len(r) >= 1 /\ Head(r) = r[1])
  OBVIOUS
<1> HIDE DEF r
<1>3. Paced(r)
  <2> SUFFICES ASSUME NEW i \in 2..Len(r), IsByte(r[i]) PROVE r[i - 1].op = "await"
    BY DEF Paced
  <2>1. i + 1 \in 2..Len(s) /\ r[i] = s[i + 1] /\ r[i - 1] = s[(i + 1) - 1]
    BY <1>1
  <2> QED BY <2>1 DEF Paced
<1>4. r # <<>> /\ IsByte(Head(r)) => Head(s).op = "await"
  <2> SUFFICES ASSUME r # <<>>, IsByte(Head(r)) PROVE s[1].op = "await"
    BY <1>2
  <2>1. 2 \in 2..Len(s) /\ Head(r) = s[2] /\ s[1] = s[2 - 1]
    BY <1>1, <1>2
  <2> QED BY <2>1 DEF Paced
<1> QED BY <1>3, <1>4 DEF r

LEMMA PacedChoice ==
    ASSUME NEW S, NEW s \in Seq(S), NEW c \in Seq(S),
           \A i \in 1..Len(c) : ~IsByte(c[i]), Paced(s), s # <<>> => ~IsByte(Head(s))
    PROVE  Paced(c \o s) /\ (c \o s # <<>> => ~IsByte(Head(c \o s)))
<1> DEFINE r == c \o s
<1>1. /\ Len(r) = Len(c) + Len(s) /\ Len(c) \in Nat /\ Len(s) \in Nat
      /\ \A i \in 1..Len(r) : r[i] = IF i <= Len(c) THEN c[i] ELSE s[i - Len(c)]
  BY ConcatProperties
<1>2. (s # <<>> => Head(s) = s[1]) /\ (Len(s) > 0 => s # <<>>)
  OBVIOUS
<1>3. r # <<>> => Head(r) = r[1] /\ Len(r) >= 1
  OBVIOUS
<1> HIDE DEF r
<1>4. ASSUME NEW i \in 1..Len(r), IsByte(r[i])
      PROVE  i >= Len(c) + 2 /\ i - Len(c) \in 2..Len(s) /\ r[i] = s[i - Len(c)]
  <2>1. i > Len(c)
    BY <1>1, <1>4
  <2>2. i # Len(c) + 1
    <3> SUFFICES ASSUME i = Len(c) + 1 PROVE FALSE
      OBVIOUS
    <3>1. r[i] = s[1] /\ Len(s) > 0
      BY <1>1, <2>1
    <3> QED BY <1>2, <1>4, <3>1
  <2>3. i \in Nat /\ i >= Len(c) + 2
    BY <1>1, <2>1, <2>2
  <2>4. i <= Len(c) + Len(s)
    BY <1>1
  <2>5. i - Len(c) \in 2..Len(s)
    BY <1>1, <2>3, <2>4
  <2>6. r[i] = s[i - Len(c)]
    BY <1>1, <2>1
  <2> QED BY <2>3, <2>5, <2>6
<1>5. Paced(r)
  <2> SUFFICES ASSUME NEW i \in 2..Len(r), IsByte(r[i]) PROVE r[i - 1].op = "await"
    BY DEF Paced
  <2>1. i >= Len(c) + 2 /\ i - Len(c) \in 2..Len(s) /\ r[i] = s[i - Len(c)]
    BY <1>1, <1>4
  <2>2. r[i - 1] = s[(i - Len(c)) - 1]
    BY <1>1, <2>1
  <2> QED BY <2>1, <2>2 DEF Paced
<1>6. r # <<>> => ~IsByte(Head(r))
  BY <1>1, <1>3, <1>4
<1> QED BY <1>5, <1>6 DEF r

LEMMA SettingsNoByte == \A a \in Setting : ~IsByte(a)
<1>1. \A r \in PinRegs : r[2] # "DR"
  BY DEF PinRegs
<1>2. \A r \in LineRegs : r[2] # "DR"
  <2>1. \A r \in LineRegs : r[2] \in {"IMR", "RTSR", "FTSR", "ISER0", "ISER1", "ISER2"}
    BY DEF LineRegs, ISER
  <2> QED BY <2>1
<1> QED BY <1>1, <1>2 DEF Setting, IsByte

\* The bytes left to a caller.
LEMMA BytesLeft ==
    ASSUME Typed, NEW t \in Caller
    PROVE  /\ BytesOf(todo[t]) \in Seq(Byte)
           /\ \A a \in Configuring \cup Sending : IsByte(a) => a.bits \in Byte
           /\ Idle(t) => BytesOf(todo[t]) = <<>>
           /\ ~Idle(t) =>
                /\ BytesOf(todo[t]) = IF IsByte(Access(t))
                                      THEN <<Access(t).bits>> \o BytesOf(Tail(todo[t]))
                                      ELSE BytesOf(Tail(todo[t]))
                /\ BytesOf(Tail(todo[t])) \in Seq(Byte)
<1> DEFINE S == Configuring \cup Sending
<1>1. todo[t] \in Seq(S)
  BY CallersAccess
<1>2. \A a \in S : IsByte(a) => a.bits \in Byte
  BY UsartIs, AccessFacts DEF Sending, IsByte
<1>3. Idle(t) => BytesOf(todo[t]) = <<>>
  <2> DEFINE none == {}
             s == <<>>
  <2>1. s \in Seq(none) /\ \A a \in none : ~IsByte(a)
    OBVIOUS
  <2>2. BytesOf(s) = <<>>
    <3> HIDE DEF none, s
    <3> QED BY <2>1, NoBytes
  <2> QED BY <2>2 DEF Idle
<1> HIDE DEF S
<1>4. ASSUME ~Idle(t)
      PROVE  /\ BytesOf(todo[t]) = IF IsByte(Access(t))
                                   THEN <<Access(t).bits>> \o BytesOf(Tail(todo[t]))
                                   ELSE BytesOf(Tail(todo[t]))
             /\ BytesOf(Tail(todo[t])) \in Seq(Byte)
  BY <1>1, <1>2, <1>4, BytesOfRest DEF Idle, Access
<1>5. BytesOf(todo[t]) \in Seq(Byte)
  BY <1>1, <1>2, BytesConcat
<1> QED BY <1>2, <1>3, <1>4, <1>5 DEF S

LEMMA StepOps ==
    ASSUME LoadedRight, NEW t \in Thread
    PROVE  /\ Load(t) \/ Store(t) => Access(t).op \in {"set", "clear"}
           /\ Assign(t) => Access(t).op = "write" /\ ~IsByte(Access(t))
           /\ WriteDR(t) => Access(t).op = "write" /\ IsByte(Access(t))
           /\ Poll(t) => Access(t).op = "await"
           /\ Branch(t) => Access(t).op = "if"
<1>1. Load(t) => Access(t).op \in {"set", "clear"}
  BY DEF Load
<1>2. Store(t) => Access(t).op \in {"set", "clear"}
  BY DEF Store, LoadedRight
<1>3. Assign(t) => Access(t).op = "write" /\ ~IsByte(Access(t))
  BY DEF Assign, IsByte
<1>4. WriteDR(t) => Access(t).op = "write" /\ IsByte(Access(t))
  BY DEF WriteDR, IsByte
<1>5. (Poll(t) => Access(t).op = "await") /\ (Branch(t) => Access(t).op = "if")
  BY DEF Poll, Branch
<1> QED BY <1>1, <1>2, <1>3, <1>4, <1>5

\* A step of a caller takes off the byte it writes, and no other, and only a
\* wait comes before a byte.
LEMMA CallerStep ==
    ASSUME Typed, LoadedRight, NEW t \in Caller, Step(t), Paced(todo[t])
    PROVE  /\ Paced(todo'[t])
           /\ IsByte(Access(t)) <=> WriteDR(t)
           /\ BytesOf(todo[t]) = (IF IsByte(Access(t)) THEN <<Access(t).bits>> ELSE <<>>)
                                   \o BytesOf(todo'[t])
           /\ BytesOf(todo'[t]) \in Seq(Byte)
           /\ todo'[t] # <<>> /\ IsByte(Head(todo'[t])) =>
                \/ todo'[t] = todo[t]
                \/ Access(t).op = "await" /\ Access(t).bits \subseteq reg[Access(t).reg]
<1> DEFINE S == Configuring \cup Sending
           a == Access(t)
           s == todo[t]
<1>1. t \in Thread /\ ~Idle(t) /\ s # <<>>
  BY StepTodo, ThreadIs DEF Idle
<1>2. s \in Seq(S) /\ a = Head(s) /\ Tail(s) \in Seq(S)
  BY <1>1, CallersAccess DEF Access
<1>3. /\ IsByte(a) => a.op = "write"
      /\ a.op = "if" => a.yes \in Seq(Setting) /\ a.no \in Seq(Setting)
  BY <1>1, CallersAccessIs DEF IsByte
<1>4. /\ BytesOf(s) = IF IsByte(a) THEN <<a.bits>> \o BytesOf(Tail(s)) ELSE BytesOf(Tail(s))
      /\ BytesOf(Tail(s)) \in Seq(Byte) /\ BytesOf(s) \in Seq(Byte)
      /\ \A b \in S : IsByte(b) => b.bits \in Byte
  BY <1>1, BytesLeft
<1>5. IsByte(a) <=> WriteDR(t)
  BY <1>1, <1>3, StepOps DEF Step
<1>6. \A q \in Seq(Byte) : <<>> \o q = q
  BY ConcatEmptySeq
<1> HIDE DEF S
<1> DEFINE Goal == /\ Paced(todo'[t])
                   /\ BytesOf(s) = (IF IsByte(a) THEN <<a.bits>> ELSE <<>>) \o BytesOf(todo'[t])
                   /\ BytesOf(todo'[t]) \in Seq(Byte)
                   /\ todo'[t] # <<>> /\ IsByte(Head(todo'[t])) =>
                        \/ todo'[t] = s
                        \/ a.op = "await" /\ a.bits \subseteq reg[a.reg]
<1>7. CASE todo'[t] = s /\ a.op \in {"set", "clear", "await"}
  <2>1. ~IsByte(a)
    BY <1>3, <1>7
  <2>2. BytesOf(s) = <<>> \o BytesOf(s)
    BY <1>4, <1>6
  <2>3. Goal
    BY <1>4, <1>7, <2>1, <2>2
  <2> QED BY <1>5, <2>3
<1>8. CASE todo'[t] = Tail(s) /\ (Store(t) \/ Assign(t) \/ WriteDR(t) \/ Poll(t))
  <2>1. Paced(Tail(s)) /\ (Tail(s) # <<>> /\ IsByte(Head(Tail(s))) => a.op = "await")
    BY <1>1, <1>2, PacedRest
  <2>2. BytesOf(s) = (IF IsByte(a) THEN <<a.bits>> ELSE <<>>) \o BytesOf(Tail(s))
    BY <1>4, <1>6
  <2>3. a.op = "await" => a.bits \subseteq reg[a.reg]
    <3> SUFFICES ASSUME a.op = "await" PROVE a.bits \subseteq reg[a.reg]
      OBVIOUS
    <3>1. Poll(t)
      BY <1>1, <1>8, StepOps
    <3>2. s # Tail(s)
      <4>1. Len(Tail(s)) = Len(s) - 1 /\ Len(s) \in Nat
        BY <1>1, <1>2
      <4>2. \A n \in Nat : n - 1 # n
        OBVIOUS
      <4> QED BY <4>1, <4>2
    <3>3. todo' # todo
      BY <1>8, <3>2
    <3> QED BY <3>1, <3>3 DEF Poll
  <2>4. Goal
    BY <1>4, <1>8, <2>1, <2>2, <2>3
  <2> QED BY <1>5, <2>4
<1>9. CASE a.op = "if" /\ \E c \in {a.yes, a.no} : todo'[t] = c \o Tail(s)
  <2>1. PICK c \in {a.yes, a.no} : todo'[t] = c \o Tail(s)
    BY <1>9
  <2>2. c \in Seq(Setting) /\ \A i \in 1..Len(c) : ~IsByte(c[i])
    <3>1. c \in Seq(Setting)
      BY <1>3, <1>9
    <3>2. \A i \in 1..Len(c) : c[i] \in Setting
      BY <3>1
    <3> QED BY <3>1, <3>2, SettingsNoByte
  <2>3. c \in Seq(S)
    <3>1. Setting \subseteq S
      BY DEF S, Configuring
    <3> QED BY <2>2, <3>1, SeqMonotonic
  <2>4. /\ Paced(Tail(s)) /\ (Tail(s) # <<>> => ~IsByte(Head(Tail(s)))) /\ ~IsByte(a)
    <3>1. a.op # "await" /\ a.op # "write"
      BY <1>9
    <3> QED BY <1>1, <1>2, <1>3, <3>1, PacedRest
  <2>5. Paced(c \o Tail(s)) /\ (c \o Tail(s) # <<>> => ~IsByte(Head(c \o Tail(s))))
    BY <1>2, <2>2, <2>3, <2>4, PacedChoice
  <2>6. BytesOf(c) = <<>>
    BY <2>2, SettingsNoByte, NoBytes
  <2>7. BytesOf(c \o Tail(s)) = <<>> \o BytesOf(Tail(s))
    BY <1>2, <1>4, <2>3, <2>6, BytesConcat
  <2>8. BytesOf(c \o Tail(s)) = BytesOf(Tail(s)) /\ BytesOf(s) = <<>> \o BytesOf(Tail(s))
    BY <1>4, <1>6, <2>4, <2>7
  <2>9. Goal
    BY <1>4, <2>1, <2>4, <2>5, <2>8
  <2> QED BY <1>5, <2>9
<1>10. \/ todo'[t] = s /\ a.op \in {"set", "clear", "await"}
       \/ todo'[t] = Tail(s) /\ (Store(t) \/ Assign(t) \/ WriteDR(t) \/ Poll(t))
       \/ a.op = "if" /\ \E c \in {a.yes, a.no} : todo'[t] = c \o Tail(s)
  <2>1. Poll(t) => a.op = "await"
    BY <1>1, StepOps
  <2> QED BY <1>1, <2>1, StepTodo DEF halVars
<1> QED BY <1>7, <1>8, <1>9, <1>10

\* A byte moves from an access of main or of the task to DR.
LEMMA MovedToDR ==
    ASSUME NEW p \in Seq(Byte), NEW q \in Seq(Byte), NEW b \in Byte
    PROVE  /\ p \o <<>> \o (<<b>> \o q) \o <<>> = p \o <<b>> \o q \o <<>>
           /\ p \o <<>> \o <<>> \o (<<b>> \o q) = p \o <<b>> \o <<>> \o q
<1> DEFINE one == <<b>>
           no == <<>>
<1>1. one \in Seq(Byte) /\ no \in Seq(Byte)
  OBVIOUS
<1> HIDE DEF one, no
<1>2. p \o no = p
  BY ConcatEmptySeq DEF no
<1>3. p \o one \in Seq(Byte)
  BY <1>1, ConcatProperties
<1>4. (p \o one) \o no = p \o one
  BY <1>3, ConcatEmptySeq DEF no
<1>5. (p \o one) \o q = p \o (one \o q)
  BY <1>1, ConcatAssociative
<1>6. p \o no \o (one \o q) \o no = p \o one \o q \o no
  BY <1>2, <1>5
<1>7. p \o no \o no \o (one \o q) = p \o one \o no \o q
  BY <1>2, <1>4, <1>5
<1> QED BY <1>6, <1>7 DEF one, no

\* A byte leaves the shift register.
LEMMA MovedAway ==
    ASSUME NEW p \in Seq(Byte), NEW q \in Seq(Byte), NEW r \in Seq(Byte), NEW b \in Byte
    PROVE  Tail(<<b>> \o p \o q \o r) = <<>> \o p \o q \o r
<1> DEFINE one == <<b>>
           pq == p \o q
           rest == pq \o r
<1>1. one \in Seq(Byte) /\ <<>> \o p = p
  BY ConcatEmptySeq
<1>2. pq \in Seq(Byte) /\ (one \o p) \o q = one \o pq
  BY <1>1, ConcatProperties, ConcatAssociative
<1>3. rest \in Seq(Byte)
  <2> HIDE DEF pq
  <2> QED BY <1>2, ConcatProperties
<1>4. (one \o pq) \o r = one \o rest
  <2> HIDE DEF one, pq
  <2> QED BY <1>1, <1>2, ConcatAssociative
<1>5. Tail(one \o rest) = rest
  <2> HIDE DEF rest
  <2> QED BY <1>3
<1> QED BY <1>1, <1>2, <1>4, <1>5

\* The steps that change neither the line nor the calls that use it.
LEMMA SerialFrame ==
    ASSUME SerialRight, \A t \in Serial : todo'[t] = todo[t],
           data' = data, shifter' = shifter, due' = due, usart' = usart, reg'[SR] = reg[SR]
    PROVE  SerialRight'
<1>1. SR' = SR
  BY DEF SR
<1>2. \A t \in Serial : Paced(todo'[t]) /\ (~Idle(t)' /\ IsByte(Access(t)') => data' = Empty)
  BY DEF SerialRight, Idle, Access
<1>3. todo'["main"] = todo["main"] /\ todo'["uart"] = todo["uart"]
  BY DEF Serial
<1>4. BytesInOrder'
  BY <1>3 DEF SerialRight, BytesInOrder
<1> QED BY <1>1, <1>2, <1>4 DEF SerialRight

\* A transmission waits before each of its bytes.
LEMMA TransmitPaced ==
    ASSUME NEW u, NEW m \in Seq(Byte)
    PROVE  LET s == USART_Transmit(u, m)
           IN  s # <<>> /\ Paced(s) /\ ~IsByte(Head(s))
<1> DEFINE s == USART_Transmit(u, m)
<1>1. /\ s \in Seq(SendByte(u, Byte) \cup SendWait(u))
      /\ Len(s) = 2 * Len(m) + 1
      /\ \A k \in 1..Len(s) : s[k] = Sent(u, m, k)
  BY TransmitIs
<1>2. \A k \in 1..Len(s) : IF k % 2 = 0 THEN s[k].op = "write"
                           ELSE s[k].op = "await" /\ ~IsByte(s[k])
  <2> TAKE k \in 1..Len(s)
  <2>1. s[k] = Sent(u, m, k)
    BY <1>1
  <2> QED BY <2>1 DEF Sent, IsByte
<1>3. s # <<>> /\ Head(s) = s[1] /\ Len(s) \in Nat \ {0}
  BY <1>1
<1> HIDE DEF s
<1>4. ~IsByte(s[1])
  BY <1>2, <1>3
<1>5. ASSUME NEW i \in 2..Len(s), IsByte(s[i]) PROVE s[i - 1].op = "await"
  <2>1. i \in 1..Len(s) /\ i - 1 \in 1..Len(s)
    BY <1>3
  <2>2. i % 2 = 0
    BY <1>2, <1>5, <2>1
  <2>3. (i - 1) % 2 # 0
    BY <1>3, <2>1, <2>2
  <2> QED BY <1>2, <2>1, <2>3
<1> QED BY <1>3, <1>4, <1>5 DEF Paced, s

LEMMA TransmitBegins ==
    ASSUME Typed, SerialRight, NEW m \in Messages, Transmit(m)
    PROVE  SerialRight'
<1> DEFINE s == USART_Transmit(usart.usartx, m)
<1>1. /\ Begin("uart") /\ todo'["uart"] = s /\ due' = due \o m
      /\ todo'["main"] = todo["main"] /\ Idle("main") /\ Idle("uart")
      /\ reg' = reg /\ data' = data /\ shifter' = shifter /\ SR' = SR
  BY BeginSteps DEF Begin, Thread, Transmit, SR
<1>2. m \in Seq(Byte)
  BY MessageFacts
<1>3. s # <<>> /\ Paced(s) /\ ~IsByte(Head(s))
  BY <1>2, TransmitPaced
<1>4. BytesOf(s) = m
  BY <1>2, BytesOfTransmit
<1> HIDE DEF s
<1>5. /\ BytesOf(todo["main"]) = <<>> /\ BytesOf(todo["uart"]) = <<>>
  BY <1>1, BytesLeft DEF Caller
<1>6. BytesInOrder' /\ due' \in Seq(Byte)
  <2> DEFINE line == SetToSeq(shifter) \o SetToSeq(data)
  <2>1. line \in Seq(Byte)
    <3>1. SetToSeq(shifter) \in Seq(Byte) /\ SetToSeq(data) \in Seq(Byte)
      BY OneByteSeq DEF SerialRight
    <3> QED BY <3>1, ConcatProperties
  <2>2. due = line \o <<>> \o <<>>
    BY <1>5 DEF SerialRight, BytesInOrder
  <2>3. BytesInOrder' <=> line \o <<>> \o m = due \o m
    BY <1>1, <1>4, <1>5 DEF BytesInOrder
  <2> HIDE DEF line
  <2>4. line \o <<>> = line
    BY <2>1, ConcatEmptySeq
  <2>5. due \o m \in Seq(Byte)
    BY <1>2, ConcatProperties DEF SerialRight
  <2> QED BY <1>1, <2>2, <2>3, <2>4, <2>5
<1>7. \A t \in Serial : Paced(todo'[t]) /\ (~Idle(t)' /\ IsByte(Access(t)') => data' = Empty)
  BY <1>1, <1>3 DEF SerialRight, Serial, Idle, Access
<1> QED BY <1>1, <1>6, <1>7 DEF SerialRight

LEMMA SerialStep ==
    ASSUME Typed, LoadedRight, LedsRight, MainFirst, SerialRight, NEW t \in Serial, Step(t)
    PROVE  SerialRight'
<1> DEFINE a == Access(t)
<1>1. /\ t \in Caller /\ t \in Thread /\ ~Idle(t) /\ Paced(todo[t])
      /\ "main" \in Caller /\ "uart" \in Caller
      /\ IsByte(a) => data = Empty
  BY StepTodo DEF Serial, Caller, Thread, Task, SerialRight
<1>2. /\ Paced(todo'[t])
      /\ IsByte(a) <=> WriteDR(t)
      /\ BytesOf(todo[t]) = (IF IsByte(a) THEN <<a.bits>> ELSE <<>>) \o BytesOf(todo'[t])
      /\ BytesOf(todo'[t]) \in Seq(Byte)
      /\ todo'[t] # <<>> /\ IsByte(Head(todo'[t])) =>
           \/ todo'[t] = todo[t]
           \/ a.op = "await" /\ a.bits \subseteq reg[a.reg]
  BY <1>1, CallerStep
<1>3. /\ usart' = usart /\ SR' = SR /\ due' = due
      /\ \A p \in Serial : p # t => todo'[p] = todo[p]
  BY <1>1, StepTodo DEF SR, Serial, Thread, Task
<1>4. reg'[SR] = IF IsByte(a) THEN reg[SR] \ {TXE, TC} ELSE reg[SR]
  BY <1>1, StepReg
\* Only one of the two has a call left.
<1>5. /\ t = "main" => Idle("uart") /\ BytesOf(todo["uart"]) = <<>>
                       /\ todo'["uart"] = todo["uart"]
      /\ t = "uart" => Idle("main") /\ BytesOf(todo["main"]) = <<>>
                       /\ todo'["main"] = todo["main"]
  BY <1>1, <1>3, BytesLeft DEF MainFirst, Task, Serial
<1>6. /\ SetToSeq(shifter) \in Seq(Byte) /\ SetToSeq(data) \in Seq(Byte)
      /\ data = Empty => SetToSeq(data) = <<>>
      /\ SetToSeq(shifter) \o SetToSeq(data) \o BytesOf(todo["main"])
           \o BytesOf(todo["uart"]) = due
  BY OneByteSeq DEF SerialRight, BytesInOrder
<1>7. todo'[t] # <<>> /\ IsByte(Head(todo'[t])) => todo'[t] = todo[t] \/ data = Empty
  <2> SUFFICES ASSUME a.op = "await", a.bits \subseteq reg[a.reg] PROVE data = Empty
    BY <1>2
  <2>1. a \in SendWait(usart.usartx)
    BY <1>1, CallersAccessIs
  <2>2. a.reg = SR /\ (TXE \in a.bits \/ TC \in a.bits)
    BY <2>1 DEF SendWait, SR
  <2> QED BY <2>2 DEF SerialRight
<1>8. CASE ~IsByte(a)
  <2>1. data' = data /\ shifter' = shifter
    <3>1. ~WriteDR(t)
      BY <1>2, <1>8
    <3> QED BY <3>1 DEF Step, Load, Store, Assign, Poll, Branch
  <2>2. BytesOf(todo'[t]) = BytesOf(todo[t])
    BY <1>2, <1>8, ConcatEmptySeq
  <2>3. BytesOf(todo'["main"]) = BytesOf(todo["main"])
        /\ BytesOf(todo'["uart"]) = BytesOf(todo["uart"])
    BY <1>5, <2>2 DEF Serial
  <2>4. BytesInOrder'
    BY <1>3, <1>6, <2>1, <2>3 DEF BytesInOrder
  <2>5. \A p \in Serial : Paced(todo'[p]) /\ (~Idle(p)' /\ IsByte(Access(p)') => data' = Empty)
    <3>1. ASSUME NEW p \in Serial, p # t
          PROVE  Paced(todo'[p]) /\ (~Idle(p)' /\ IsByte(Access(p)') => data' = Empty)
      BY <1>3, <2>1, <3>1 DEF SerialRight, Idle, Access
    <3>2. ~Idle(t)' /\ IsByte(Access(t)') => data' = Empty
      <4>1. todo'[t] = todo[t] => ~(~Idle(t)' /\ IsByte(Access(t)'))
        BY <1>8 DEF Access
      <4> QED BY <1>7, <2>1, <4>1 DEF Idle, Access
    <3> QED BY <1>2, <3>1, <3>2
  <2> QED BY <1>3, <1>4, <1>8, <2>1, <2>4, <2>5 DEF SerialRight
<1>9. CASE IsByte(a)
  <2>1. WriteDR(t) /\ data = Empty /\ a.op = "write" /\ a.bits \in Byte
    BY <1>1, <1>2, <1>9, CallersAccessIs DEF IsByte
  <2>2. data' = {a.bits} /\ shifter' = shifter
    BY <2>1 DEF WriteDR
  <2>3. SetToSeq(data') = <<a.bits>> /\ data' \in OneByte /\ SetToSeq(data) = <<>>
    BY <1>6, <2>1, <2>2, SeqOfOne DEF OneByte
  <2>4. BytesInOrder'
    <3> DEFINE p == SetToSeq(shifter)
               q == BytesOf(todo'[t])
               b == a.bits
    <3>1. p \in Seq(Byte) /\ q \in Seq(Byte) /\ b \in Byte /\ BytesOf(todo[t]) = <<b>> \o q
      BY <1>2, <1>6, <1>9, <2>1
    <3>2. CASE t = "main"
      <4>1. due = p \o <<>> \o (<<b>> \o q) \o <<>>
        BY <1>5, <1>6, <2>3, <3>1, <3>2
      <4>2. BytesInOrder' <=> p \o <<b>> \o q \o <<>> = due
        BY <1>3, <1>5, <2>2, <2>3, <3>2 DEF BytesInOrder
      <4> HIDE DEF p, q, b
      <4>3. p \o <<>> \o (<<b>> \o q) \o <<>> = p \o <<b>> \o q \o <<>>
        BY <3>1, MovedToDR
      <4> QED BY <4>1, <4>2, <4>3
    <3>3. CASE t = "uart"
      <4>1. due = p \o <<>> \o <<>> \o (<<b>> \o q)
        BY <1>5, <1>6, <2>3, <3>1, <3>3
      <4>2. BytesInOrder' <=> p \o <<b>> \o <<>> \o q = due
        BY <1>3, <1>5, <2>2, <2>3, <3>3 DEF BytesInOrder
      <4> HIDE DEF p, q, b
      <4>3. p \o <<>> \o <<>> \o (<<b>> \o q) = p \o <<b>> \o <<>> \o q
        BY <3>1, MovedToDR
      <4> QED BY <4>1, <4>2, <4>3
    <3> QED BY <3>2, <3>3 DEF Serial
  <2>5. todo'[t] # todo[t]
    <3>1. todo[t] \in Seq(Configuring \cup Sending) /\ todo[t] # <<>>
      BY <1>1, CallersAccess DEF Idle
    <3>2. todo'[t] = Tail(todo[t])
      BY <1>1, <2>1, StepTodo, StepOps DEF WriteDR, Done, Typed
    <3>3. Len(Tail(todo[t])) = Len(todo[t]) - 1 /\ Len(todo[t]) \in Nat
      BY <3>1
    <3>4. \A n \in Nat : n - 1 # n
      OBVIOUS
    <3> QED BY <3>2, <3>3, <3>4
  <2>6. \A p \in Serial : Paced(todo'[p]) /\ ~(~Idle(p)' /\ IsByte(Access(p)'))
    <3>1. ASSUME NEW p \in Serial, p # t
          PROVE  Paced(todo'[p]) /\ ~(~Idle(p)' /\ IsByte(Access(p)'))
      <4>1. Idle(p) /\ todo'[p] = todo[p]
        BY <1>3, <1>5, <3>1 DEF Serial
      <4> QED BY <4>1 DEF SerialRight, Idle
    <3>2. ~(~Idle(t)' /\ IsByte(Access(t)'))
      BY <1>2, <2>1, <2>5 DEF Idle, Access
    <3> QED BY <1>2, <3>1, <3>2
  <2>7. /\ TXE \notin reg'[SR] /\ TC \notin reg'[SR]
        /\ shifter' \in OneByte /\ due' \in Seq(Byte)
    BY <1>3, <1>4, <1>9, <2>2 DEF SerialRight
  <2> QED BY <1>3, <2>3, <2>4, <2>6, <2>7 DEF SerialRight
<1> QED BY <1>8, <1>9

LEMMA UsartSends ==
    ASSUME Typed, SerialRight, TransferByte \/ FrameSent
    PROVE  SerialRight'
<1> DEFINE main == BytesOf(todo["main"])
           uart == BytesOf(todo["uart"])
<1>1. todo' = todo /\ usart' = usart /\ SR' = SR /\ SR \in DOMAIN reg
  BY UsartSteps, UsartIs DEF SR, Typed
<1>2. main \in Seq(Byte) /\ uart \in Seq(Byte)
  BY BytesLeft DEF Caller
<1>3. /\ SetToSeq(shifter) \o SetToSeq(data) \o main \o uart = due
      /\ SetToSeq(shifter) \in Seq(Byte) /\ SetToSeq(data) \in Seq(Byte)
  BY OneByteSeq DEF SerialRight, BytesInOrder
<1>4. \A t \in Serial : Paced(todo'[t]) /\ (~Idle(t)' /\ IsByte(Access(t)') => data = Empty)
  BY <1>1 DEF SerialRight, Idle, Access
<1>5. SetToSeq(Empty) = <<>> /\ Empty \in OneByte /\ TXE # TC
  BY SeqOfOne DEF Empty, OneByte, TXE, TC
<1> HIDE DEF main, uart
<1>6. CASE TransferByte
  <2>1. /\ data # Empty /\ shifter = Empty /\ shifter' = data /\ data' = Empty /\ due' = due
        /\ reg'[SR] = reg[SR] \cup {TXE}
    BY <1>1, <1>6 DEF TransferByte, others
  <2>2. TC \notin reg'[SR]
    BY <1>5, <2>1 DEF SerialRight
  <2>3. <<>> \o SetToSeq(data) = SetToSeq(data) \o <<>>
    BY <1>3, ConcatEmptySeq
  <2>4. BytesInOrder'
    BY <1>1, <1>3, <1>5, <2>1, <2>3 DEF BytesInOrder, main, uart
  <2> QED BY <1>1, <1>4, <1>5, <2>1, <2>2, <2>4 DEF SerialRight
<1>7. CASE FrameSent
  <2>1. /\ shifter # Empty /\ shifter' = Empty /\ due' = Tail(due) /\ data' = data
        /\ reg'[SR] = IF data = Empty THEN reg[SR] \cup {TC} ELSE reg[SR]
    BY <1>1, <1>7 DEF FrameSent
  <2>2. PICK b \in Byte : shifter = {b}
    BY <2>1 DEF SerialRight, OneByte
  <2>3. SetToSeq(shifter) = <<b>>
    BY <2>2, SeqOfOne
  <2>4. due' = <<>> \o SetToSeq(data) \o main \o uart
    <3> DEFINE p == SetToSeq(data)
    <3>1. p \in Seq(Byte) /\ due = <<b>> \o p \o main \o uart
      BY <1>3, <2>3
    <3> HIDE DEF p
    <3>2. Tail(<<b>> \o p \o main \o uart) = <<>> \o p \o main \o uart
      BY <1>2, <3>1, MovedAway
    <3> QED BY <2>1, <3>1, <3>2 DEF p
  <2>5. BytesInOrder'
    BY <1>1, <1>5, <2>1, <2>4 DEF BytesInOrder, main, uart
  <2>6. due' \in Seq(Byte)
    <3>1. due \in Seq(Byte) /\ due # <<>>
      <4>1. Len(<<b>>) = 1 /\ <<b>> \in Seq(Byte)
        OBVIOUS
      <4>2. due # <<>>
        BY <1>2, <1>3, <2>3, <4>1, ConcatProperties, ConcatEqualIffEmpty
      <4> QED BY <4>2 DEF SerialRight
    <3> QED BY <2>1, <3>1
  <2>7. /\ TXE \in reg'[SR] => data' = Empty
        /\ TC \in reg'[SR] => data' = Empty /\ shifter' = Empty
    BY <1>5, <2>1 DEF SerialRight
  <2>8. data' \in OneByte /\ shifter' \in OneByte
    BY <1>5, <2>1 DEF SerialRight
  <2> QED BY <1>1, <1>4, <2>1, <2>5, <2>6, <2>7, <2>8 DEF SerialRight
<1> QED BY <1>6, <1>7

-----------------------------------------------------------------------------
(* The invariant.                                                          *)

LEMMA ConfiguringNoByte == \A a \in Configuring : ~IsByte(a)
<1>1. \A r \in RccReg \cup UsartReg : r[2] # "DR"
  BY DEF RccReg, UsartReg
<1>2. \A r \in PinRegs : r[2] # "DR"
  BY DEF PinRegs
<1>3. \A r \in LineRegs : r[2] # "DR"
  <2>1. \A r \in LineRegs : r[2] \in {"IMR", "RTSR", "FTSR", "ISER0", "ISER1", "ISER2"}
    BY DEF LineRegs, ISER
  <2> QED BY <2>1
<1> TAKE a \in Configuring
<1>4. a \in Setting \/ a.reg \in RccReg \cup UsartReg \cup PinRegs \cup LineRegs
  BY DEF Configuring, Branching
<1> QED BY <1>1, <1>2, <1>3, <1>4, SettingsNoByte DEF IsByte

LEMMA InitHolds == Init => HalInv
<1> SUFFICES ASSUME Init PROVE HalInv
  OBVIOUS
<1> DEFINE x == USART_Transmit(usart.usartx, Greeting)
           S == Configuring \cup Sending
<1>1. usart \in InitStructs /\ data = {} /\ shifter = {} /\ due = Greeting
  BY DEF Init, Empty
<1>2. PICK c : Begins(c) /\ MainProgram(usart) = c \o x
  BY <1>1, MainConfigures
<1>3. /\ todo = [t \in Thread |-> todo[t]] /\ todo["main"] = c \o x
      /\ \A t \in Task : todo[t] = <<>>
  BY <1>2, ThreadIs DEF Init, Thread
<1>4. Greeting \in Seq(Byte)
  BY MessageFacts
<1>5. x \in Seq(Sending) /\ x # <<>> /\ Paced(x) /\ ~IsByte(Head(x)) /\ BytesOf(x) = Greeting
  BY <1>4, TransmitIs, TransmitPaced, BytesOfTransmit DEF Sending
<1> HIDE DEF x
<1>6. c \in Seq(Configuring) /\ c # <<>> /\ Head(c) = FirstAccess
  BY <1>2 DEF Begins
<1>7. c \in Seq(S) /\ x \in Seq(S) /\ c \o x \in Seq(S)
  <2>1. Configuring \subseteq S /\ Sending \subseteq S
    OBVIOUS
  <2> HIDE DEF S
  <2>2. c \in Seq(S) /\ x \in Seq(S)
    BY <1>5, <1>6, <2>1, SeqMonotonic
  <2> QED BY <2>2, ConcatProperties
<1>8. c \o x # <<>> /\ Head(c \o x) = FirstAccess
  <2> HIDE DEF S
  <2> QED BY <1>6, <1>7
<1>9. Typed
  <2>1. todo["uart"] \in Seq(Sending) /\ todo["setup"] \in Seq(Setting \cup Branching)
    <3>1. todo["uart"] = <<>> /\ todo["setup"] = <<>>
      BY <1>3 DEF Task
    <3>2. \A D : <<>> \in Seq(D)
      OBVIOUS
    <3> QED BY <3>1, <3>2
  <2>2. reg = [r \in Register |-> reg[r]] /\ loaded = [t \in Thread |-> loaded[t]]
    BY DEF Init
  <2> QED BY <1>1, <1>3, <1>7, <2>1, <2>2 DEF Typed
<1>10. LoadedRight
  BY DEF Init, LoadedRight
<1>11. MainFirst
  BY <1>3 DEF MainFirst, Idle
<1>12. ClockRight
  <2>1. ~Idle("main") /\ Access("main") = FirstAccess /\ loaded["main"] = NotLoaded
    BY <1>3, <1>8 DEF Idle, Access, Init, Thread
  <2> QED BY <2>1 DEF ClockRight
<1>13. LedsRight
  <2>1. level = [l \in Led |-> FALSE] /\ \A l \in Led : todo[l] = <<>>
    BY <1>3 DEF Init, Task
  <2>2. reg[ODR] = {}
    <3>1. reg[ODR] = AfterReset(ODR)
      BY RegistersApart DEF Init
    <3>2. ODR # <<"GPIOA", "MODER">> /\ ODR # <<"GPIOB", "MODER">> /\ ODR[2] # "SR"
      BY DEF ODR
    <3> QED BY <3>1, <3>2 DEF AfterReset
  <2> QED BY <2>1, <2>2 DEF LedsRight, LedRight
<1>14. SerialRight
  <2>1. \A i \in 1..Len(c) : ~IsByte(c[i])
    <3>1. \A i \in 1..Len(c) : c[i] \in Configuring
      BY <1>6
    <3> QED BY <3>1, ConfiguringNoByte
  <2>2. Paced(c \o x) /\ ~IsByte(Head(c \o x))
    <3> HIDE DEF S
    <3> QED BY <1>5, <1>7, <1>8, <2>1, PacedChoice
  <2>3. BytesOf(c \o x) = Greeting
    <3>1. BytesOf(c) = <<>>
      BY <1>6, ConfiguringNoByte, NoBytes
    <3>2. \A a \in S : IsByte(a) => a.bits \in Byte
      BY <1>9, BytesLeft DEF Caller
    <3>3. BytesOf(c \o x) = <<>> \o Greeting
      <4> HIDE DEF S
      <4> QED BY <1>5, <1>7, <3>1, <3>2, BytesConcat
    <3> QED BY <1>4, <3>3, ConcatEmptySeq
  <2>4. BytesOf(todo["uart"]) = <<>>
    BY <1>3, <1>9, BytesLeft DEF Idle, Task, Caller
  <2>5. BytesInOrder
    <3>1. SetToSeq(shifter) = <<>> /\ SetToSeq(data) = <<>>
      BY <1>1, SeqOfOne
    <3>2. <<>> \o <<>> \o Greeting \o <<>> = Greeting
      BY <1>4, ConcatEmptySeq
    <3> QED BY <1>1, <1>3, <2>3, <2>4, <3>1, <3>2 DEF BytesInOrder
  <2>6. \A i \in 2..Len(<<>>) : FALSE
    OBVIOUS
  <2>7. \A t \in Serial : Paced(todo[t]) /\ ~(~Idle(t) /\ IsByte(Access(t)))
    BY <1>3, <2>2, <2>6 DEF Serial, Task, Paced, Idle, Access
  <2> QED BY <1>1, <1>4, <2>5, <2>7 DEF SerialRight, OneByte, Empty
<1> QED BY <1>9, <1>10, <1>11, <1>12, <1>13, <1>14 DEF HalInv

LEMMA SerialKept ==
    ASSUME HalInv, [Next]_halVars
    PROVE  SerialRight'
<1> USE DEF HalInv
<1>1. CASE UNCHANGED halVars
  BY <1>1, SerialFrame DEF halVars
<1>2. ASSUME NEW l \in Led, Blink(l) PROVE SerialRight'
  <2>1. \A t \in Serial : t \in Thread \ {l}
    BY ThreadIs DEF Serial, Thread, Led, Task
  <2> QED BY <1>2, <2>1, BeginSteps, SerialFrame DEF Begin, Blink
<1>3. ASSUME NEW m \in Messages, Transmit(m) PROVE SerialRight'
  BY <1>3, TransmitBegins
<1>4. ASSUME NEW call \in SetupCalls, Setup(call) PROVE SerialRight'
  <2>1. \A t \in Serial : t \in Thread \ {"setup"}
    BY DEF Serial, Thread, Task
  <2> QED BY <1>4, <2>1, BeginSteps, SerialFrame DEF Begin
<1>5. ASSUME NEW p \in Thread \ Serial, Step(p) PROVE SerialRight'
  <2>1. /\ \A t \in Serial : todo'[t] = todo[t]
        /\ usart' = usart /\ due' = due
    BY <1>5, StepTodo DEF Serial, Thread, Task
  <2>2. ~WriteDR(p)
    <3>1. CASE p \in Led
      <4>1. ~Idle(p)
        BY <1>5, StepTodo
      <4>2. Access(p).reg \in {ODR, <<"GPIOA", "BSRR">>}
        BY <3>1, <4>1, LedsAccess
      <4>3. ODR[2] # "DR" /\ <<"GPIOA", "BSRR">>[2] # "DR"
        BY DEF ODR
      <4> QED BY <4>2, <4>3 DEF WriteDR
    <3>2. CASE p = "setup"
      <4>1. Access(p) \in Setting \cup Branching
        BY <1>5, <3>2, CallersAccess, StepTodo DEF Caller
      <4>2. ~IsByte(Access(p))
        BY <4>1, ConfiguringNoByte DEF Configuring
      <4> QED BY <4>2 DEF WriteDR, IsByte
    <3> QED BY <1>5, <3>1, <3>2 DEF Thread, Task, Serial
  <2>3. data' = data /\ shifter' = shifter
    BY <1>5, <2>2 DEF Step, Load, Store, Assign, Poll, Branch
  <2>4. reg'[SR] = reg[SR]
    <3>1. p \in Led \/ (p \in Caller /\ ~IsByte(Access(p)))
      BY <1>5, <2>2, StepReg, ThreadIs
    <3> QED BY <1>5, <3>1, StepReg
  <2> QED BY <2>1, <2>3, <2>4, SerialFrame
<1>6. ASSUME NEW p \in Serial, Step(p) PROVE SerialRight'
  BY <1>6, SerialStep
<1>7. CASE TransferByte \/ FrameSent
  BY <1>7, UsartSends
<1> QED BY <1>1, <1>2, <1>3, <1>4, <1>5, <1>6, <1>7 DEF Next

\* HalInv is an invariant.
THEOREM HalSafe == Spec => []HalInv
<1>1. Init => HalInv
  BY InitHolds
<1>2. HalInv /\ [Next]_halVars => HalInv'
  BY TypedKept, LoadedKept, MainFirstKept, ClockKept, LedsKept, SerialKept DEF HalInv
<1> QED BY <1>1, <1>2, PTL DEF Spec

\* Once a write or a toggle has returned, its pin is as it left it: BSRR drives
\* one pin, and no other task has read a value of ODR that it still writes.
THEOREM OutputsStand == Spec => []OutputsAsWritten
<1>1. HalInv => OutputsAsWritten
  <2> SUFFICES ASSUME HalInv, NEW l \in Led, Idle(l)
               PROVE  level[l] <=> LedPin[l] \in reg[<<"GPIOA", "ODR">>]
    BY DEF OutputsAsWritten
  <2>1. LedRight(l) /\ todo[l] = <<>>
    BY DEF HalInv, LedsRight, Idle
  <2>2. /\ GPIO_Write("GPIOA", LedPin[l], level[l]) # <<>>
        /\ GPIO_Toggle("GPIOA", LedPin[l]) # <<>>
    <3>1. \A a : <<a>> # <<>>
      OBVIOUS
    <3> QED BY <3>1, LedCalls
  <2> QED BY <2>1, <2>2 DEF LedRight, ODR
<1> QED BY <1>1, HalSafe, PTL

\* The bytes arrive in the order in which they were given to USART_Transmit:
\* the driver waits for the one before, and never writes over it.
THEOREM BytesArrive == Spec => []BytesInOrder
<1>1. HalInv => BytesInOrder
  BY DEF HalInv, SerialRight
<1> QED BY <1>1, HalSafe, PTL

-----------------------------------------------------------------------------
(* What a sequence of accesses makes of a register.                        *)

AskedReg   == PinRegs \cup LineRegs
BrrReg     == (DOMAIN Usart) \X {"BRR"}
ConfReg    == AskedReg \cup BrrReg
TrackedReg == ConfReg \cup RccReg

Sets(a, r, k) == a.reg = r /\ a.op \in {"set", "write"} /\ k \in a.bits
Clears(a, r, k) ==
    /\ a.reg = r
    /\ \/ a.op = "clear" /\ k \in a.bits
       \/ a.op = "write" /\ r[1] # "NVIC" /\ k \notin a.bits

\* The bits of r, of value v, after an access, and after the first i of s.
Effect(a, r, v) == {k \in 0..31 : Sets(a, r, k) \/ (k \in v /\ ~Clears(a, r, k))}
After(s, i, r, v) ==
    {k \in 0..31 :
       \/ \E j \in 1..i : Sets(s[j], r, k) /\ \A m \in (j + 1)..i : ~Clears(s[m], r, k)
       \/ k \in v /\ \A j \in 1..i : ~Clears(s[j], r, k)}

\* The accesses of main, of the transmitting and of the configuring task.
Driving ==
    Configuring \cup UNION {SendByte(u, Byte) \cup SendWait(u) : u \in DOMAIN Usart}

LEMMA AfterNone ==
    ASSUME NEW s, NEW r, NEW v \in SUBSET (0..31) PROVE After(s, 0, r, v) = v
<1>1. 1..0 = {}
  OBVIOUS
<1>2. \A k \in 0..31 : k \in After(s, 0, r, v) <=> k \in v
  BY <1>1 DEF After
<1> QED BY <1>2 DEF After

LEMMA AfterHead ==
    ASSUME NEW s \in Seq(Driving), s # <<>>, NEW i \in 1..Len(s), NEW r, NEW v
    PROVE  After(s, i, r, v) = After(Tail(s), i - 1, r, Effect(Head(s), r, v))
<1> DEFINE t == Tail(s)
           w == Effect(Head(s), r, v)
<1>1. s[1] = Head(s) /\ \A j \in 1..(i - 1) : t[j] = s[j + 1]
  OBVIOUS
<1> HIDE DEF t
<1>2. ASSUME NEW k \in 0..31
      PROVE  k \in After(s, i, r, v) <=> k \in After(t, i - 1, r, w)
  <2> DEFINE on(j) == Sets(s[j], r, k)
             off(j) == Clears(s[j], r, k)
  <2>1. \A j \in 1..(i - 1) : /\ Sets(t[j], r, k) <=> on(j + 1)
                              /\ Clears(t[j], r, k) <=> off(j + 1)
    BY <1>1
  <2>2. k \in w <=> (on(1) \/ (k \in v /\ ~off(1)))
    BY <1>1 DEF Effect
  <2>3. k \in After(s, i, r, v) <=>
          \/ \E j \in 1..i : on(j) /\ \A m \in (j + 1)..i : ~off(m)
          \/ k \in v /\ \A j \in 1..i : ~off(j)
    BY DEF After
  <2>4. k \in After(t, i - 1, r, w) <=>
          \/ \E j \in 1..(i - 1) : on(j + 1) /\ \A m \in (j + 1)..(i - 1) : ~off(m + 1)
          \/ k \in w /\ \A j \in 1..(i - 1) : ~off(j + 1)
    <3>1. k \in After(t, i - 1, r, w) <=>
            \/ \E j \in 1..(i - 1) : /\ Sets(t[j], r, k)
                                     /\ \A m \in (j + 1)..(i - 1) : ~Clears(t[m], r, k)
            \/ k \in w /\ \A j \in 1..(i - 1) : ~Clears(t[j], r, k)
      BY DEF After
    <3>2. \A j \in 1..(i - 1) : \A m \in (j + 1)..(i - 1) : m \in 1..(i - 1)
      OBVIOUS
    <3> HIDE DEF on, off, w
    <3> QED BY <2>1, <3>1, <3>2
  <2> HIDE DEF on, off, w
  <2>5. \A j \in 0..(i - 1) : (\A m \in (j + 1)..(i - 1) : ~off(m + 1))
                                <=> (\A m \in (j + 2)..i : ~off(m))
    <3> SUFFICES ASSUME NEW j \in 0..(i - 1)
                 PROVE  (\A m \in (j + 1)..(i - 1) : ~off(m + 1))
                          <=> (\A m \in (j + 2)..i : ~off(m))
      OBVIOUS
    <3>1. ASSUME \A m \in (j + 1)..(i - 1) : ~off(m + 1), NEW m \in (j + 2)..i
          PROVE  ~off(m)
      <4>1. m - 1 \in (j + 1)..(i - 1) /\ (m - 1) + 1 = m
        OBVIOUS
      <4> QED BY <3>1, <4>1
    <3>2. ASSUME \A m \in (j + 2)..i : ~off(m), NEW m \in (j + 1)..(i - 1)
          PROVE  ~off(m + 1)
      BY <3>2
    <3> QED BY <3>1, <3>2
  <2>6. ASSUME k \in After(s, i, r, v) PROVE k \in After(t, i - 1, r, w)
    <3>1. CASE k \in v /\ \A j \in 1..i : ~off(j)
      BY <2>2, <2>4, <3>1
    <3>2. ASSUME NEW j \in 1..i, on(j), \A m \in (j + 1)..i : ~off(m)
          PROVE  k \in After(t, i - 1, r, w)
      <4>1. CASE j = 1
        BY <2>2, <2>4, <3>2, <4>1
      <4>2. CASE j # 1
        <5>1. j - 1 \in 1..(i - 1) /\ (j - 1) + 1 = j /\ (j - 1) + 2 = j + 1
          BY <4>2
        <5>2. \A m \in ((j - 1) + 1)..(i - 1) : ~off(m + 1)
          BY <2>5, <3>2, <5>1
        <5> QED BY <2>4, <3>2, <5>1, <5>2
      <4> QED BY <4>1, <4>2
    <3> QED BY <2>3, <2>6, <3>1, <3>2
  <2>7. ASSUME k \in After(t, i - 1, r, w) PROVE k \in After(s, i, r, v)
    <3>1. ASSUME NEW j \in 1..(i - 1), on(j + 1), \A m \in (j + 1)..(i - 1) : ~off(m + 1)
          PROVE  k \in After(s, i, r, v)
      <4>1. \A m \in (j + 2)..i : ~off(m)
        BY <2>5, <3>1
      <4>2. j + 1 \in 1..i /\ (j + 1) + 1 = j + 2
        OBVIOUS
      <4> QED BY <2>3, <3>1, <4>1, <4>2
    <3>2. CASE k \in w /\ \A j \in 1..(i - 1) : ~off(j + 1)
      <4>1. \A m \in 2..i : ~off(m)
        BY <2>5, <3>2
      <4> QED BY <2>2, <2>3, <3>2, <4>1
    <3> QED BY <2>4, <2>7, <3>1, <3>2
  <2> QED BY <2>6, <2>7
<1>3. After(s, i, r, v) \subseteq 0..31 /\ After(t, i - 1, r, w) \subseteq 0..31
  BY DEF After
<1> QED BY <1>2, <1>3 DEF t, w

\* Those of a after those of s.
LEMMA AfterPrefix ==
    ASSUME NEW s \in Seq(Driving), NEW a \in Seq(Driving), NEW r, NEW v,
           NEW i \in 0..Len(s)
    PROVE  After(s \o a, i, r, v) = After(s, i, r, v)
<1>1. \A j \in 1..i : (s \o a)[j] = s[j]
  OBVIOUS
<1> DEFINE c == s \o a
<1> HIDE DEF c
<1>2. After(c, i, r, v) = After(s, i, r, v)
  BY <1>1 DEF After, c
<1> QED BY <1>2 DEF c

LEMMA AfterConcat ==
    ASSUME NEW s \in Seq(Driving), NEW a \in Seq(Driving), NEW r, NEW v,
           NEW i \in 0..Len(a)
    PROVE  After(s \o a, Len(s) + i, r, v) = After(a, i, r, After(s, Len(s), r, v))
<1> DEFINE c == s \o a
           n == Len(s)
           w == After(s, n, r, v)
<1>1. /\ n \in Nat /\ Len(a) \in Nat /\ \A j \in 1..n : c[j] = s[j]
      /\ \A j \in 1..Len(a) : c[n + j] = a[j]
  OBVIOUS
<1>2. After(c, n, r, v) = w
  <2>1. n \in 0..n
    BY <1>1
  <2> QED BY <2>1, AfterPrefix
<1> HIDE DEF c
<1>3. After(c, n + i, r, v) = After(a, i, r, w)
  <2>0. n \in Nat /\ i \in Nat /\ i <= Len(a)
    BY <1>1
  <2> HIDE DEF n
  <2>1. ASSUME NEW k \in 0..31
        PROVE  k \in After(c, n + i, r, v) <=> k \in After(a, i, r, w)
    <3> DEFINE on(j) == Sets(c[j], r, k)
               off(j) == Clears(c[j], r, k)
    <3>1. k \in w <=>
            \/ \E j \in 1..n : on(j) /\ \A m \in (j + 1)..n : ~off(m)
            \/ k \in v /\ \A j \in 1..n : ~off(j)
      <4>1. k \in After(c, n, r, v) <=>
              \/ \E j \in 1..n : on(j) /\ \A m \in (j + 1)..n : ~off(m)
              \/ k \in v /\ \A j \in 1..n : ~off(j)
        BY DEF After
      <4> QED BY <1>2, <4>1
    <3>2. k \in After(c, n + i, r, v) <=>
            \/ \E j \in 1..(n + i) : on(j) /\ \A m \in (j + 1)..(n + i) : ~off(m)
            \/ k \in v /\ \A j \in 1..(n + i) : ~off(j)
      BY DEF After
    <3>3. k \in After(a, i, r, w) <=>
            \/ \E j \in 1..i : on(n + j) /\ \A m \in (j + 1)..i : ~off(n + m)
            \/ k \in w /\ \A j \in 1..i : ~off(n + j)
      <4>1. \A j \in 1..i : c[n + j] = a[j]
        BY <1>1, <2>0 DEF n
      <4>2. \A j \in 1..i : /\ Sets(a[j], r, k) <=> on(n + j)
                            /\ Clears(a[j], r, k) <=> off(n + j)
        BY <4>1
      <4>3. k \in After(a, i, r, w) <=>
              \/ \E j \in 1..i : Sets(a[j], r, k) /\ \A m \in (j + 1)..i : ~Clears(a[m], r, k)
              \/ k \in w /\ \A j \in 1..i : ~Clears(a[j], r, k)
        BY DEF After
      <4>4. \A j \in 1..i : \A m \in (j + 1)..i : m \in 1..i
        OBVIOUS
      <4> HIDE DEF on, off, w
      <4> QED BY <4>2, <4>3, <4>4
    <3> HIDE DEF on, off, w
    <3>4. \A j \in 0..i : (\A m \in (j + 1)..i : ~off(n + m))
                            <=> (\A m \in (n + j + 1)..(n + i) : ~off(m))
      <4> SUFFICES ASSUME NEW j \in 0..i
                   PROVE  (\A m \in (j + 1)..i : ~off(n + m))
                            <=> (\A m \in (n + j + 1)..(n + i) : ~off(m))
        OBVIOUS
      <4>1. ASSUME \A m \in (j + 1)..i : ~off(n + m), NEW m \in (n + j + 1)..(n + i)
            PROVE  ~off(m)
        <5>1. m - n \in (j + 1)..i /\ n + (m - n) = m
          BY <2>0
        <5> QED BY <4>1, <5>1
      <4>2. ASSUME \A m \in (n + j + 1)..(n + i) : ~off(m), NEW m \in (j + 1)..i
            PROVE  ~off(n + m)
        BY <2>0, <4>2
      <4> QED BY <4>1, <4>2
    <3>5. (\A m \in 1..i : ~off(n + m)) <=> (\A m \in (n + 1)..(n + i) : ~off(m))
      <4>1. 0 \in 0..i /\ 0 + 1 = 1 /\ n + 0 + 1 = n + 1
        BY <2>0
      <4> QED BY <3>4, <4>1
    <3>6. ASSUME k \in After(c, n + i, r, v) PROVE k \in After(a, i, r, w)
      <4>1. CASE k \in v /\ \A j \in 1..(n + i) : ~off(j)
        <5>1. (\A j \in 1..n : ~off(j)) /\ (\A m \in (n + 1)..(n + i) : ~off(m))
          BY <2>0, <4>1
        <5> QED BY <3>1, <3>3, <3>5, <4>1, <5>1
      <4>2. ASSUME NEW j \in 1..(n + i), on(j), \A m \in (j + 1)..(n + i) : ~off(m)
            PROVE  k \in After(a, i, r, w)
        <5>1. CASE j \in 1..n
          <6>1. (\A m \in (j + 1)..n : ~off(m)) /\ (\A m \in (n + 1)..(n + i) : ~off(m))
            BY <2>0, <4>2, <5>1
          <6> QED BY <3>1, <3>3, <3>5, <4>2, <5>1, <6>1
        <5>2. CASE j \notin 1..n
          <6>1. j - n \in 1..i /\ n + (j - n) = j /\ n + (j - n) + 1 = j + 1 /\ j - n \in 0..i
            BY <2>0, <5>2
          <6>2. \A m \in ((j - n) + 1)..i : ~off(n + m)
            BY <3>4, <4>2, <6>1
          <6> QED BY <3>3, <4>2, <6>1, <6>2
        <5> QED BY <5>1, <5>2
      <4> QED BY <3>2, <3>6, <4>1, <4>2
    <3>7. ASSUME k \in After(a, i, r, w) PROVE k \in After(c, n + i, r, v)
      <4>1. ASSUME NEW j \in 1..i, on(n + j), \A m \in (j + 1)..i : ~off(n + m)
            PROVE  k \in After(c, n + i, r, v)
        <5>1. \A m \in (n + j + 1)..(n + i) : ~off(m)
          BY <3>4, <4>1
        <5>2. n + j \in 1..(n + i)
          BY <2>0
        <5> QED BY <3>2, <4>1, <5>1, <5>2
      <4>2. CASE k \in w /\ \A j \in 1..i : ~off(n + j)
        <5>1. \A m \in (n + 1)..(n + i) : ~off(m)
          BY <3>5, <4>2
        <5>2. CASE k \in v /\ \A j \in 1..n : ~off(j)
          <6>1. \A j \in 1..(n + i) : ~off(j)
            BY <2>0, <5>1, <5>2
          <6> QED BY <3>2, <5>2, <6>1
        <5>3. ASSUME NEW j \in 1..n, on(j), \A m \in (j + 1)..n : ~off(m)
              PROVE  k \in After(c, n + i, r, v)
          <6>1. j \in 1..(n + i) /\ \A m \in (j + 1)..(n + i) : ~off(m)
            BY <2>0, <5>1, <5>3
          <6> QED BY <3>2, <5>3, <6>1
        <5> QED BY <3>1, <4>2, <5>2, <5>3
      <4> QED BY <3>3, <3>7, <4>1, <4>2
    <3> QED BY <3>6, <3>7
  <2>2. After(c, n + i, r, v) \subseteq 0..31 /\ After(a, i, r, w) \subseteq 0..31
    BY DEF After
  <2> QED BY <2>1, <2>2
<1> QED BY <1>3 DEF c

-----------------------------------------------------------------------------
(* What a driver function does from registers g, if nobody interferes.     *)

Values == [TrackedReg -> SUBSET (0..31)]

\* The bits that are to be set when a is made: the clock of its peripheral, and
\* those that it asks for.
Needs(a) == ClockOf(a.reg[1]) \cup (IF a.op = "if" THEN {a.reg} \X a.bits ELSE {})

Ready(s, g) ==
    \A i \in 1..Len(s) :
       /\ s[i].op = "if" => s[i].yes = <<>>
       /\ \A n \in Needs(s[i]) :
             n[1] \in TrackedReg /\ n[2] \in After(s, i - 1, n[1], g[n[1]])

Does(s, g, h) ==
    /\ s \in Seq(Driving) /\ Ready(s, g)
    /\ \A r \in TrackedReg : After(s, Len(s), r, g[r]) = h[r]

LEMMA DoesNothing == \A g \in Values : Does(<<>>, g, g)
<1> SUFFICES ASSUME NEW g \in Values PROVE Does(<<>>, g, g)
  OBVIOUS
<1> DEFINE s == <<>>
<1>1. s \in Seq(Driving) /\ Len(s) = 0
  OBVIOUS
<1> HIDE DEF s
<1>2. Ready(s, g)
  BY <1>1 DEF Ready
<1>3. ASSUME NEW r \in TrackedReg PROVE After(s, 0, r, g[r]) = g[r]
  <2>1. g[r] \in SUBSET (0..31)
    BY DEF Values
  <2> QED BY <2>1, AfterNone
<1> QED BY <1>1, <1>2, <1>3 DEF Does, s

LEMMA DoesOne ==
    ASSUME NEW a \in Driving, NEW g \in Values, NEW h,
           a.op = "if" => a.yes = <<>>,
           \A n \in Needs(a) : n[1] \in TrackedReg /\ n[2] \in g[n[1]],
           \A r \in TrackedReg : h[r] = Effect(a, r, g[r])
    PROVE  Does(<<a>>, g, h)
<1> DEFINE s == <<a>>
           none == <<>>
<1>1. s \in Seq(Driving) /\ Len(s) = 1 /\ s # <<>> /\ Head(s) = a /\ Tail(s) = none /\ s[1] = a
  OBVIOUS
<1> HIDE DEF s, none
<1>2. ASSUME NEW r \in TrackedReg
      PROVE  After(s, 0, r, g[r]) = g[r] /\ After(s, 1, r, g[r]) = h[r]
  <2>1. g[r] \in SUBSET (0..31) /\ Effect(a, r, g[r]) \in SUBSET (0..31)
    BY DEF Values, Effect
  <2>2. 1 \in 1..Len(s) /\ 1 - 1 = 0
    BY <1>1
  <2>3. After(s, 1, r, g[r]) = After(Tail(s), 1 - 1, r, Effect(Head(s), r, g[r]))
    BY <1>1, <2>2, AfterHead
  <2>4. After(s, 1, r, g[r]) = After(none, 0, r, Effect(a, r, g[r]))
    BY <1>1, <2>2, <2>3
  <2> QED BY <2>1, <2>4, AfterNone
<1>3. Ready(s, g)
  <2> SUFFICES ASSUME NEW i \in 1..Len(s)
               PROVE  /\ s[i].op = "if" => s[i].yes = <<>>
                      /\ \A n \in Needs(s[i]) :
                           n[1] \in TrackedReg /\ n[2] \in After(s, i - 1, n[1], g[n[1]])
    BY DEF Ready
  <2>1. i = 1 /\ i - 1 = 0 /\ s[i] = a
    BY <1>1
  <2> QED BY <1>2, <2>1
<1> QED BY <1>1, <1>2, <1>3 DEF Does, s

LEMMA DoesConcat ==
    ASSUME NEW s, NEW a, NEW g \in Values, NEW h \in Values, NEW f,
           Does(s, g, h), Does(a, h, f)
    PROVE  Does(s \o a, g, f)
<1> DEFINE c == s \o a
<1>1. /\ s \in Seq(Driving) /\ a \in Seq(Driving) /\ Ready(s, g) /\ Ready(a, h)
      /\ \A r \in TrackedReg : After(s, Len(s), r, g[r]) = h[r]
      /\ \A r \in TrackedReg : After(a, Len(a), r, h[r]) = f[r]
  BY DEF Does
<1>2. /\ c \in Seq(Driving) /\ Len(c) = Len(s) + Len(a)
      /\ Len(s) \in Nat /\ Len(a) \in Nat
      /\ \A i \in 1..Len(s) : c[i] = s[i]
      /\ \A i \in 1..Len(a) : c[Len(s) + i] = a[i]
  BY <1>1
<1>3. /\ \A r, v : \A i \in 0..Len(s) : After(c, i, r, v) = After(s, i, r, v)
      /\ \A r, v : \A i \in 0..Len(a) :
            After(c, Len(s) + i, r, v) = After(a, i, r, After(s, Len(s), r, v))
  <2>1. s \in Seq(Driving) /\ a \in Seq(Driving)
    BY <1>1
  <2>2. ASSUME NEW r, NEW v, NEW i \in 0..Len(s) PROVE After(c, i, r, v) = After(s, i, r, v)
    BY ONLY <2>1, AfterPrefix
  <2>3. ASSUME NEW r, NEW v, NEW i \in 0..Len(a)
        PROVE  After(c, Len(s) + i, r, v) = After(a, i, r, After(s, Len(s), r, v))
    BY ONLY <2>1, AfterConcat
  <2> QED BY <2>2, <2>3
<1> HIDE DEF c
<1>4. ASSUME NEW r \in TrackedReg PROVE After(c, Len(c), r, g[r]) = f[r]
  <2>1. Len(a) \in 0..Len(a)
    BY <1>2
  <2> QED BY <1>1, <1>2, <1>3, <2>1
<1>5. ASSUME NEW i \in 1..Len(c)
      PROVE  /\ c[i].op = "if" => c[i].yes = <<>>
             /\ \A n \in Needs(c[i]) :
                  n[1] \in TrackedReg /\ n[2] \in After(c, i - 1, n[1], g[n[1]])
  <2>1. CASE i \in 1..Len(s)
    <3>1. i - 1 \in 0..Len(s) /\ c[i] = s[i]
      BY <1>2, <2>1
    <3> QED BY <1>1, <1>3, <2>1, <3>1 DEF Ready
  <2>2. CASE i \notin 1..Len(s)
    <3> DEFINE j == i - Len(s)
    <3>1. j \in 1..Len(a) /\ j - 1 \in 0..Len(a) /\ i = Len(s) + j /\ i - 1 = Len(s) + (j - 1)
      BY <1>2, <2>2
    <3>2. c[i] = a[j]
      BY <1>2, <3>1
    <3> HIDE DEF j
    <3>3. \A r \in TrackedReg : After(c, i - 1, r, g[r]) = After(a, j - 1, r, h[r])
      BY <1>1, <1>3, <3>1
    <3> QED BY <1>1, <3>1, <3>2, <3>3 DEF Ready
  <2> QED BY <2>1, <2>2
<1> QED BY <1>2, <1>4, <1>5 DEF Does, Ready, c

-----------------------------------------------------------------------------
(* The same, in terms of wishes.                                           *)

Wish == [reg : TrackedReg, field : SUBSET (0..31), value : SUBSET (0..31)]

Wishes == {W \in SUBSET Wish : \A w \in W : w.value \subseteq w.field}

Agree(V, W) ==
    \A v \in V, w \in W : v.reg = w.reg => v.field \cap w.field = {} \/ v = w

\* Some wish is about a bit of r, and some wants it to be set.
About(W, r, k)  == \E w \in W : w.reg = r /\ k \in w.field
Wanted(W, r, k) == \E w \in W : w.reg = r /\ k \in w.value

LEMMA FulfilIs ==
    ASSUME NEW g \in Values, NEW W \in Wishes
    PROVE  /\ Fulfil(g, W) \in Values
           /\ \A r \in TrackedReg : \A k \in 0..31 :
                k \in Fulfil(g, W)[r] <=>
                  Wanted(W, r, k) \/ (k \in g[r] /\ ~About(W, r, k))
<1> DEFINE about(r) == {w \in W : w.reg = r}
           f(r) == (g[r] \ UNION {w.field : w \in about(r)}) \cup UNION {w.value : w \in about(r)}
<1>1. Fulfil(g, W) = [r \in TrackedReg |-> f(r)]
  <2>1. DOMAIN g = TrackedReg
    BY DEF Values
  <2> QED BY <2>1 DEF Fulfil
<1>2. ASSUME NEW r \in TrackedReg
      PROVE  /\ f(r) \subseteq 0..31
             /\ \A k \in 0..31 :
                  k \in f(r) <=> Wanted(W, r, k) \/ (k \in g[r] /\ ~About(W, r, k))
  <2>1. g[r] \subseteq 0..31
    BY DEF Values
  <2>2. \A w \in W : w.value \subseteq 0..31
    BY DEF Wishes, Wish
  <2> QED BY <2>1, <2>2 DEF About, Wanted
<1> HIDE DEF f
<1> QED BY <1>1, <1>2 DEF Values

LEMMA SameValues ==
    ASSUME NEW g \in Values, NEW h \in Values,
           \A r \in TrackedReg : \A k \in 0..31 : k \in g[r] <=> k \in h[r]
    PROVE  g = h
<1>1. \A r \in TrackedReg : g[r] = h[r]
  BY DEF Values
<1> QED BY <1>1 DEF Values

LEMMA FulfilNone == \A g \in Values : Fulfil(g, {}) = g
<1> SUFFICES ASSUME NEW g \in Values PROVE Fulfil(g, {}) = g
  OBVIOUS
<1>1. g = [r \in TrackedReg |-> g[r]] /\ DOMAIN g = TrackedReg
  BY DEF Values
<1> QED BY <1>1 DEF Fulfil

LEMMA FulfilBoth ==
    ASSUME NEW g \in Values, NEW V \in Wishes, NEW W \in Wishes, Agree(V, W)
    PROVE  V \cup W \in Wishes /\ Fulfil(Fulfil(g, V), W) = Fulfil(g, V \cup W)
<1> DEFINE U == V \cup W
           h == Fulfil(g, V)
<1>1. U \in Wishes
  BY DEF Wishes
<1>2. h \in Values
  BY FulfilIs
<1>3. ASSUME NEW r \in TrackedReg, NEW k \in 0..31
      PROVE  k \in Fulfil(h, W)[r] <=> k \in Fulfil(g, U)[r]
  <2>1. k \in h[r] <=> Wanted(V, r, k) \/ (k \in g[r] /\ ~About(V, r, k))
    BY FulfilIs
  <2>2. k \in Fulfil(h, W)[r] <=> Wanted(W, r, k) \/ (k \in h[r] /\ ~About(W, r, k))
    <3> HIDE DEF h
    <3> QED BY <1>2, FulfilIs
  <2>3. k \in Fulfil(g, U)[r] <=> Wanted(U, r, k) \/ (k \in g[r] /\ ~About(U, r, k))
    <3> HIDE DEF U
    <3> QED BY <1>1, FulfilIs
  <2>4. Wanted(V, r, k) => ~About(W, r, k) \/ Wanted(W, r, k)
    BY DEF Agree, Wishes, Wanted, About
  <2>5. /\ Wanted(U, r, k) <=> Wanted(V, r, k) \/ Wanted(W, r, k)
        /\ About(U, r, k) <=> About(V, r, k) \/ About(W, r, k)
    BY DEF Wanted, About
  <2> QED BY <2>1, <2>2, <2>3, <2>4, <2>5
<1> HIDE DEF h, U
<1>4. Fulfil(h, W) \in Values /\ Fulfil(g, U) \in Values
  BY <1>1, <1>2, FulfilIs
<1> QED BY <1>1, <1>3, <1>4, SameValues DEF h, U

-----------------------------------------------------------------------------
(* What the driver functions do: they fulfil the wishes of their caller, if *)
(* some bits are set, such as those of the clocks.                         *)

Bit == TrackedReg \X (0..31)

Powered(C, g) == \A c \in C : c[2] \in g[c[1]]

Works(s, C, W) ==
    /\ W \in Wishes
    /\ \A g \in Values : Powered(C, g) => Does(s, g, Fulfil(g, W))

LEMMA WorksConcat ==
    ASSUME NEW s, NEW a, NEW C, NEW D \in SUBSET Bit, NEW V, NEW W,
           Works(s, C, V), Works(a, D, W), Agree(V, W),
           \A c \in D : (c \in C /\ ~About(V, c[1], c[2])) \/ Wanted(V, c[1], c[2])
    PROVE  Works(s \o a, C, V \cup W)
<1>1. V \in Wishes /\ W \in Wishes
  BY DEF Works
<1>2. V \cup W \in Wishes
  BY <1>1 DEF Wishes
<1>3. ASSUME NEW g \in Values, Powered(C, g) PROVE Does(s \o a, g, Fulfil(g, V \cup W))
  <2> DEFINE h == Fulfil(g, V)
             f == Fulfil(h, W)
  <2>1. h \in Values /\ Does(s, g, h)
    BY <1>1, <1>3, FulfilIs DEF Works
  <2>2. Powered(D, h)
    <3>1. ASSUME NEW c \in D PROVE c[2] \in h[c[1]]
      <4>1. c[1] \in TrackedReg /\ c[2] \in 0..31
        BY DEF Bit
      <4>2. c[2] \in h[c[1]] <=>
              Wanted(V, c[1], c[2]) \/ (c[2] \in g[c[1]] /\ ~About(V, c[1], c[2]))
        BY <1>1, <4>1, FulfilIs
      <4> QED BY <1>3, <4>2 DEF Powered
    <3> QED BY <3>1 DEF Powered
  <2>3. f = Fulfil(g, V \cup W)
    BY <1>1, FulfilBoth
  <2> HIDE DEF h
  <2>4. Does(a, h, f)
    BY <2>1, <2>2 DEF Works
  <2>5. Does(s \o a, g, f)
    BY <2>1, <2>4, DoesConcat
  <2> QED BY <2>3, <2>5
<1> QED BY <1>2, <1>3 DEF Works

LEMMA WorksOne ==
    ASSUME NEW a \in Driving, NEW C \in SUBSET Bit, NEW W \in Wishes,
           a.op = "if" => a.yes = <<>>, Needs(a) \subseteq C,
           \A r \in TrackedReg : \A k \in 0..31 :
              /\ Sets(a, r, k) <=> Wanted(W, r, k)
              /\ Wanted(W, r, k) \/ (Clears(a, r, k) <=> About(W, r, k))
    PROVE  Works(<<a>>, C, W)
<1> SUFFICES ASSUME NEW g \in Values, Powered(C, g) PROVE Does(<<a>>, g, Fulfil(g, W))
  BY DEF Works
<1> DEFINE h == Fulfil(g, W)
<1>1. h \in Values
  BY FulfilIs
<1>2. ASSUME NEW n \in Needs(a) PROVE n[1] \in TrackedReg /\ n[2] \in g[n[1]]
  BY DEF Powered, Bit
<1>3. ASSUME NEW r \in TrackedReg PROVE h[r] = Effect(a, r, g[r])
  <2>1. ASSUME NEW k \in 0..31 PROVE k \in h[r] <=> k \in Effect(a, r, g[r])
    <3>1. k \in h[r] <=> Wanted(W, r, k) \/ (k \in g[r] /\ ~About(W, r, k))
      BY FulfilIs
    <3>2. k \in Effect(a, r, g[r]) <=> Sets(a, r, k) \/ (k \in g[r] /\ ~Clears(a, r, k))
      BY DEF Effect
    <3>3. /\ Sets(a, r, k) <=> Wanted(W, r, k)
          /\ Wanted(W, r, k) \/ (Clears(a, r, k) <=> About(W, r, k))
      OBVIOUS
    <3> QED BY <3>1, <3>2, <3>3
  <2>2. h[r] \subseteq 0..31 /\ Effect(a, r, g[r]) \subseteq 0..31
    BY <1>1 DEF Values, Effect
  <2> QED BY <2>1, <2>2
<1> HIDE DEF h
<1>4. Does(<<a>>, g, h)
  BY <1>2, <1>3, DoesOne
<1> QED BY <1>4 DEF h

\* An access to a register that is not tracked.
LEMMA WorksElsewhere ==
    ASSUME NEW a \in Driving, NEW C \in SUBSET Bit,
           a.op # "if", a.reg \notin TrackedReg, ClockOf(a.reg[1]) \subseteq C
    PROVE  Works(<<a>>, C, {})
<1> DEFINE none == {}
<1>1. none \in Wishes /\ \A r, k : ~Wanted(none, r, k) /\ ~About(none, r, k)
  BY DEF Wishes, Wanted, About
<1> HIDE DEF none
<1>2. Needs(a) \subseteq C
  BY DEF Needs
<1>3. \A r \in TrackedReg : \A k \in 0..31 : ~Sets(a, r, k) /\ ~Clears(a, r, k)
  BY DEF Sets, Clears
<1>4. Works(<<a>>, C, none)
  BY <1>1, <1>2, <1>3, WorksOne
<1> QED BY <1>4 DEF none

\* The ports' clocks.
LEMMA PinClock ==
    ASSUME NEW r \in PinRegs
    PROVE  /\ r[1] \in DOMAIN Clock /\ Clock[r[1]] \in 0..3
           /\ ClockOf(r[1]) = {<<AHB1ENR, Clock[r[1]]>>} /\ AHB1ENR # r
<1>1. r[1] \in DOMAIN Clock
  BY HalAssumption DEF PinRegs
<1>2. Clock[r[1]] \in 0..3 /\ r[1] # "RCC"
  BY <1>1 DEF Clock
<1> QED BY <1>1, <1>2, ClockOfIs DEF AHB1ENR

\* reg &= ~field; reg |= value, of which the field is cleared first.
LEMMA WorksClearSet ==
    ASSUME NEW r \in PinRegs, NEW field \in SUBSET (0..31), NEW value \in SUBSET field,
           NEW C \in SUBSET Bit, ClockOf(r[1]) \subseteq C
    PROVE  Works(Clear(r, field) \o Set(r, value), C,
                 {[reg |-> r, field |-> field, value |-> value]})
<1> DEFINE c == [op |-> "clear", reg |-> r, bits |-> field]
           s == [op |-> "set", reg |-> r, bits |-> value]
           V == {[reg |-> r, field |-> field, value |-> {}]}
           W == {[reg |-> r, field |-> value, value |-> value]}
           U == {[reg |-> r, field |-> field, value |-> value]}
<1>1. c \in Driving /\ s \in Driving
  <2>1. c \in Setting /\ s \in Setting
    BY DEF Setting
  <2> HIDE DEF c, s
  <2> QED BY <2>1 DEF Driving, Configuring
<1>2. r \in TrackedReg
  BY DEF TrackedReg, ConfReg, AskedReg
<1>3. V \in Wishes /\ W \in Wishes /\ U \in Wishes
  BY <1>2 DEF Wishes, Wish
<1>4. /\ \A q, k : Wanted(V, q, k) <=> FALSE
      /\ \A q, k : About(V, q, k) <=> q = r /\ k \in field
      /\ \A q, k : Wanted(W, q, k) <=> q = r /\ k \in value
      /\ \A q, k : About(W, q, k) <=> q = r /\ k \in value
      /\ \A q, k : Wanted(U, q, k) <=> q = r /\ k \in value
      /\ \A q, k : About(U, q, k) <=> q = r /\ k \in field
  BY DEF Wanted, About
<1>5. /\ c.op = "clear" /\ c.reg = r /\ c.bits = field
      /\ s.op = "set" /\ s.reg = r /\ s.bits = value
  OBVIOUS
<1>6. Clear(r, field) \o Set(r, value) = <<c>> \o <<s>>
  BY DEF Clear, Set
<1> HIDE DEF c, s, V, W, U
<1>7. Needs(c) = ClockOf(r[1]) /\ Needs(s) = ClockOf(r[1])
  BY <1>5 DEF Needs
<1>8. /\ \A q, k : Sets(c, q, k) <=> FALSE
      /\ \A q, k : Clears(c, q, k) <=> q = r /\ k \in field
      /\ \A q, k : Sets(s, q, k) <=> q = r /\ k \in value
      /\ \A q, k : Clears(s, q, k) <=> FALSE
  BY <1>5 DEF Sets, Clears
<1>9. Works(<<c>>, C, V) /\ Works(<<s>>, ClockOf(r[1]), W)
  <2>1. ClockOf(r[1]) \in SUBSET Bit
    OBVIOUS
  <2> QED BY <1>1, <1>3, <1>4, <1>5, <1>7, <1>8, <2>1, WorksOne
<1>11. PICK c1, c2 : ClockOf(r[1]) = {<<c1, c2>>} /\ <<c1, c2>> \in C /\ c1 # r
  BY PinClock
<1>0. <<c1, c2>> \in Bit
  BY <1>11
<1>10. ASSUME NEW g \in Values, Powered(C, g) PROVE Does(<<c>> \o <<s>>, g, Fulfil(g, U))
  <2> DEFINE h == Fulfil(g, V)
             f == Fulfil(h, W)
  <2>1. h \in Values /\ Does(<<c>>, g, h)
    BY <1>3, <1>9, <1>10, FulfilIs DEF Works
  <2>2. f = Fulfil(g, U)
    <3>1. Fulfil(g, U) \in Values /\ f \in Values
      <4> HIDE DEF h
      <4> QED BY <1>3, <2>1, FulfilIs
    <3>2. ASSUME NEW q \in TrackedReg, NEW k \in 0..31
          PROVE  k \in f[q] <=> k \in Fulfil(g, U)[q]
      <4>1. k \in h[q] <=> Wanted(V, q, k) \/ (k \in g[q] /\ ~About(V, q, k))
        BY <1>3, FulfilIs
      <4>2. k \in Fulfil(g, U)[q] <=> Wanted(U, q, k) \/ (k \in g[q] /\ ~About(U, q, k))
        BY <1>3, FulfilIs
      <4> HIDE DEF h
      <4>3. k \in f[q] <=> Wanted(W, q, k) \/ (k \in h[q] /\ ~About(W, q, k))
        BY <1>3, <2>1, FulfilIs
      <4> QED BY <1>4, <4>1, <4>2, <4>3
    <3> HIDE DEF f
    <3> QED BY <3>1, <3>2, SameValues
  <2>3. Powered(ClockOf(r[1]), h)
    <3>1. c1 # r /\ c1 \in TrackedReg /\ c2 \in 0..31
      BY <1>0, <1>11 DEF Bit
    <3>2. c2 \in h[c1] <=> Wanted(V, c1, c2) \/ (c2 \in g[c1] /\ ~About(V, c1, c2))
      BY <1>3, <3>1, FulfilIs
    <3>3. c2 \in g[c1]
      BY <1>10, <1>11 DEF Powered
    <3> HIDE DEF h
    <3> QED BY <1>4, <1>11, <3>1, <3>2, <3>3 DEF Powered
  <2> HIDE DEF h
  <2>4. Does(<<s>>, h, f)
    BY <1>9, <2>1, <2>3 DEF Works
  <2> QED BY <2>1, <2>2, <2>4, DoesConcat
<1> QED BY <1>3, <1>6, <1>10 DEF Works, U

-----------------------------------------------------------------------------
(* gpio.c                                                                  *)

\* The shifts hit the field of their pin.
LEMMA Masks ==
    /\ \A pin \in 0..15, bits \in SUBSET (0..1) :
          /\ Shift(bits, pin * 2) = {2 * pin + i : i \in bits}
          /\ Shift(bits, pin * 2) \subseteq 0..31
    /\ \A pin \in 0..7, bits \in SUBSET (0..3) :
          /\ Shift(bits, pin * 4) = {4 * pin + i : i \in bits}
          /\ Shift(bits, pin * 4) \subseteq 0..31
    /\ \A pin \in 0..15, bits \in SUBSET {0} :
          /\ Shift(bits, pin) = {1 * pin + i : i \in bits}
          /\ Shift(bits, pin) \subseteq 0..31
<1>1. ASSUME NEW pin \in 0..15, NEW bits \in SUBSET (0..1)
      PROVE  {b + pin * 2 : b \in bits} \cap 0..31 = {2 * pin + i : i \in bits}
  <2>1. \A b \in bits : b + pin * 2 = 2 * pin + b /\ 2 * pin + b \in 0..31
    OBVIOUS
  <2> QED BY <2>1
<1>2. ASSUME NEW pin \in 0..7, NEW bits \in SUBSET (0..3)
      PROVE  {b + pin * 4 : b \in bits} \cap 0..31 = {4 * pin + i : i \in bits}
  <2>1. \A b \in bits : b + pin * 4 = 4 * pin + b /\ 4 * pin + b \in 0..31
    OBVIOUS
  <2> QED BY <2>1
<1>3. ASSUME NEW pin \in 0..15, NEW bits \in SUBSET {0}
      PROVE  {b + pin : b \in bits} \cap 0..31 = {1 * pin + i : i \in bits}
  <2>1. \A b \in bits : b + pin = 1 * pin + b /\ 1 * pin + b \in 0..31
    OBVIOUS
  <2> QED BY <2>1
<1> QED BY <1>1, <1>2, <1>3 DEF Shift

\* The functions that clear and set a field of two bits.
LEMMA TwoBitsWork ==
    ASSUME NEW port \in Ports, NEW name \in {"MODER", "OSPEEDR", "PUPDR"},
           NEW pin \in 0..15, NEW value \in SUBSET {0, 1},
           NEW C \in SUBSET Bit, ClockOf(port) \subseteq C
    PROVE  Works(Clear(<<port, name>>, Shift({0, 1}, pin * 2))
                   \o Set(<<port, name>>, Shift(value, pin * 2)), C,
                 {Want(<<port, name>>, 2, pin, value)})
<1> DEFINE r == <<port, name>>
           field == Shift({0, 1}, pin * 2)
           bits == Shift(value, pin * 2)
<1>1. r \in PinRegs /\ r[1] = port
  BY DEF PinRegs
<1>2. /\ {0, 1} = 0..1 /\ 2 - 1 = 1
      /\ field = {2 * pin + i : i \in 0..(2 - 1)} /\ bits = {2 * pin + i : i \in value}
      /\ field \in SUBSET (0..31)
  <2>1. {0, 1} = 0..1 /\ 2 - 1 = 1
    OBVIOUS
  <2>2. {0, 1} \in SUBSET (0..1) /\ value \in SUBSET (0..1)
    OBVIOUS
  <2> QED BY <2>1, <2>2, Masks
<1>3. bits \subseteq field
  <2>1. value \subseteq 0..(2 - 1)
    BY <1>2
  <2> HIDE DEF field, bits
  <2> QED BY <1>2, <2>1
<1>4. Want(r, 2, pin, value) = [reg |-> r, field |-> field, value |-> bits]
  BY <1>2 DEF Want
<1> HIDE DEF r, field, bits
<1>5. Works(Clear(r, field) \o Set(r, bits), C, {[reg |-> r, field |-> field, value |-> bits]})
  BY <1>1, <1>2, <1>3, WorksClearSet
<1> QED BY <1>4, <1>5 DEF r, field, bits

LEMMA SetModeWorks ==
    ASSUME NEW port \in Ports, NEW pin \in 0..15, NEW mode \in SUBSET {0, 1},
           NEW C \in SUBSET Bit, ClockOf(port) \subseteq C
    PROVE  Works(GPIO_Set_Mode(port, pin, mode), C, {Want(<<port, "MODER">>, 2, pin, mode)})
BY TwoBitsWork DEF GPIO_Set_Mode

LEMMA SetSpeedWorks ==
    ASSUME NEW port \in Ports, NEW pin \in 0..15, NEW speed \in SUBSET {0, 1},
           NEW C \in SUBSET Bit, ClockOf(port) \subseteq C
    PROVE  Works(GPIO_Set_OutputSpeed(port, pin, speed), C,
                 {Want(<<port, "OSPEEDR">>, 2, pin, speed)})
BY TwoBitsWork DEF GPIO_Set_OutputSpeed

LEMMA SetPullWorks ==
    ASSUME NEW port \in Ports, NEW pin \in 0..15, NEW pull \in SUBSET {0, 1},
           NEW C \in SUBSET Bit, ClockOf(port) \subseteq C
    PROVE  Works(GPIO_Set_Pull(port, pin, pull), C, {Want(<<port, "PUPDR">>, 2, pin, pull)})
BY TwoBitsWork DEF GPIO_Set_Pull

\* The bit of a mode that GPIO_Set_AF looks at.
ModeBit(port, pin) == <<<<port, "MODER">>, 2 * pin + 1>>

\* What GPIO_Set_AF does: the shifts miss AFRH.
AFField(port, pin, af) ==
    [reg |-> <<port, IF pin <= 7 THEN "AFRL" ELSE "AFRH">>,
     field |-> Shift(0..3, pin * 4), value |-> Shift(af, pin * 4)]

LEMMA AFFieldIs ==
    ASSUME NEW port, NEW pin \in 0..7, NEW af \in SUBSET (0..3)
    PROVE  AFField(port, pin, af) = WantAF(port, pin, af)
<1>1. pin < 8 /\ pin % 8 = pin /\ pin <= 7 /\ 4 - 1 = 3
  OBVIOUS
<1>2. 0..3 \in SUBSET (0..3)
  OBVIOUS
<1>3. /\ Shift(0..3, pin * 4) = {4 * pin + i : i \in 0..3}
      /\ Shift(af, pin * 4) = {4 * pin + i : i \in af}
  BY <1>2, Masks
<1>4. AFField(port, pin, af) =
        [reg |-> <<port, "AFRL">>, field |-> {4 * pin + i : i \in 0..3},
         value |-> {4 * pin + i : i \in af}]
  BY <1>1, <1>3 DEF AFField
<1>5. WantAF(port, pin, af) =
        [reg |-> <<port, "AFRL">>, field |-> {4 * pin + i : i \in 0..3},
         value |-> {4 * pin + i : i \in af}]
  BY <1>1 DEF WantAF, Want
<1> QED BY <1>4, <1>5

LEMMA SetAFWorks ==
    ASSUME NEW port \in Ports, NEW pin \in 0..15, NEW af \in SUBSET (0..3),
           NEW C \in SUBSET Bit, ClockOf(port) \subseteq C, ModeBit(port, pin) \in C
    PROVE  Works(GPIO_Set_AF(port, pin, af), C, {AFField(port, pin, af)})
<1> DEFINE afr == <<port, IF pin <= 7 THEN "AFRL" ELSE "AFRH">>
           moder == <<port, "MODER">>
           mask == Shift(GPIO_MODE_AF, pin * 2)
           no == GPIO_Set_Mode(port, pin, GPIO_MODE_AF)
           choice == [op |-> "if", reg |-> moder, bits |-> mask, yes |-> <<>>, no |-> no]
           field == Shift(0..3, pin * 4)
           bits == Shift(af, pin * 4)
           none == {}
           wish == [reg |-> afr, field |-> field, value |-> bits]
<1>1. /\ afr \in PinRegs /\ moder \in PinRegs /\ afr[1] = port /\ moder[1] = port
      /\ moder \in TrackedReg
  BY DEF PinRegs, TrackedReg, ConfReg, AskedReg
<1>2. mask = {2 * pin + 1} /\ 2 * pin + 1 \in 0..31
  <2>1. {1} \in SUBSET (0..1)
    OBVIOUS
  <2>2. Shift({1}, pin * 2) = {2 * pin + i : i \in {1}}
    BY ONLY <2>1, Masks
  <2> QED BY <2>2 DEF GPIO_MODE_AF
<1>3. field \in SUBSET (0..31) /\ bits \subseteq field
  BY DEF Shift
<1>4. AFField(port, pin, af) = wish
  BY DEF AFField
<1>5. GPIO_Set_AF(port, pin, af) = <<choice>> \o (Clear(afr, field) \o Set(afr, bits))
  <2>2. GPIO_Set_AF(port, pin, af) =
          If(moder, mask, <<>>, no) \o Clear(afr, field) \o Set(afr, bits)
    BY Zenon DEF GPIO_Set_AF
  <2>3. If(moder, mask, <<>>, no) = <<choice>>
    BY DEF If
  <2>4. /\ Clear(afr, field) = <<[op |-> "clear", reg |-> afr, bits |-> field]>>
        /\ Set(afr, bits) = <<[op |-> "set", reg |-> afr, bits |-> bits]>>
    BY DEF Clear, Set
  <2>5. \A x, y, z : (<<x>> \o <<y>>) \o <<z>> = <<x>> \o (<<y>> \o <<z>>)
    OBVIOUS
  <2> DEFINE i == If(moder, mask, <<>>, no)
             c == Clear(afr, field)
             t == Set(afr, bits)
  <2> HIDE DEF choice, i, c, t
  <2>6. GPIO_Set_AF(port, pin, af) = (i \o c) \o t
    BY ONLY <2>2 DEF i, c, t
  <2>7. (i \o c) \o t = i \o (c \o t)
    <3>1. PICK y, z : c = <<y>> /\ t = <<z>>
      BY <2>4 DEF c, t
    <3> QED BY <2>3, <2>5, <3>1 DEF i
  <2> QED BY <2>3, <2>6, <2>7 DEF i, c, t
<1>6. /\ choice \in Driving /\ choice.op = "if" /\ choice.yes = <<>>
      /\ choice.reg = moder /\ choice.bits = mask
  <2>1. no \in Seq(Setting) /\ <<>> \in Seq(Setting)
    <3>1. GPIO_MODE_AF \in SUBSET {0, 1}
      BY DEF GPIO_MODE_AF
    <3> QED BY <3>1, SetModeConfigures
  <2>2. mask \in SUBSET (0..31)
    BY <1>2
  <2> HIDE DEF no, mask, moder
  <2>3. choice \in Branching
    BY <1>1, <2>1, <2>2 DEF Branching
  <2>4. choice \in Driving
    BY <2>3 DEF Driving, Configuring
  <2> QED BY <2>4
<1>7. none \in Wishes /\ \A r, k : ~Wanted(none, r, k) /\ ~About(none, r, k)
  BY DEF Wishes, Wanted, About
<1> HIDE DEF choice, afr, moder, mask, field, bits, none
<1>8. Works(<<choice>>, C, none)
  <2>1. Needs(choice) \subseteq C
    <3>1. {moder} \X mask = {ModeBit(port, pin)}
      BY <1>2 DEF ModeBit, moder
    <3> QED BY <1>1, <1>6, <3>1 DEF Needs
  <2>2. \A r, k : ~Sets(choice, r, k) /\ ~Clears(choice, r, k)
    BY <1>6 DEF Sets, Clears
  <2> QED BY <1>6, <1>7, <2>1, <2>2, WorksOne
<1>9. Works(Clear(afr, field) \o Set(afr, bits), C, {wish})
  BY <1>1, <1>3, WorksClearSet
<1>10. Agree(none, {wish})
  BY DEF Agree, none
<1> HIDE DEF wish
<1>11. Works(<<choice>> \o (Clear(afr, field) \o Set(afr, bits)), C, none \cup {wish})
  BY <1>7, <1>8, <1>9, <1>10, WorksConcat
<1> QED BY <1>4, <1>5, <1>11 DEF none

\* A pin becomes that of an alternate function.
LEMMA AlternateWorks ==
    ASSUME NEW port \in Ports, NEW pin \in 0..15, NEW mode \in {GPIO_MODE_AF, GPIO_MODE_ANALOG},
           NEW af \in SUBSET (0..3),
           NEW C \in SUBSET (RccReg \X (0..31)), ClockOf(port) \subseteq C
    PROVE  Works(GPIO_Set_Mode(port, pin, mode) \o GPIO_Set_AF(port, pin, af), C,
                 {Want(<<port, "MODER">>, 2, pin, mode), AFField(port, pin, af)})
<1> DEFINE D == C \cup {ModeBit(port, pin)}
           m == Want(<<port, "MODER">>, 2, pin, mode)
           w == AFField(port, pin, af)
<1>1. mode \in SUBSET {0, 1} /\ 1 \in mode
  BY DEF GPIO_MODE_AF, GPIO_MODE_ANALOG
<1>2. C \in SUBSET Bit /\ D \in SUBSET Bit
  <2>1. RccReg \subseteq TrackedReg /\ <<port, "MODER">> \in TrackedReg /\ 2 * pin + 1 \in 0..31
    BY DEF TrackedReg, ConfReg, AskedReg, PinRegs
  <2> QED BY <2>1 DEF Bit, ModeBit
<1>3. Works(GPIO_Set_Mode(port, pin, mode), C, {m})
  BY <1>1, <1>2, SetModeWorks
<1>4. Works(GPIO_Set_AF(port, pin, af), D, {w})
  BY <1>2, SetAFWorks
<1>5. m.reg = <<port, "MODER">> /\ w.reg \in {<<port, "AFRL">>, <<port, "AFRH">>} /\ 2 * pin + 1 \in m.value
  BY <1>1 DEF Want, AFField
<1>6. Agree({m}, {w})
  BY <1>5 DEF Agree
<1>7. ASSUME NEW c \in D
      PROVE  (c \in C /\ ~About({m}, c[1], c[2])) \/ Wanted({m}, c[1], c[2])
  <2>1. CASE c \in C
    <3>1. c[1] \in RccReg
      BY <2>1
    <3>2. c[1][1] = "RCC" /\ port # "RCC"
      BY <3>1, HalAssumption DEF RccReg, Clock
    <3>3. c[1] # m.reg
      BY <1>5, <3>2
    <3> QED BY <2>1, <3>3 DEF About
  <2>2. CASE c = ModeBit(port, pin)
    BY <1>5, <2>2 DEF Wanted, ModeBit
  <2> QED BY <2>1, <2>2
<1> HIDE DEF D, m, w
<1>8. Works(GPIO_Set_Mode(port, pin, mode) \o GPIO_Set_AF(port, pin, af), C, {m} \cup {w})
  BY <1>2, <1>3, <1>4, <1>6, <1>7, WorksConcat
<1> QED BY <1>8 DEF m, w

-----------------------------------------------------------------------------
(* usart.c, rcc.c, nvic.c, exti.c                                          *)

\* Two functions that need the same bits, which the first leaves alone.
LEMMA WorksThen ==
    ASSUME NEW s, NEW a, NEW C \in SUBSET Bit, NEW V, NEW W,
           Works(s, C, V), Works(a, C, W), Agree(V, W),
           \A c \in C : ~About(V, c[1], c[2])
    PROVE  Works(s \o a, C, V \cup W)
BY WorksConcat

LEMMA WorksMore ==
    ASSUME NEW s, NEW C, NEW D, NEW W, Works(s, C, W), C \subseteq D
    PROVE  Works(s, D, W)
BY DEF Works, Powered

LEMMA WorksNothing == \A C : Works(<<>>, C, {})
<1> DEFINE s == <<>>
           none == {}
<1>1. none \in Wishes
  BY DEF Wishes
<1>2. \A g \in Values : Does(s, g, g) /\ Fulfil(g, none) = g
  BY DoesNothing, FulfilNone
<1> HIDE DEF s, none
<1>3. \A C : Works(s, C, none)
  BY <1>1, <1>2 DEF Works
<1> QED BY <1>3 DEF s, none

LEMMA WorksWhen ==
    ASSUME NEW c, NEW s, NEW C, NEW W, Works(s, C, W)
    PROVE  Works(When(c, s), C, IF c THEN W ELSE {})
<1>1. CASE c
  BY <1>1 DEF When
<1>2. CASE ~c
  <2>1. When(c, s) = <<>> /\ (IF c THEN W ELSE {}) = {}
    BY <1>2 DEF When
  <2> QED BY <2>1, WorksNothing
<1> QED BY <1>1, <1>2

\* Accesses to registers of one peripheral that are not tracked.
Elsewhere(u) == {a \in Driving : a.op # "if" /\ a.reg \notin TrackedReg /\ a.reg[1] = u}

LEMMA WorksSeqElsewhere ==
    ASSUME NEW u, NEW s \in Seq(Elsewhere(u)), NEW C \in SUBSET Bit, ClockOf(u) \subseteq C
    PROVE  Works(s, C, {})
<1> DEFINE none == {}
<1>1. none \in Wishes /\ \A g \in Values : Fulfil(g, none) = g
  BY FulfilNone DEF Wishes
<1>2. s \in Seq(Driving)
  <2>1. Elsewhere(u) \subseteq Driving
    BY DEF Elsewhere
  <2> QED BY <2>1, SeqMonotonic
<1>3. Len(s) \in Nat /\ \A i \in 1..Len(s) : s[i] \in Elsewhere(u)
  OBVIOUS
<1>4. ASSUME NEW g \in Values, NEW r \in TrackedReg, NEW i \in 0..Len(s)
      PROVE  After(s, i, r, g[r]) = g[r]
  <2>1. \A j \in 1..i : \A k : ~Sets(s[j], r, k) /\ ~Clears(s[j], r, k)
    BY <1>3 DEF Elsewhere, Sets, Clears
  <2>2. g[r] \subseteq 0..31
    BY DEF Values
  <2>3. \A k \in 0..31 : k \in After(s, i, r, g[r]) <=> k \in g[r]
    BY <2>1 DEF After
  <2>4. After(s, i, r, g[r]) \subseteq 0..31
    BY DEF After
  <2> QED BY <2>2, <2>3, <2>4
<1>5. ASSUME NEW g \in Values, Powered(C, g) PROVE Ready(s, g)
  <2> SUFFICES ASSUME NEW i \in 1..Len(s)
               PROVE  /\ s[i].op = "if" => s[i].yes = <<>>
                      /\ \A n \in Needs(s[i]) :
                           n[1] \in TrackedReg /\ n[2] \in After(s, i - 1, n[1], g[n[1]])
    BY DEF Ready
  <2>1. s[i].op # "if" /\ Needs(s[i]) = ClockOf(u)
    BY <1>3 DEF Elsewhere, Needs
  <2>2. \A n \in ClockOf(u) : n[1] \in TrackedReg /\ n[2] \in g[n[1]]
    BY <1>5 DEF Powered, Bit
  <2>3. i - 1 \in 0..Len(s)
    BY <1>3
  <2> QED BY <1>4, <2>1, <2>2, <2>3
<1> HIDE DEF none
<1>6. ASSUME NEW g \in Values, Powered(C, g) PROVE Does(s, g, Fulfil(g, none))
  <2>1. \A r \in TrackedReg : After(s, Len(s), r, g[r]) = g[r]
    <3>1. Len(s) \in 0..Len(s)
      BY <1>3
    <3> QED BY <1>4, <3>1
  <2> QED BY <1>1, <1>2, <1>5, <1>6, <2>1 DEF Does
<1>7. Works(s, C, none)
  BY <1>1, <1>6 DEF Works
<1> QED BY <1>7 DEF none

\* An access that makes some bits of a register 1, or all others 0 too.
LEMMA SetWorks ==
    ASSUME NEW op, NEW r \in TrackedReg, NEW bits \in SUBSET (0..31),
           op = "set" \/ (op = "write" /\ r[1] = "NVIC"),
           [op |-> op, reg |-> r, bits |-> bits] \in Driving,
           NEW C \in SUBSET Bit, ClockOf(r[1]) \subseteq C
    PROVE  Works(<<[op |-> op, reg |-> r, bits |-> bits]>>, C,
                 {[reg |-> r, field |-> bits, value |-> bits]})
<1> DEFINE a == [op |-> op, reg |-> r, bits |-> bits]
           W == {[reg |-> r, field |-> bits, value |-> bits]}
<1>1. a.op = op /\ a.reg = r /\ a.bits = bits
  OBVIOUS
<1>2. W \in Wishes
  BY DEF Wishes, Wish
<1>3. /\ \A q, k : Wanted(W, q, k) <=> q = r /\ k \in bits
      /\ \A q, k : About(W, q, k) <=> q = r /\ k \in bits
  BY DEF Wanted, About
<1> HIDE DEF a, W
<1>4. a.op # "if" /\ Needs(a) \subseteq C
  BY <1>1 DEF Needs
<1>5. \A q, k : /\ Sets(a, q, k) <=> q = r /\ k \in bits
                /\ ~Clears(a, q, k)
  BY <1>1 DEF Sets, Clears
<1>6. \A q \in TrackedReg : \A k \in 0..31 :
        /\ Sets(a, q, k) <=> Wanted(W, q, k)
        /\ Wanted(W, q, k) \/ (Clears(a, q, k) <=> About(W, q, k))
  BY <1>3, <1>5
<1>7. a \in Driving
  BY DEF a
<1>8. Works(<<a>>, C, W)
  BY <1>2, <1>4, <1>6, <1>7, WorksOne
<1> QED BY <1>8 DEF a, W

LEMMA WriteWorks ==
    ASSUME NEW r \in TrackedReg, NEW bits \in SUBSET (0..31), r[1] # "NVIC",
           [op |-> "write", reg |-> r, bits |-> bits] \in Driving,
           NEW C \in SUBSET Bit, ClockOf(r[1]) \subseteq C
    PROVE  Works(<<[op |-> "write", reg |-> r, bits |-> bits]>>, C,
                 {[reg |-> r, field |-> 0..31, value |-> bits]})
<1> DEFINE a == [op |-> "write", reg |-> r, bits |-> bits]
           W == {[reg |-> r, field |-> 0..31, value |-> bits]}
<1>1. a.op = "write" /\ a.reg = r /\ a.bits = bits
  OBVIOUS
<1>2. W \in Wishes
  <2>1. 0..31 \in SUBSET (0..31)
    OBVIOUS
  <2> DEFINE wish == [reg |-> r, field |-> 0..31, value |-> bits]
  <2>2. wish \in Wish /\ wish.value \subseteq wish.field
    BY <2>1 DEF Wish
  <2> HIDE DEF wish
  <2>3. {wish} \in Wishes
    BY <2>2 DEF Wishes
  <2> QED BY <2>3 DEF wish
<1>3. /\ \A q, k : Wanted(W, q, k) <=> q = r /\ k \in bits
      /\ \A q, k : About(W, q, k) <=> q = r /\ k \in 0..31
  BY DEF Wanted, About
<1> HIDE DEF a, W
<1>4. a.op # "if" /\ Needs(a) \subseteq C
  BY <1>1 DEF Needs
<1>5. \A q, k : /\ Sets(a, q, k) <=> q = r /\ k \in bits
                /\ Clears(a, q, k) <=> q = r /\ k \notin bits
  BY <1>1 DEF Sets, Clears
<1>6. \A q \in TrackedReg : \A k \in 0..31 :
        /\ Sets(a, q, k) <=> Wanted(W, q, k)
        /\ Wanted(W, q, k) \/ (Clears(a, q, k) <=> About(W, q, k))
  BY <1>3, <1>5
<1>7. a \in Driving
  BY DEF a
<1>8. Works(<<a>>, C, W)
  BY <1>2, <1>4, <1>6, <1>7, WorksOne
<1> QED BY <1>8 DEF a, W

LEMMA NVICWorks ==
    ASSUME NEW irqn \in 0..95, NEW C \in SUBSET Bit
    PROVE  Works(NVIC_EnableIRQ(irqn), C, {Want(ISER(irqn), 1, irqn % 32, {0})})
<1> DEFINE r == ISER(irqn)
           b == irqn % 32
<1>1. r \in LineRegs /\ r[1] = "NVIC" /\ b \in 0..31 /\ irqn >= 0
  <2>1. irqn \div 32 \in {0, 1, 2} /\ 0 \div 32 = 0 /\ 32 \div 32 = 1 /\ 64 \div 32 = 2
    OBVIOUS
  <2>2. ISER(irqn) \in {ISER(0), ISER(32), ISER(64)}
    BY <2>1 DEF ISER
  <2>3. ISER(irqn)[1] = "NVIC"
    BY DEF ISER
  <2> QED BY <2>2, <2>3 DEF LineRegs
<1>2. {1 * b + i : i \in 0..(1 - 1)} = {b} /\ {1 * b + i : i \in {0}} = {b}
  <2>1. 0..(1 - 1) = {0} /\ 1 * b + 0 = b
    BY <1>1
  <2> HIDE DEF b
  <2> QED BY <2>1
<1>3. Want(r, 1, b, {0}) = [reg |-> r, field |-> {b}, value |-> {b}]
  <2> HIDE DEF r, b
  <2> QED BY <1>2 DEF Want
<1>4. NVIC_EnableIRQ(irqn) = <<[op |-> "write", reg |-> r, bits |-> {b}]>>
  BY <1>1 DEF NVIC_EnableIRQ, When, Write
<1>5. r \in TrackedReg /\ {b} \in SUBSET (0..31)
  BY <1>1 DEF TrackedReg, ConfReg, AskedReg
<1>6. [op |-> "write", reg |-> r, bits |-> {b}] \in Driving
  <2> HIDE DEF r, b
  <2>1. [op |-> "write", reg |-> r, bits |-> {b}] \in Configuring
    BY <1>1, <1>5 DEF Configuring
  <2> QED BY <2>1 DEF Driving
<1>7. ClockOf(r[1]) \subseteq C
  <2>1. "NVIC" \notin (DOMAIN Clock) \cup (DOMAIN Usart)
    BY UsartFacts DEF Clock
  <2> QED BY <1>1, <2>1, ClockOfIs
<1>8. Works(<<[op |-> "write", reg |-> r, bits |-> {b}]>>, C,
            {[reg |-> r, field |-> {b}, value |-> {b}]})
  <2> HIDE DEF r, b
  <2> QED BY <1>1, <1>5, <1>6, <1>7, SetWorks
<1> QED BY <1>3, <1>4, <1>8

\* The clock bit of a USART.
UsartClock(u) == <<Usart[u].enr, Usart[u].clock>>

LEMMA UsartClockIs ==
    ASSUME NEW u \in DOMAIN Usart
    PROVE  ClockOf(u) = {UsartClock(u)} /\ UsartClock(u) \in Bit
<1>1. Usart[u].enr \in TrackedReg /\ Usart[u].clock \in 0..31
  BY UsartFacts DEF TrackedReg
<1> QED BY <1>1, ClockOfIs DEF UsartClock, Bit

\* The interrupts of a USART that is to use them.
IrqWishes(init) ==
    {w \in {Want(ISER(Usart[init.usartx].irqn), 1, Usart[init.usartx].irqn % 32, {0})} :
       init.transmit_interrupts_en \/ init.receive_interrupts_en}

LEMMA EnableWorks ==
    ASSUME NEW init \in InitStructs
    PROVE  Works(Enable(init), {UsartClock(init.usartx)}, IrqWishes(init))
<1> DEFINE u == init.usartx
           R(name) == <<init.usartx, name>>
           CR1 == R("CR1")
           irqn == Usart[init.usartx].irqn
           C == {UsartClock(init.usartx)}
           w == Want(ISER(irqn), 1, irqn % 32, {0})
           X == Elsewhere(u)
<1>1. u \in DOMAIN Usart /\ irqn \in 0..95
  BY StructFacts, UsartFacts
<1>2. C \in SUBSET Bit /\ ClockOf(u) \subseteq C
  BY <1>1, UsartClockIs
<1>3. ASSUME NEW name \in {"CR1", "CR2", "CR3"}, NEW bits \in SUBSET (0..31)
      PROVE  Write(R(name), bits) \in Seq(X) /\ Set(R(name), bits) \in Seq(X)
  <2>1. R(name) \in UsartReg /\ R(name)[1] = u /\ R(name)[2] = name
    BY <1>1 DEF UsartReg
  <2>2. R(name) \notin TrackedReg
    <3>1. u \notin Ports /\ u \notin {"EXTI", "NVIC", "RCC"}
      BY <1>1, UsartFacts, HalAssumption DEF Clock
    <3>2. \A i \in {0, 32, 64} : ISER(i)[1] = "NVIC"
      BY DEF ISER
    <3> HIDE DEF u, R
    <3> QED BY <2>1, <3>1, <3>2 DEF TrackedReg, ConfReg, AskedReg, BrrReg, PinRegs, LineRegs, RccReg
  <2> HIDE DEF R, u
  <2>3. /\ [op |-> "write", reg |-> R(name), bits |-> bits] \in Driving
        /\ [op |-> "set", reg |-> R(name), bits |-> bits] \in Driving
    <3>1. /\ [op |-> "write", reg |-> R(name), bits |-> bits] \in Configuring
          /\ [op |-> "set", reg |-> R(name), bits |-> bits] \in Configuring
      BY <2>1 DEF Configuring
    <3> QED BY <3>1 DEF Driving
  <2>4. /\ [op |-> "write", reg |-> R(name), bits |-> bits] \in X
        /\ [op |-> "set", reg |-> R(name), bits |-> bits] \in X
    BY <2>1, <2>2, <2>3 DEF Elsewhere
  <2> QED BY <2>4 DEF Write, Set
<1> DEFINE e1 == Write(CR1, {})
           e2 == Write(R("CR2"), {})
           e3 == Write(R("CR3"), {})
           e4 == Set(CR1, {13})
           e5 == When(init.transmit_en, Set(CR1, {3}))
           e6 == When(init.receive_en, Set(CR1, {2}))
           n == NVIC_EnableIRQ(irqn)
           e7 == When(init.transmit_interrupts_en, Set(CR1, {6}) \o n)
           e8 == When(init.receive_interrupts_en, Set(CR1, {5}) \o n)
           d == e1 \o e2 \o e3 \o e4 \o e5 \o e6
           none == {}
           W7 == IF init.transmit_interrupts_en THEN {w} ELSE {}
           W8 == IF init.receive_interrupts_en THEN {w} ELSE {}
<1>4. /\ e1 \in Seq(X) /\ e2 \in Seq(X) /\ e3 \in Seq(X)
      /\ \A b \in {2, 3, 5, 6, 13} : Set(CR1, {b}) \in Seq(X)
  <2>1. {} \in SUBSET (0..31) /\ \A b \in {2, 3, 5, 6, 13} : {b} \in SUBSET (0..31)
    OBVIOUS
  <2> HIDE DEF X, R
  <2> QED BY <1>3, <2>1
<1>5. e4 \in Seq(X) /\ e5 \in Seq(X) /\ e6 \in Seq(X)
  <2> HIDE DEF X
  <2>1. \A c : \A s \in Seq(X) : When(c, s) \in Seq(X)
    BY DEF When
  <2> QED BY <1>4, <2>1
<1>6. d \in Seq(X)
  <2> HIDE DEF X, e1, e2, e3, e4, e5, e6
  <2> QED BY <1>4, <1>5
<1>7. Enable(init) = d \o e7 \o e8
  BY Zenon DEF Enable
<1>8. Works(d, C, none)
  <2> HIDE DEF d, C, u
  <2> QED BY <1>2, <1>6, WorksSeqElsewhere
<1>9. Works(n, C, {w})
  BY <1>1, <1>2, NVICWorks
<1>10. /\ \A V : Agree(none, V) /\ \A r, k : ~About(none, r, k)
       /\ none \cup {w} = {w}
  BY DEF Agree, About
<1>11. \A c \in C : ~About({w}, c[1], c[2])
  <2>1. w.reg[1] = "NVIC"
    BY DEF Want, ISER
  <2>2. \A c \in C : c[1][1] = "RCC"
    BY <1>1, UsartFacts DEF UsartClock, RccReg
  <2> HIDE DEF w, C
  <2> QED BY <2>1, <2>2 DEF About
<1> HIDE DEF none, w, C, X
<1>12. ASSUME NEW b \in {5, 6} PROVE Works(Set(CR1, {b}) \o n, C, {w})
  <2> DEFINE s == Set(CR1, {b})
  <2>1. s \in Seq(X)
    BY <1>4
  <2> HIDE DEF s, n, u
  <2>2. Works(s, C, none)
    BY <1>2, <2>1, WorksSeqElsewhere DEF X, none
  <2>3. Works(s \o n, C, none \cup {w})
    BY <1>2, <1>9, <1>10, <2>2, WorksThen
  <2> QED BY <1>10, <2>3 DEF s
<1>13. Works(e7, C, W7) /\ Works(e8, C, W8)
  <2> DEFINE s7 == Set(CR1, {6}) \o n
             s8 == Set(CR1, {5}) \o n
  <2>1. Works(s7, C, {w}) /\ Works(s8, C, {w})
    BY <1>12
  <2> DEFINE V == {w}
             t == init.transmit_interrupts_en
             r == init.receive_interrupts_en
  <2> HIDE DEF s7, s8, V, t, r
  <2>2. Works(s7, C, V) /\ Works(s8, C, V)
    BY <2>1 DEF V
  <2>3. Works(When(t, s7), C, IF t THEN V ELSE {})
    BY <2>2, WorksWhen
  <2>4. Works(When(r, s8), C, IF r THEN V ELSE {})
    BY <2>2, WorksWhen
  <2> QED BY <2>3, <2>4 DEF s7, s8, V, t, r
<1>14. /\ Agree(W7, W8) /\ W7 \subseteq {w} /\ W8 \subseteq {w}
       /\ W7 \cup W8 = IrqWishes(init) /\ none \cup W7 = W7
  BY DEF Agree, IrqWishes, none, w
<1>15. \A c \in C : ~About(W7, c[1], c[2])
  BY <1>11, <1>14 DEF About
<1> HIDE DEF d, e7, e8, W7, W8
<1>16. Works(d \o e7, C, none \cup W7)
  BY <1>2, <1>8, <1>10, <1>13, WorksThen
<1>17. Works((d \o e7) \o e8, C, W7 \cup W8)
  <2>1. Works(d \o e7, C, W7)
    BY <1>14, <1>16
  <2> DEFINE s == d \o e7
  <2> HIDE DEF s
  <2>2. Works(s \o e8, C, W7 \cup W8)
    BY <1>2, <1>13, <1>14, <1>15, <2>1, WorksThen DEF s
  <2> QED BY <2>2 DEF s
<1> QED BY <1>7, <1>14, <1>17 DEF C

LEMMA TransmitWorks ==
    ASSUME NEW u \in DOMAIN Usart, NEW C \in SUBSET Bit, UsartClock(u) \in C
    PROVE  Works(USART_Transmit(u, Greeting), C, {})
<1>1. USART_Transmit(u, Greeting) \in Seq(SendByte(u, Byte) \cup SendWait(u))
  BY MessageFacts, TransmitIs
<1>2. SendByte(u, Byte) \cup SendWait(u) \subseteq Elsewhere(u)
  <2>1. SendByte(u, Byte) \cup SendWait(u) \subseteq Driving
    BY DEF Driving
  <2>2. <<u, "DR">> \notin TrackedReg /\ <<u, "SR">> \notin TrackedReg
    <3>1. u \notin Ports /\ u \notin {"EXTI", "NVIC", "RCC"}
      BY UsartFacts, HalAssumption DEF Clock
    <3>2. \A i \in {0, 32, 64} : ISER(i)[1] = "NVIC"
      BY DEF ISER
    <3> QED BY <3>1, <3>2 DEF TrackedReg, ConfReg, AskedReg, BrrReg, PinRegs, LineRegs, RccReg
  <2>3. \A a \in SendByte(u, Byte) \cup SendWait(u) :
          a.op # "if" /\ a.reg \in {<<u, "DR">>, <<u, "SR">>}
    BY DEF SendByte, SendWait
  <2> QED BY <2>1, <2>2, <2>3 DEF Elsewhere
<1>3. USART_Transmit(u, Greeting) \in Seq(Elsewhere(u))
  BY <1>1, <1>2, SeqMonotonic
<1>4. ClockOf(u) \subseteq C
  BY UsartClockIs
<1> QED BY <1>3, <1>4, WorksSeqElsewhere

\* The wish for a clock.
ClockWish(r, b) == [reg |-> r, field |-> {b}, value |-> {b}]

LEMMA ClockWorks ==
    ASSUME NEW r \in RccReg, NEW b \in 0..31, NEW C \in SUBSET Bit
    PROVE  Works(Set(r, {b}), C, {ClockWish(r, b)})
<1>1. r \in TrackedReg /\ r[1] = "RCC" /\ {b} \in SUBSET (0..31)
  BY DEF TrackedReg, RccReg
<1>2. ClockOf(r[1]) \subseteq C
  <2>1. "RCC" \notin (DOMAIN Clock) \cup (DOMAIN Usart)
    BY UsartFacts DEF Clock
  <2> QED BY <1>1, <2>1, ClockOfIs
<1>3. [op |-> "set", reg |-> r, bits |-> {b}] \in Driving
  <2>1. [op |-> "set", reg |-> r, bits |-> {b}] \in Configuring
    BY <1>1 DEF Configuring
  <2> QED BY <2>1 DEF Driving
<1>4. Works(<<[op |-> "set", reg |-> r, bits |-> {b}]>>, C,
            {[reg |-> r, field |-> {b}, value |-> {b}]})
  BY <1>1, <1>2, <1>3, SetWorks
<1> QED BY <1>4 DEF Set, ClockWish

\* The clocks of the ports that Clock names, and of port H.
PortClocks == {<<AHB1ENR, b>> : b \in 0..3}
ClocksOn   == {ClockWish(AHB1ENR, b) : b \in {0, 1, 2, 3, 7}}

LEMMA PortClocksWanted ==
    /\ PortClocks \in SUBSET Bit
    /\ \A port \in Ports : ClockOf(port) \subseteq PortClocks
    /\ \A c \in PortClocks : Wanted(ClocksOn, c[1], c[2])
<1>1. AHB1ENR \in TrackedReg
  BY DEF TrackedReg, RccReg, AHB1ENR
<1>2. PortClocks \in SUBSET Bit
  BY <1>1 DEF PortClocks, Bit
<1>3. \A port \in Ports : port \in DOMAIN Clock /\ Clock[port] \in 0..3
  BY HalAssumption DEF Clock
<1>4. \A port \in Ports : ClockOf(port) \subseteq PortClocks
  BY <1>3, ClockOfIs DEF PortClocks
<1>5. \A b \in 0..3 : Wanted(ClocksOn, AHB1ENR, b)
  <2>1. ASSUME NEW b \in 0..3 PROVE Wanted(ClocksOn, AHB1ENR, b)
    <3> DEFINE w == ClockWish(AHB1ENR, b)
    <3>1. w \in ClocksOn
      BY DEF ClocksOn
    <3>2. w.reg = AHB1ENR /\ b \in w.value
      BY DEF ClockWish
    <3> HIDE DEF w
    <3> QED BY <3>1, <3>2 DEF Wanted
  <2> QED BY <2>1
<1> QED BY <1>2, <1>4, <1>5 DEF PortClocks

LEMMA ClockInitWorks == Works(GPIO_Clock_Init, {}, ClocksOn)
<1> DEFINE w(b) == ClockWish(AHB1ENR, b)
           On(b) == Set(AHB1ENR, {b})
           C == {}
<1>1. AHB1ENR \in RccReg /\ C \in SUBSET Bit
  BY DEF AHB1ENR, RccReg
<1>2. GPIO_Clock_Init = On(0) \o On(1) \o On(2) \o On(3) \o On(7)
  BY Zenon DEF GPIO_Clock_Init, AHB1ENR
<1>3. \A b, c \in 0..31 : b # c => w(b).field \cap w(c).field = {}
  BY DEF ClockWish
<1> HIDE DEF On, w, C
<1>4. /\ Works(On(0), C, {w(0)}) /\ Works(On(1), C, {w(1)}) /\ Works(On(2), C, {w(2)})
      /\ Works(On(3), C, {w(3)}) /\ Works(On(7), C, {w(7)})
  <2>1. ASSUME NEW b \in 0..31 PROVE Works(On(b), C, {w(b)})
    BY <1>1, ClockWorks DEF On, w
  <2> QED BY <2>1
<1> DEFINE Others(V, b) == \A v \in V : \E c \in 0..31 : c # b /\ v = w(c)
<1>5. ASSUME NEW s, NEW V, Works(s, C, V), NEW b \in 0..31, Others(V, b)
      PROVE  Works(s \o On(b), C, V \cup {w(b)})
  <2>1. Works(On(b), C, {w(b)})
    BY <1>1, ClockWorks DEF On, w
  <2>2. Agree(V, {w(b)})
    BY <1>3, <1>5 DEF Agree
  <2>3. \A c \in C : ~About(V, c[1], c[2])
    BY DEF C
  <2> QED BY <1>1, <1>5, <2>1, <2>2, <2>3, WorksThen
<1> DEFINE V0 == {w(0)}
           V1 == V0 \cup {w(1)}
           V2 == V1 \cup {w(2)}
           V3 == V2 \cup {w(3)}
           s1 == On(0) \o On(1)
           s2 == s1 \o On(2)
           s3 == s2 \o On(3)
<1>6. Others(V0, 1) /\ Others(V1, 2) /\ Others(V2, 3) /\ Others(V3, 7)
  OBVIOUS
<1>7. V3 \cup {w(7)} = ClocksOn
  BY DEF ClocksOn, w
<1>8. Works(On(0), C, V0) /\ 1 \in 0..31 /\ 2 \in 0..31 /\ 3 \in 0..31 /\ 7 \in 0..31
  BY <1>4
<1> HIDE DEF V0, Others
<1>9. Works(s1, C, V1)
  BY <1>5, <1>6, <1>8
<1> HIDE DEF V1, s1
<1>10. Works(s2, C, V2)
  BY <1>5, <1>6, <1>8, <1>9
<1> HIDE DEF V2, s2
<1>11. Works(s3, C, V3)
  BY <1>5, <1>6, <1>8, <1>10
<1> HIDE DEF V3, s3
<1>12. Works(s3 \o On(7), C, V3 \cup {w(7)})
  BY <1>5, <1>6, <1>8, <1>11
<1> QED BY <1>2, <1>7, <1>12 DEF C, s1, s2, s3

-----------------------------------------------------------------------------
(* main.                                                                   *)

\* The wishes of V are about peripherals of P.
Within(V, P) == \A w \in V : w.reg[1] \in P

LEMMA WithinApart ==
    ASSUME NEW P, NEW Q, P \cap Q = {}, NEW V, NEW W, Within(V, P), Within(W, Q)
    PROVE  Agree(V, W)
BY DEF Within, Agree

LEMMA WithinAbout ==
    ASSUME NEW P, NEW V, Within(V, P), NEW r, r[1] \notin P, NEW k
    PROVE  ~About(V, r, k)
BY DEF Within, About

LEMMA AgreeBoth ==
    /\ \A U, V, W : Agree(U, W) /\ Agree(V, W) => Agree(U \cup V, W)
    /\ \A U, V, W : Agree(U, V) /\ Agree(U, W) => Agree(U, V \cup W)
BY DEF Agree

LEMMA AboutBoth ==
    \A V, W, r, k : /\ About(V \cup W, r, k) <=> About(V, r, k) \/ About(W, r, k)
                    /\ Wanted(V \cup W, r, k) <=> Wanted(V, r, k) \/ Wanted(W, r, k)
BY DEF About, Wanted

PinWishes(port, pin, mode, af) ==
    {Want(<<port, "MODER">>, 2, pin, mode), AFField(port, pin, af)}

LEMMA PinsApart ==
    ASSUME NEW p, NEW i \in 0..15, NEW q, NEW j \in 0..15, <<p, i>> # <<q, j>>,
           NEW m, NEW n, NEW e, NEW f
    PROVE  /\ Agree(PinWishes(p, i, m, e), PinWishes(q, j, n, f))
           /\ Agree({Want(<<p, "MODER">>, 2, i, m)}, PinWishes(q, j, n, f))
           /\ Agree({Want(<<p, "MODER">>, 2, i, m)}, {Want(<<q, "MODER">>, 2, j, n)})
<1> DEFINE v == Want(<<p, "MODER">>, 2, i, m)
           w == Want(<<q, "MODER">>, 2, j, n)
           x == AFField(p, i, e)
           y == AFField(q, j, f)
<1>1. /\ v.reg = <<p, "MODER">> /\ w.reg = <<q, "MODER">>
      /\ x.reg \in {<<p, "AFRL">>, <<p, "AFRH">>} /\ y.reg \in {<<q, "AFRL">>, <<q, "AFRH">>}
  BY DEF Want, AFField
<1>2. v.reg # y.reg /\ w.reg # x.reg
  BY <1>1
<1>3. CASE p # q
  <2>1. v.reg # w.reg /\ x.reg # y.reg
    BY <1>1, <1>3
  <2> HIDE DEF v, w, x, y
  <2> QED BY <1>2, <2>1 DEF Agree, PinWishes, v, w, x, y
<1>4. CASE i # j
  <2>1. v.field \cap w.field = {}
    <3>1. v.field = {2 * i + k : k \in 0..(2 - 1)} /\ w.field = {2 * j + k : k \in 0..(2 - 1)}
      BY DEF Want
    <3>2. \A k, l \in 0..(2 - 1) : 2 * i + k # 2 * j + l
      BY <1>4
    <3> HIDE DEF v, w
    <3> QED BY <3>1, <3>2
  <2>2. x.field \cap y.field = {}
    <3>1. x.field \subseteq {k + i * 4 : k \in 0..3} /\ y.field \subseteq {k + j * 4 : k \in 0..3}
      BY DEF AFField, Shift
    <3>2. \A k, l \in 0..3 : k + i * 4 # l + j * 4
      BY <1>4
    <3> HIDE DEF x, y
    <3> QED BY <3>1, <3>2
  <2> HIDE DEF v, w, x, y
  <2> QED BY <1>2, <2>1, <2>2 DEF Agree, PinWishes, v, w, x, y
<1> QED BY <1>3, <1>4

\* What USART_Init fulfils: what main wants of it, a clock and a divider.
Divider(init) == Bits(UART_BRR_SAMPLING16(init.sys_freq, init.baud_rate))
BrrWishes(init) ==
    {[reg |-> <<init.usartx, "BRR">>, field |-> 0..31, value |-> Divider(init)]}
UsartPins(init) ==
    LET u == Usart[init.usartx]
    IN  PinWishes(u.txPort, u.tx, GPIO_MODE_AF, u.af)
          \cup PinWishes(u.rxPort, u.rx, GPIO_MODE_AF, u.af)
UsartDone(init) ==
    {ClockWish(Usart[init.usartx].enr, Usart[init.usartx].clock)}
      \cup UsartPins(init) \cup IrqWishes(init) \cup BrrWishes(init)

LEMMA UsartPinFacts ==
    ASSUME NEW u \in DOMAIN Usart
    PROVE  /\ <<Usart[u].txPort, Usart[u].tx>> # <<Usart[u].rxPort, Usart[u].rx>>
           /\ Usart[u].enr # AHB1ENR
BY UsartFacts DEF Usart, Pins, AHB1ENR

LEMMA PeripheralsApart ==
    /\ Ports \cap {"RCC"} = {} /\ Ports \cap {"NVIC"} = {} /\ Ports \cap (DOMAIN Usart) = {}
    /\ {"RCC"} \cap {"NVIC"} = {} /\ {"RCC"} \cap (DOMAIN Usart) = {}
    /\ {"NVIC"} \cap (DOMAIN Usart) = {}
BY UsartFacts, HalAssumption DEF Clock

LEMMA WithinFacts ==
    ASSUME NEW init \in InitStructs
    PROVE  /\ Within({ClockWish(Usart[init.usartx].enr, Usart[init.usartx].clock)}, {"RCC"})
           /\ Within(UsartPins(init), Ports)
           /\ Within(IrqWishes(init), {"NVIC"})
           /\ Within(BrrWishes(init), DOMAIN Usart)
           /\ Within(ClocksOn, {"RCC"})
<1> DEFINE u == Usart[init.usartx]
<1>1. init.usartx \in DOMAIN Usart /\ u.txPort \in Ports /\ u.rxPort \in Ports /\ u.enr \in RccReg
  BY StructFacts
<1>2. Within({ClockWish(u.enr, u.clock)}, {"RCC"})
  BY <1>1 DEF Within, ClockWish, RccReg
<1>3. Within(UsartPins(init), Ports)
  BY <1>1 DEF Within, UsartPins, PinWishes, Want, AFField
<1>4. Within(IrqWishes(init), {"NVIC"})
  BY DEF Within, IrqWishes, Want, ISER
<1>5. Within(BrrWishes(init), DOMAIN Usart)
  BY <1>1 DEF Within, BrrWishes
<1>6. Within(ClocksOn, {"RCC"})
  BY DEF Within, ClocksOn, ClockWish, AHB1ENR
<1> QED BY <1>2, <1>3, <1>4, <1>5, <1>6

LEMMA UsartInitWorks ==
    ASSUME NEW init \in InitStructs
    PROVE  /\ Works(USART_Init(init), PortClocks, UsartDone(init))
           /\ Wanted(UsartDone(init), UsartClock(init.usartx)[1], UsartClock(init.usartx)[2])
<1> DEFINE u == Usart[init.usartx]
           a1 == Set(u.enr, {u.clock})
           a2 == GPIO_Set_Mode(u.txPort, u.tx, GPIO_MODE_AF) \o GPIO_Set_AF(u.txPort, u.tx, u.af)
           a3 == GPIO_Set_Mode(u.rxPort, u.rx, GPIO_MODE_AF) \o GPIO_Set_AF(u.rxPort, u.rx, u.af)
           a4 == Enable(init)
           a5 == Write(<<init.usartx, "BRR">>, Divider(init))
           W1 == {ClockWish(u.enr, u.clock)}
           W2 == PinWishes(u.txPort, u.tx, GPIO_MODE_AF, u.af)
           W3 == PinWishes(u.rxPort, u.rx, GPIO_MODE_AF, u.af)
           W4 == IrqWishes(init)
           W5 == BrrWishes(init)
           P  == PortClocks
           C  == {UsartClock(init.usartx)}
<1>1. /\ init.usartx \in DOMAIN Usart /\ u.txPort \in Ports /\ u.rxPort \in Ports
      /\ u.tx \in 0..15 /\ u.rx \in 0..15 /\ u.af \in SUBSET (0..3)
      /\ u.clock \in 0..31 /\ u.enr \in RccReg
  BY StructFacts
<1>2. /\ P \in SUBSET Bit /\ P \in SUBSET (RccReg \X (0..31)) /\ C \in SUBSET Bit
      /\ ClockOf(init.usartx) \subseteq C
  <2>1. P \in SUBSET (RccReg \X (0..31))
    BY DEF PortClocks, RccReg, AHB1ENR
  <2> QED BY <1>1, <2>1, PortClocksWanted, UsartClockIs
<1>3. USART_Init(init) = a1 \o a2 \o a3 \o a4 \o a5
  BY Zenon DEF USART_Init, Divider
<1>4. Works(a1, P, W1)
  BY <1>1, <1>2, ClockWorks
<1>5. Works(a2, P, W2) /\ Works(a3, P, W3)
  <2>1. GPIO_MODE_AF \in {GPIO_MODE_AF, GPIO_MODE_ANALOG}
    OBVIOUS
  <2>2. ClockOf(u.txPort) \subseteq P /\ ClockOf(u.rxPort) \subseteq P
    BY <1>1, PortClocksWanted
  <2>3. ASSUME NEW port \in Ports, NEW pin \in 0..15, ClockOf(port) \subseteq P
        PROVE  Works(GPIO_Set_Mode(port, pin, GPIO_MODE_AF) \o GPIO_Set_AF(port, pin, u.af), P,
                     PinWishes(port, pin, GPIO_MODE_AF, u.af))
    BY <1>1, <1>2, <2>1, <2>3, AlternateWorks DEF PinWishes
  <2> HIDE DEF u, P
  <2> QED BY <1>1, <2>2, <2>3
<1>6. Works(a4, C, W4)
  BY EnableWorks
<1>7. Works(a5, C, W5)
  <2> DEFINE r == <<init.usartx, "BRR">>
             bits == Divider(init)
  <2>1. r \in TrackedReg /\ r \in UsartReg /\ r[1] # "NVIC" /\ r[1] = init.usartx
    BY <1>1, UsartFacts DEF TrackedReg, ConfReg, BrrReg, UsartReg
  <2>2. bits \in SUBSET (0..31)
    BY DEF Divider, Bits
  <2> HIDE DEF r, bits
  <2>3. [op |-> "write", reg |-> r, bits |-> bits] \in Driving
    <3>1. [op |-> "write", reg |-> r, bits |-> bits] \in Configuring
      BY <2>1, <2>2 DEF Configuring
    <3> QED BY <3>1 DEF Driving
  <2>4. ClockOf(r[1]) \subseteq C
    BY <1>2, <2>1
  <2>5. Works(<<[op |-> "write", reg |-> r, bits |-> bits]>>, C,
              {[reg |-> r, field |-> 0..31, value |-> bits]})
    <3> HIDE DEF C
    <3> QED BY <1>2, <2>1, <2>2, <2>3, <2>4, WriteWorks
  <2> QED BY <2>5 DEF Write, BrrWishes, r, bits
<1>8. /\ Within(W1, {"RCC"}) /\ Within(W2, Ports) /\ Within(W3, Ports)
      /\ Within(W4, {"NVIC"}) /\ Within(W5, DOMAIN Usart)
  <2>1. Within(W2 \cup W3, Ports)
    BY WithinFacts DEF UsartPins
  <2>2. Within(W2, Ports) /\ Within(W3, Ports)
    BY <2>1 DEF Within
  <2> QED BY <2>2, WithinFacts
<1>9. Agree(W2, W3)
  BY <1>1, UsartPinFacts, PinsApart
<1>10. Wanted(W1, UsartClock(init.usartx)[1], UsartClock(init.usartx)[2])
  BY DEF Wanted, ClockWish, UsartClock
<1>11. \A c \in P : c[1] = AHB1ENR /\ ~About(W1, c[1], c[2])
  <2>1. u.enr # AHB1ENR
    BY <1>1, UsartPinFacts
  <2> QED BY <2>1 DEF PortClocks, About, ClockWish
<1>12. UsartDone(init) = W1 \cup W2 \cup W3 \cup W4 \cup W5
  BY DEF UsartDone, UsartPins
<1> HIDE DEF a1, a2, a3, a4, a5, W1, W2, W3, W4, W5, P, C, u
<1>13. /\ Agree(W1, W2) /\ Agree(W1, W3) /\ Agree(W1, W4) /\ Agree(W1, W5)
       /\ Agree(W2, W4) /\ Agree(W3, W4) /\ Agree(W2, W5) /\ Agree(W3, W5) /\ Agree(W4, W5)
  <2>1. /\ {"RCC"} \cap Ports = {} /\ {"RCC"} \cap {"NVIC"} = {} /\ {"RCC"} \cap (DOMAIN Usart) = {}
        /\ Ports \cap {"NVIC"} = {} /\ Ports \cap (DOMAIN Usart) = {}
        /\ {"NVIC"} \cap (DOMAIN Usart) = {}
    BY PeripheralsApart
  <2>2. Agree(W1, W2) /\ Agree(W1, W3)
    BY <1>8, <2>1, WithinApart
  <2>3. Agree(W1, W4) /\ Agree(W1, W5)
    BY <1>8, <2>1, WithinApart
  <2>4. Agree(W2, W4) /\ Agree(W3, W4)
    BY <1>8, <2>1, WithinApart
  <2>5. Agree(W2, W5) /\ Agree(W3, W5) /\ Agree(W4, W5)
    BY <1>8, <2>1, WithinApart
  <2> QED BY <2>2, <2>3, <2>4, <2>5
<1>14. \A c \in P : ~About(W2, c[1], c[2])
  <2>1. ASSUME NEW c \in P PROVE ~About(W2, c[1], c[2])
    <3>1. c[1][1] \notin Ports
      BY <1>11, PeripheralsApart DEF AHB1ENR
    <3> QED BY <1>8, <3>1, WithinAbout
  <2> QED BY <2>1
<1> DEFINE V2 == W1 \cup W2
           V3 == V2 \cup W3
           V4 == V3 \cup W4
           s2 == a1 \o a2
           s3 == s2 \o a3
           s4 == s3 \o a4
<1>15. /\ Agree(V2, W3) /\ Agree(V3, W4) /\ Agree(V4, W5)
       /\ \A c \in P : ~About(V2, c[1], c[2])
       /\ Wanted(V3, UsartClock(init.usartx)[1], UsartClock(init.usartx)[2])
       /\ Wanted(V4, UsartClock(init.usartx)[1], UsartClock(init.usartx)[2])
       /\ Wanted(V4 \cup W5, UsartClock(init.usartx)[1], UsartClock(init.usartx)[2])
  <2>1. /\ Agree(V2, W3) /\ Agree(V2, W4) /\ Agree(V2, W5)
    BY <1>9, <1>13, AgreeBoth
  <2>2. Agree(V3, W4) /\ Agree(V3, W5)
    <3> HIDE DEF V2
    <3> QED BY <1>13, <2>1, AgreeBoth
  <2>3. Agree(V4, W5)
    <3> HIDE DEF V3
    <3> QED BY <1>13, <2>2, AgreeBoth
  <2>4. \A c \in P : ~About(V2, c[1], c[2])
    BY <1>11, <1>14, AboutBoth
  <2>5. W1 \subseteq V3 /\ W1 \subseteq V4 /\ W1 \subseteq V4 \cup W5
    OBVIOUS
  <2>6. \A V : W1 \subseteq V => Wanted(V, UsartClock(init.usartx)[1], UsartClock(init.usartx)[2])
    BY <1>10 DEF Wanted
  <2> HIDE DEF V3, V4
  <2> QED BY <2>1, <2>2, <2>3, <2>4, <2>5, <2>6
<1>16. Works(s2, P, V2)
  BY <1>2, <1>4, <1>5, <1>11, <1>13, WorksThen
<1> HIDE DEF V2, s2
<1>17. Works(s3, P, V3)
  BY <1>2, <1>5, <1>15, <1>16, WorksThen
<1> HIDE DEF V3, s3
<1>18. Works(s4, P, V4)
  <2>1. \A c \in C : Wanted(V3, c[1], c[2])
    BY <1>15 DEF C
  <2> QED BY <1>2, <1>6, <1>15, <1>17, <2>1, WorksConcat
<1> HIDE DEF V4, s4
<1>19. Works(s4 \o a5, P, V4 \cup W5)
  <2>1. \A c \in C : Wanted(V4, c[1], c[2])
    BY <1>15 DEF C
  <2> QED BY <1>2, <1>7, <1>15, <1>18, <2>1, WorksConcat
<1>20. UsartDone(init) = V4 \cup W5 /\ USART_Init(init) = s4 \o a5
  BY <1>3, <1>12 DEF V4, V3, V2, s4, s3, s2
<1> QED BY <1>15, <1>19, <1>20 DEF P

LedWish(l) == Want(<<"GPIOA", "MODER">>, 2, LedPin[l], GPIO_MODE_OUTPUT)

MainDone(init) == ClocksOn \cup {LedWish("red")} \cup {LedWish("green")} \cup UsartDone(init)

LEMMA MainWorks ==
    ASSUME NEW init \in InitStructs
    PROVE  Works(MainProgram(init), {}, MainDone(init))
<1> DEFINE u == Usart[init.usartx]
           m1 == GPIO_Set_Mode("GPIOA", LedPin["red"], GPIO_MODE_OUTPUT)
           m2 == GPIO_Set_Mode("GPIOA", LedPin["green"], GPIO_MODE_OUTPUT)
           a3 == USART_Init(init)
           a4 == USART_Transmit(init.usartx, Greeting)
           W1 == {LedWish("red")}
           W2 == {LedWish("green")}
           W3 == UsartDone(init)
           P  == PortClocks
           C  == {UsartClock(init.usartx)}
           none == {}
<1>1. /\ init.usartx \in DOMAIN Usart /\ u.txPort \in Ports /\ u.rxPort \in Ports
      /\ u.tx \in 0..15 /\ u.rx \in 0..15
  BY StructFacts
<1>2. /\ P \in SUBSET Bit /\ C \in SUBSET Bit /\ none \in SUBSET Bit
      /\ \A c \in P : Wanted(ClocksOn, c[1], c[2])
  BY <1>1, PortClocksWanted, UsartClockIs
<1>3. MainProgram(init) = GPIO_Clock_Init \o m1 \o m2 \o a3 \o a4
  BY Zenon DEF MainProgram
<1>4. Works(m1, P, W1) /\ Works(m2, P, W2)
  <2>1. /\ "GPIOA" \in Ports /\ LedPin["red"] \in 0..15 /\ LedPin["green"] \in 0..15
        /\ GPIO_MODE_OUTPUT \in SUBSET {0, 1} /\ ClockOf("GPIOA") \subseteq P
    BY HalAssumption, PortClocksWanted DEF LedPin, GPIO_MODE_OUTPUT
  <2> QED BY <1>2, <2>1, SetModeWorks DEF LedWish
<1>5. Works(a3, P, W3) /\ \A c \in C : Wanted(W3, c[1], c[2])
  BY UsartInitWorks
<1>6. Works(a4, C, none)
  BY <1>1, <1>2, TransmitWorks
<1>7. Within(ClocksOn, {"RCC"}) /\ Within(W1, Ports) /\ Within(W2, Ports)
  <2>1. "GPIOA" \in Ports
    BY HalAssumption
  <2> QED BY <2>1, WithinFacts DEF Within, LedWish, Want
<1>8. Agree(ClocksOn, W1) /\ Agree(ClocksOn, W2)
  BY <1>7, PeripheralsApart, WithinApart
<1>9. Agree(W1, W2)
  <2>1. LedPin["red"] \in 0..15 /\ LedPin["green"] \in 0..15 /\ LedPin["red"] # LedPin["green"]
    BY DEF LedPin
  <2> QED BY <2>1, PinsApart DEF LedWish
<1>10. Agree(ClocksOn, W3) /\ Agree(W1, W3) /\ Agree(W2, W3)
  <2> DEFINE K == {ClockWish(u.enr, u.clock)}
             T == PinWishes(u.txPort, u.tx, GPIO_MODE_AF, u.af)
             R == PinWishes(u.rxPort, u.rx, GPIO_MODE_AF, u.af)
             I == IrqWishes(init)
             B == BrrWishes(init)
  <2>1. /\ Within(K, {"RCC"}) /\ Within(T, Ports) /\ Within(R, Ports)
        /\ Within(I, {"NVIC"}) /\ Within(B, DOMAIN Usart)
    <3>1. Within(T \cup R, Ports)
      BY WithinFacts DEF UsartPins
    <3>2. Within(T, Ports) /\ Within(R, Ports)
      BY <3>1 DEF Within
    <3> QED BY <3>2, WithinFacts
  <2>2. W3 = K \cup (T \cup R) \cup I \cup B
    BY DEF UsartDone, UsartPins
  <2>3. Agree(ClocksOn, K)
    <3>1. u.enr # AHB1ENR
      BY <1>1, UsartPinFacts
    <3> QED BY <3>1 DEF Agree, ClocksOn, ClockWish
  <2>4. Agree(W1, T) /\ Agree(W1, R) /\ Agree(W2, T) /\ Agree(W2, R)
    <3>1. ASSUME NEW l \in Led
          PROVE  Agree({LedWish(l)}, T) /\ Agree({LedWish(l)}, R)
      <4>1. /\ LedPin[l] \in 0..15
            /\ <<"GPIOA", LedPin[l]>> # <<u.txPort, u.tx>>
            /\ <<"GPIOA", LedPin[l]>> # <<u.rxPort, u.rx>>
        BY HalAssumption DEF LedPin, Led
      <4> QED BY <1>1, <4>1, PinsApart DEF LedWish
    <3>2. "red" \in Led /\ "green" \in Led
      BY DEF Led
    <3> QED BY <3>1, <3>2
  <2> HIDE DEF K, T, R, I, B, W1, W2, W3
  <2>5. /\ {"RCC"} \cap Ports = {} /\ {"RCC"} \cap {"NVIC"} = {} /\ {"RCC"} \cap (DOMAIN Usart) = {}
        /\ Ports \cap {"NVIC"} = {} /\ Ports \cap (DOMAIN Usart) = {} /\ Ports \cap {"RCC"} = {}
    BY PeripheralsApart
  <2>6. Agree(ClocksOn, T) /\ Agree(ClocksOn, R) /\ Agree(ClocksOn, I) /\ Agree(ClocksOn, B)
    BY <1>7, <2>1, <2>5, WithinApart
  <2>7. Agree(W1, K) /\ Agree(W1, I) /\ Agree(W1, B)
    BY <1>7, <2>1, <2>5, WithinApart
  <2>8. Agree(W2, K) /\ Agree(W2, I) /\ Agree(W2, B)
    BY <1>7, <2>1, <2>5, WithinApart
  <2>9. ASSUME NEW V, Agree(V, K), Agree(V, T), Agree(V, R), Agree(V, I), Agree(V, B)
        PROVE  Agree(V, W3)
    BY <2>2, <2>9 DEF Agree
  <2> QED BY <2>3, <2>4, <2>6, <2>7, <2>8, <2>9
<1> HIDE DEF m1, m2, a3, a4, W1, W2, W3, P, C, none, u
<1> DEFINE V1 == ClocksOn \cup W1
           V2 == V1 \cup W2
           V3 == V2 \cup W3
           s1 == GPIO_Clock_Init \o m1
           s2 == s1 \o m2
           s3 == s2 \o a3
<1>11. /\ Agree(V1, W2) /\ Agree(V2, W3) /\ Agree(V3, none)
       /\ \A c \in P : Wanted(V1, c[1], c[2]) /\ Wanted(V2, c[1], c[2])
       /\ \A c \in C : Wanted(V3, c[1], c[2])
  <2>1. Agree(V1, W2) /\ Agree(V1, W3)
    BY <1>8, <1>9, <1>10, AgreeBoth
  <2>2. Agree(V2, W3)
    <3> HIDE DEF V1
    <3> QED BY <1>10, <2>1, AgreeBoth
  <2>3. Agree(V3, none)
    BY DEF Agree, none
  <2>4. \A c \in P : Wanted(V1, c[1], c[2])
    BY <1>2, AboutBoth
  <2>5. \A c \in P : Wanted(V2, c[1], c[2])
    <3> HIDE DEF V1
    <3> QED BY <2>4, AboutBoth
  <2>6. \A c \in C : Wanted(V3, c[1], c[2])
    <3> HIDE DEF V2
    <3> QED BY <1>5, AboutBoth
  <2> HIDE DEF V1, V2, V3
  <2> QED BY <2>1, <2>2, <2>3, <2>4, <2>5, <2>6
<1>12. Works(s1, none, V1)
  <2>1. Works(GPIO_Clock_Init, none, ClocksOn)
    BY ClockInitWorks DEF none
  <2> QED BY <1>2, <1>4, <1>8, <2>1, WorksConcat
<1> HIDE DEF V1, s1
<1>13. Works(s2, none, V2)
  BY <1>2, <1>4, <1>11, <1>12, WorksConcat
<1> HIDE DEF V2, s2
<1>14. Works(s3, none, V3)
  BY <1>2, <1>5, <1>11, <1>13, WorksConcat
<1> HIDE DEF V3, s3
<1>15. Works(s3 \o a4, none, V3 \cup none)
  BY <1>2, <1>6, <1>11, <1>14, WorksConcat
<1>16. MainDone(init) = V3 \cup none /\ MainProgram(init) = s3 \o a4
  BY <1>3 DEF MainDone, V3, V2, V1, s3, s2, s1, none, W1, W2, W3
<1> QED BY <1>15, <1>16 DEF none

\* The usart's pins are of those that GPIO_Set_AF can make its own.
LowPins == \A init \in InitStructs : Usart[init.usartx].tx < 8 /\ Usart[init.usartx].rx < 8

LEMMA FulfilAt ==
    ASSUME NEW g, NEW W, NEW r \in DOMAIN g
    PROVE  Fulfil(g, W)[r] =
             (g[r] \ UNION {w.field : w \in {w \in W : w.reg = r}})
               \cup UNION {w.value : w \in {w \in W : w.reg = r}}
BY DEF Fulfil

\* The tracked registers after a reset.
ResetValues == [r \in TrackedReg |-> AfterReset(r)]

LEMMA ResetFacts ==
    ResetValues \in Values /\ \A r : AfterReset(r) \in SUBSET (0..31)
<1>1. \A r : AfterReset(r) \in SUBSET (0..31)
  BY DEF AfterReset, TXE, TC
<1> QED BY <1>1 DEF ResetValues, Values

LEMMA AskedApart ==
    /\ \A r \in AskedReg : r[1] \notin {"RCC"} \cup DOMAIN Usart
    /\ \A r \in AskedReg : r \in TrackedReg /\ r \in Register
<1>1. \A i \in {0, 32, 64} : ISER(i)[1] = "NVIC"
  BY DEF ISER
<1>2. \A r \in AskedReg : r[1] \in Ports \cup {"EXTI", "NVIC"}
  BY <1>1 DEF AskedReg, PinRegs, LineRegs
<1>3. "EXTI" \notin {"RCC"} \cup DOMAIN Usart
  BY UsartFacts
<1> QED BY <1>2, <1>3, PeripheralsApart DEF AskedReg, TrackedReg, ConfReg, Register

\* The registers that a call of GPIO_Set_AF leaves as it should.
AFRight(r) == LowPins \/ r[2] \notin {"AFRL", "AFRH"}

LEMMA MainAsked ==
    ASSUME NEW init \in InitStructs
    PROVE  /\ DOMAIN Configured(init) = AskedReg
           /\ \A r \in AskedReg : AFRight(r) =>
                 Fulfil(ResetValues, MainDone(init))[r] = Configured(init)[r]
<1> DEFINE u == Usart[init.usartx]
           D == MainDone(init)
           M == MainWishes(init)
           h == [r \in PinRegs \cup LineRegs |-> AfterReset(r)]
           K == {ClockWish(u.enr, u.clock)}
           B == BrrWishes(init)
           modes == {Want(<<u.txPort, "MODER">>, 2, u.tx, GPIO_MODE_AF),
                     Want(<<u.rxPort, "MODER">>, 2, u.rx, GPIO_MODE_AF)}
           done == {AFField(u.txPort, u.tx, u.af), AFField(u.rxPort, u.rx, u.af)}
           want == {WantAF(u.txPort, u.tx, u.af), WantAF(u.rxPort, u.rx, u.af)}
           leds == {LedWish("red")} \cup {LedWish("green")}
           irqs == IrqWishes(init)
<1>1. LowPins => done = want
  <2>1. LowPins => u.tx \in 0..7 /\ u.rx \in 0..7 /\ u.af \in SUBSET (0..3)
    BY StructFacts DEF LowPins
  <2> QED BY <2>1, AFFieldIs
<1>2. \A w \in done \cup want : w.reg[2] \in {"AFRL", "AFRH"}
  BY DEF AFField, WantAF, Want
<1>3. UsartWishes(init) = modes \cup want \cup irqs
  BY DEF UsartWishes, IrqWishes, WantAlternate
<1>4. leds = {Want(<<"GPIOA", "MODER">>, 2, LedPin[l], GPIO_MODE_OUTPUT) : l \in Led}
  BY DEF LedWish, Led
<1>5. UsartPins(init) = modes \cup done
  BY DEF UsartPins, PinWishes
<1>6. M = leds \cup modes \cup want \cup irqs
  <2> HIDE DEF modes, want, leds, irqs
  <2> QED BY <1>3, <1>4 DEF MainWishes
<1>7. D = ClocksOn \cup leds \cup K \cup modes \cup done \cup irqs \cup B
  <2> HIDE DEF modes, done
  <2> QED BY <1>5 DEF MainDone, UsartDone
<1>8. \A w \in ClocksOn \cup K \cup B : w.reg[1] \in {"RCC"} \cup DOMAIN Usart
  BY WithinFacts DEF Within
<1> HIDE DEF D, M, K, B, modes, done, want, leds, irqs
<1>9. ASSUME NEW r \in AskedReg, AFRight(r)
      PROVE  {w \in D : w.reg = r} = {w \in M : w.reg = r}
  <2>1. r[1] \notin {"RCC"} \cup DOMAIN Usart
    BY AskedApart
  <2>2. \A w \in ClocksOn \cup K \cup B : w.reg # r
    BY <1>8, <2>1
  <2>3. CASE LowPins
    BY <1>1, <1>6, <1>7, <2>2, <2>3
  <2>4. CASE r[2] \notin {"AFRL", "AFRH"}
    <3>1. \A w \in done \cup want : w.reg # r
      BY <1>2, <2>4
    <3> QED BY <1>6, <1>7, <2>2, <3>1
  <2> QED BY <1>9, <2>3, <2>4 DEF AFRight
<1>10. DOMAIN h = AskedReg /\ DOMAIN ResetValues = TrackedReg /\ Configured(init) = Fulfil(h, M)
  BY DEF AskedReg, ResetValues, Configured, M
<1>11. DOMAIN Configured(init) = AskedReg
  BY <1>10 DEF Fulfil
<1>12. ASSUME NEW r \in AskedReg, AFRight(r) PROVE Fulfil(ResetValues, D)[r] = Fulfil(h, M)[r]
  <2>1. r \in TrackedReg /\ ResetValues[r] = h[r]
    BY AskedApart DEF ResetValues, AskedReg
  <2> HIDE DEF h
  <2>2. Fulfil(ResetValues, D)[r] =
          (ResetValues[r] \ UNION {w.field : w \in {w \in D : w.reg = r}})
            \cup UNION {w.value : w \in {w \in D : w.reg = r}}
    BY <1>10, <2>1, FulfilAt
  <2>3. Fulfil(h, M)[r] =
          (h[r] \ UNION {w.field : w \in {w \in M : w.reg = r}})
            \cup UNION {w.value : w \in {w \in M : w.reg = r}}
    BY <1>10, FulfilAt
  <2> QED BY <1>9, <1>12, <2>1, <2>2, <2>3
<1> QED BY <1>10, <1>11, <1>12 DEF D

LEMMA MainLeaves ==
    ASSUME NEW init \in InitStructs
    PROVE  /\ Does(MainProgram(init), ResetValues, Fulfil(ResetValues, MainDone(init)))
           /\ \A c \in PortClocks : c[2] \in Fulfil(ResetValues, MainDone(init))[c[1]]
           /\ Fulfil(ResetValues, MainDone(init))[<<init.usartx, "BRR">>] = Divider(init)
<1> DEFINE D == MainDone(init)
           h == Fulfil(ResetValues, D)
           r == <<init.usartx, "BRR">>
           w == [reg |-> r, field |-> 0..31, value |-> Divider(init)]
<1>1. D \in Wishes /\ Does(MainProgram(init), ResetValues, h)
  <2>1. Powered({}, ResetValues)
    BY DEF Powered
  <2> QED BY <2>1, MainWorks, ResetFacts DEF Works
<1>2. h \in Values /\ \A q \in TrackedReg : \A k \in 0..31 :
        k \in h[q] <=> Wanted(D, q, k) \/ (k \in ResetValues[q] /\ ~About(D, q, k))
  <2> HIDE DEF D
  <2> QED BY <1>1, FulfilIs, ResetFacts
<1>3. \A c \in PortClocks : c[2] \in h[c[1]]
  <2>1. ASSUME NEW c \in PortClocks PROVE c[2] \in h[c[1]]
    <3>1. c[1] \in TrackedReg /\ c[2] \in 0..31
      BY PortClocksWanted DEF Bit
    <3>2. ClocksOn \subseteq D
      BY DEF MainDone
    <3>3. Wanted(D, c[1], c[2])
      <4>1. Wanted(ClocksOn, c[1], c[2])
        BY PortClocksWanted
      <4> HIDE DEF D
      <4> QED BY <3>2, <4>1 DEF Wanted
    <3> HIDE DEF h, D
    <3> QED BY <1>2, <3>1, <3>3
  <2> QED BY <2>1
<1>4. h[r] = Divider(init)
  <2>1. init.usartx \in DOMAIN Usart
    BY StructFacts
  <2>2. w \in D /\ \A v \in D : v.reg = r => v = w
    <3>1. /\ Within(ClocksOn, {"RCC"}) /\ Within(UsartPins(init), Ports)
          /\ Within(IrqWishes(init), {"NVIC"})
          /\ Within({ClockWish(Usart[init.usartx].enr, Usart[init.usartx].clock)}, {"RCC"})
      BY WithinFacts
    <3>2. LedWish("red").reg[1] \in Ports /\ LedWish("green").reg[1] \in Ports
      BY HalAssumption DEF LedWish, Want
    <3>3. r[1] \in DOMAIN Usart
      BY <2>1
    <3>4. D = ClocksOn \cup {LedWish("red")} \cup {LedWish("green")}
                \cup {ClockWish(Usart[init.usartx].enr, Usart[init.usartx].clock)}
                \cup UsartPins(init) \cup IrqWishes(init) \cup {w}
      BY DEF MainDone, UsartDone, BrrWishes
    <3> HIDE DEF w, r, D
    <3> QED BY <3>1, <3>2, <3>3, <3>4, PeripheralsApart DEF Within
  <2>3. w.reg = r /\ w.field = 0..31 /\ w.value = Divider(init)
    OBVIOUS
  <2>4. r \in TrackedReg /\ Divider(init) \subseteq 0..31
    BY <2>1 DEF TrackedReg, ConfReg, BrrReg, Divider, Bits
  <2> HIDE DEF w, r, D, h
  <2>5. \A k \in 0..31 : About(D, r, k) /\ (Wanted(D, r, k) <=> k \in Divider(init))
    BY <2>2, <2>3 DEF About, Wanted
  <2>6. h[r] \subseteq 0..31
    BY <1>2, <2>4 DEF Values
  <2> QED BY <1>2, <2>4, <2>5, <2>6
<1> QED BY <1>1, <1>3, <1>4

-----------------------------------------------------------------------------
(* The calls of the configuring task.                                      *)

LEMMA WantBit ==
    ASSUME NEW r, NEW b \in 0..31, NEW v \in SUBSET {0}
    PROVE  Want(r, 1, b, v) =
             [reg |-> r, field |-> {b}, value |-> IF 0 \in v THEN {b} ELSE {}]
<1>1. {1 * b + i : i \in 0..(1 - 1)} = {b}
  <2>1. 0..(1 - 1) = {0} /\ 1 * b + 0 = b
    OBVIOUS
  <2> QED BY <2>1
<1>2. {1 * b + i : i \in v} = IF 0 \in v THEN {b} ELSE {}
  <2>1. v = {} \/ v = {0}
    OBVIOUS
  <2>2. 1 * b + 0 = b
    OBVIOUS
  <2> QED BY <2>1, <2>2
<1> QED BY <1>1, <1>2 DEF Want

\* Wishes that come to the same from registers g.
LEMMA SameFulfilled ==
    ASSUME NEW g \in Values, NEW V \in Wishes, NEW W \in Wishes,
           \A r \in TrackedReg : \A k \in 0..31 :
              /\ Wanted(V, r, k) <=> Wanted(W, r, k)
              /\ About(V, r, k) => About(W, r, k)
              /\ About(W, r, k) /\ k \in g[r] => Wanted(W, r, k) \/ About(V, r, k)
    PROVE  Fulfil(g, V) = Fulfil(g, W)
<1> DEFINE f == Fulfil(g, V)
           h == Fulfil(g, W)
<1>1. f \in Values /\ h \in Values
  BY FulfilIs
<1>2. ASSUME NEW r \in TrackedReg, NEW k \in 0..31 PROVE k \in f[r] <=> k \in h[r]
  <2>1. k \in f[r] <=> Wanted(V, r, k) \/ (k \in g[r] /\ ~About(V, r, k))
    BY FulfilIs
  <2>2. k \in h[r] <=> Wanted(W, r, k) \/ (k \in g[r] /\ ~About(W, r, k))
    BY FulfilIs
  <2>3. /\ Wanted(V, r, k) <=> Wanted(W, r, k)
        /\ About(V, r, k) => About(W, r, k)
        /\ About(W, r, k) /\ k \in g[r] => Wanted(W, r, k) \/ About(V, r, k)
    OBVIOUS
  <2> QED BY <2>1, <2>2, <2>3
<1> HIDE DEF f, h
<1>3. f = h
  BY <1>1, <1>2, SameValues
<1> QED BY <1>3 DEF f, h

\* What a call has to do from registers g.
Effective(call, g) ==
    /\ call.wishes \in Wishes /\ \A w \in call.wishes : w.reg \in AskedReg
    /\ Does(call.accesses, g, Fulfil(g, call.wishes))

LEMMA WorksEffective ==
    ASSUME NEW s, NEW W, Works(s, PortClocks, W), \A w \in W : w.reg \in AskedReg,
           NEW g \in Values, Powered(PortClocks, g)
    PROVE  Effective(Call(s, W), g)
<1>1. Call(s, W).accesses = s /\ Call(s, W).wishes = W
  BY DEF Call
<1>2. W \in Wishes /\ Does(s, g, Fulfil(g, W))
  BY DEF Works
<1> QED BY <1>1, <1>2 DEF Effective

LEMMA OutputTypeWorks ==
    ASSUME NEW port \in Ports, NEW pin \in 0..15, NEW type \in SUBSET {0}
    PROVE  Works(GPIO_Set_OutputType(port, pin, type), PortClocks,
                 {[reg |-> <<port, "OTYPER">>, field |-> Shift(type, pin),
                   value |-> Shift(type, pin)]})
<1> DEFINE r == <<port, "OTYPER">>
           bits == Shift(type, pin)
<1>1. r \in PinRegs /\ r[1] = port /\ r \in TrackedReg
  BY DEF PinRegs, TrackedReg, ConfReg, AskedReg
<1>2. bits \in SUBSET (0..31)
  BY DEF Shift
<1> HIDE DEF r, bits
<1>3. [op |-> "set", reg |-> r, bits |-> bits] \in Driving
  <2>1. [op |-> "set", reg |-> r, bits |-> bits] \in Setting
    BY <1>1, <1>2 DEF Setting
  <2> QED BY <2>1 DEF Driving, Configuring
<1>4. ClockOf(r[1]) \subseteq PortClocks /\ PortClocks \in SUBSET Bit
  BY <1>1, PortClocksWanted
<1>5. Works(<<[op |-> "set", reg |-> r, bits |-> bits]>>, PortClocks,
            {[reg |-> r, field |-> bits, value |-> bits]})
  BY <1>1, <1>2, <1>3, <1>4, SetWorks
<1> QED BY <1>5 DEF GPIO_Set_OutputType, Set, r, bits

LEMMA TypeBits ==
    ASSUME NEW pin \in 0..15, NEW type \in SUBSET {0}
    PROVE  Shift(type, pin) = IF 0 \in type THEN {pin} ELSE {}
<1>1. Shift(type, pin) = {1 * pin + i : i \in type}
  BY Masks
<1>2. type = {} \/ type = {0}
  OBVIOUS
<1>3. 1 * pin + 0 = pin
  OBVIOUS
<1> QED BY <1>1, <1>2, <1>3

\* The setters of a pin.
LEMMA SettersEffective ==
    ASSUME NEW port \in Ports, NEW pin \in 0..15, NEW value \in SUBSET {0, 1},
           NEW g \in Values, Powered(PortClocks, g)
    PROVE  /\ Effective(SetMode(port, pin, value), g)
           /\ Effective(SetOutputSpeed(port, pin, value), g)
           /\ Effective(SetPull(port, pin, value), g)
           /\ Effective(OpenDrain(port, pin), g)
<1>1. ClockOf(port) \subseteq PortClocks /\ PortClocks \in SUBSET Bit
  BY PortClocksWanted
<1>2. \A name \in {"MODER", "OSPEEDR", "PUPDR", "OTYPER"} : <<port, name>> \in AskedReg
  BY DEF AskedReg, PinRegs
<1>3. ASSUME NEW s, NEW name \in {"MODER", "OSPEEDR", "PUPDR", "OTYPER"}, NEW width, NEW v,
             Works(s, PortClocks, {Want(<<port, name>>, width, pin, v)})
      PROVE  Effective(Call(s, {Want(<<port, name>>, width, pin, v)}), g)
  <2> DEFINE W == {Want(<<port, name>>, width, pin, v)}
  <2>1. \A w \in W : w.reg \in AskedReg
    BY <1>2 DEF Want
  <2>2. Works(s, PortClocks, W)
    BY <1>3
  <2> HIDE DEF W
  <2>3. Effective(Call(s, W), g)
    BY <2>1, <2>2, WorksEffective
  <2> QED BY <2>3 DEF W
<1>4. Effective(SetMode(port, pin, value), g)
  BY <1>1, <1>3, SetModeWorks DEF SetMode
<1>5. Effective(SetOutputSpeed(port, pin, value), g)
  BY <1>1, <1>3, SetSpeedWorks DEF SetOutputSpeed
<1>6. Effective(SetPull(port, pin, value), g)
  BY <1>1, <1>3, SetPullWorks DEF SetPull
<1>7. Effective(OpenDrain(port, pin), g)
  <2>1. {0} \in SUBSET {0} /\ 0 \in {0} /\ pin \in 0..31
    OBVIOUS
  <2>2. Shift({0}, pin) = {pin}
    BY <2>1, TypeBits
  <2>3. Want(<<port, "OTYPER">>, 1, pin, {0}) =
          [reg |-> <<port, "OTYPER">>, field |-> {pin}, value |-> {pin}]
    BY <2>1, WantBit
  <2>4. Works(GPIO_Set_OutputType(port, pin, {0}), PortClocks,
              {[reg |-> <<port, "OTYPER">>, field |-> Shift({0}, pin), value |-> Shift({0}, pin)]})
    BY ONLY <2>1, OutputTypeWorks
  <2>5. Works(GPIO_Set_OutputType(port, pin, {0}), PortClocks,
              {Want(<<port, "OTYPER">>, 1, pin, {0})})
    BY <2>2, <2>3, <2>4
  <2> QED BY <1>3, <2>5 DEF OpenDrain
<1> QED BY <1>4, <1>5, <1>6, <1>7

LEMMA Members ==
    ASSUME NEW s \in Seq(Driving), NEW t \in Seq(Driving)
    PROVE  ToSet(s) \subseteq ToSet(s \o t) /\ ToSet(t) \subseteq ToSet(s \o t)
<1>1. /\ \A i \in DOMAIN s : i \in DOMAIN (s \o t) /\ (s \o t)[i] = s[i]
      /\ \A i \in DOMAIN t : Len(s) + i \in DOMAIN (s \o t) /\ (s \o t)[Len(s) + i] = t[i]
  OBVIOUS
<1> DEFINE st == s \o t
<1> HIDE DEF st
<1>2. \A i \in DOMAIN s : s[i] \in ToSet(st)
  BY <1>1 DEF ToSet, st
<1>3. \A i \in DOMAIN t : t[i] \in ToSet(st)
  BY <1>1 DEF ToSet, st
<1> QED BY <1>2, <1>3 DEF ToSet, st

\* Of a pin, GPIO_Pin_Init leaves the pull alone, but not the alternate function.
LEMMA PinInitRegs ==
    ASSUME NEW init \in PinStructs
    PROVE  /\ \A a \in ToSet(GPIO_Pin_Init(init)) : a.reg[2] # "PUPDR"
           /\ \E a \in ToSet(GPIO_Pin_Init(init)) : a.reg = <<init.gpiox, "AFRL">>
<1> DEFINE X == {a \in Setting \cup Branching : a.reg[2] # "PUPDR"}
           port == init.gpiox
           pin == init.pin
           mask == Shift(GPIO_MODE_AF, pin * 2)
           no == GPIO_Set_Mode(port, pin, GPIO_MODE_AF)
           afr == <<port, IF pin <= 7 THEN "AFRL" ELSE "AFRH">>
           moder == <<port, "MODER">>
           p1 == GPIO_Set_Mode(port, pin, init.pin_mode)
           p2 == GPIO_Set_OutputType(port, pin, init.output_type)
           p3 == GPIO_Set_OutputSpeed(port, pin, init.output_speed)
           p4 == If(moder, mask, <<>>, no)
           p5 == Clear(afr, Shift(0..3, pin * 4))
           p6 == Set(afr, Shift(init.alternate_function, pin * 4))
<1>1. port \in Ports /\ pin \in 0..15
  BY DEF PinStructs
<1>2. ASSUME NEW r \in PinRegs, r[2] # "PUPDR", NEW bits, NEW n
      PROVE  Set(r, Shift(bits, n)) \in Seq(X) /\ Clear(r, Shift(bits, n)) \in Seq(X)
  <2> DEFINE b == Shift(bits, n)
             s == [op |-> "set", reg |-> r, bits |-> b]
             c == [op |-> "clear", reg |-> r, bits |-> b]
  <2>1. b \in SUBSET (0..31)
    BY DEF Shift
  <2> HIDE DEF b
  <2>2. s \in Setting /\ c \in Setting
    BY <2>1 DEF Setting
  <2>3. s \in X /\ c \in X
    BY <1>2, <2>2
  <2> HIDE DEF X
  <2> QED BY <2>3 DEF Set, Clear, b
<1>3. /\ moder \in PinRegs /\ afr \in PinRegs /\ <<port, "OTYPER">> \in PinRegs
      /\ <<port, "OSPEEDR">> \in PinRegs
      /\ moder[2] = "MODER" /\ afr[2] \in {"AFRL", "AFRH"}
  BY <1>1 DEF PinRegs
<1>4. p4 \in Seq(X)
  <2> DEFINE a == [op |-> "if", reg |-> moder, bits |-> mask, yes |-> <<>>, no |-> no]
  <2>1. no \in Seq(Setting) /\ <<>> \in Seq(Setting)
    <3>1. GPIO_MODE_AF \in SUBSET {0, 1}
      BY DEF GPIO_MODE_AF
    <3> QED BY <1>1, <3>1, SetModeConfigures
  <2>2. mask \in SUBSET (0..31)
    BY DEF Shift
  <2> HIDE DEF no, mask, moder
  <2>3. a \in Branching
    BY <1>3, <2>1, <2>2 DEF Branching
  <2>4. a \in X
    <3>1. a.reg[2] # "PUPDR"
      BY <1>3
    <3> QED BY <2>3, <3>1
  <2> HIDE DEF X
  <2> QED BY <2>4 DEF If
<1>5. /\ GPIO_Pin_Init(init) = p1 \o p2 \o p3 \o (p4 \o p5 \o p6)
      /\ p1 = Clear(<<port, "MODER">>, Shift({0, 1}, pin * 2))
                \o Set(<<port, "MODER">>, Shift(init.pin_mode, pin * 2))
      /\ p2 = Set(<<port, "OTYPER">>, Shift(init.output_type, pin))
      /\ p3 = Clear(<<port, "OSPEEDR">>, Shift({0, 1}, pin * 2))
                \o Set(<<port, "OSPEEDR">>, Shift(init.output_speed, pin * 2))
  BY Zenon DEF GPIO_Pin_Init, GPIO_Set_Mode, GPIO_Set_OutputType, GPIO_Set_OutputSpeed, GPIO_Set_AF
<1>6. p2 \in Seq(X) /\ p5 \in Seq(X) /\ p6 \in Seq(X)
  <2> DEFINE o == <<port, "OTYPER">>
  <2>1. afr[2] # "PUPDR" /\ o[2] # "PUPDR"
    BY <1>3
  <2> HIDE DEF X, afr, o
  <2> QED BY <1>2, <1>3, <1>5, <2>1
<1>7. p1 \in Seq(X) /\ p3 \in Seq(X)
  <2> DEFINE o == <<port, "OSPEEDR">>
  <2>1. moder[2] # "PUPDR" /\ o[2] # "PUPDR"
    OBVIOUS
  <2>2. /\ Clear(moder, Shift({0, 1}, pin * 2)) \in Seq(X)
        /\ Set(moder, Shift(init.pin_mode, pin * 2)) \in Seq(X)
        /\ Clear(o, Shift({0, 1}, pin * 2)) \in Seq(X)
        /\ Set(o, Shift(init.output_speed, pin * 2)) \in Seq(X)
    <3>1. o \in PinRegs
      BY <1>3
    <3> HIDE DEF X, moder, o
    <3> QED BY <1>2, <1>3, <2>1, <3>1
  <2>3. \A s, t \in Seq(X) : s \o t \in Seq(X)
    <3> HIDE DEF X
    <3> QED OBVIOUS
  <2> HIDE DEF X, p1, p3
  <2> QED BY <1>5, <2>2, <2>3
<1> HIDE DEF X, p1, p2, p3, p4, p5, p6
<1>8. GPIO_Pin_Init(init) \in Seq(X)
  <2>1. p4 \o p5 \o p6 \in Seq(X) /\ p1 \o p2 \o p3 \in Seq(X)
    BY <1>4, <1>6, <1>7
  <2> QED BY <1>5, <2>1
<1>9. \A s \in Seq(X) : ToSet(s) \subseteq X
  BY DEF ToSet
<1>10. \E a \in ToSet(GPIO_Pin_Init(init)) : a.reg = <<port, "AFRL">>
  <2> DEFINE c == [op |-> "clear", reg |-> afr, bits |-> Shift(0..3, pin * 4)]
  <2>1. /\ p1 \in Seq(Driving) /\ p2 \in Seq(Driving) /\ p3 \in Seq(Driving)
        /\ p4 \in Seq(Driving) /\ p5 \in Seq(Driving) /\ p6 \in Seq(Driving)
    <3>1. X \subseteq Driving
      BY DEF X, Driving, Configuring
    <3> QED BY <1>4, <1>6, <1>7, <3>1, SeqMonotonic
  <2>2. p5 = <<c>>
    BY Zenon DEF p5, Clear
  <2>3. c \in ToSet(p5)
    <3> HIDE DEF c
    <3>1. 1 \in DOMAIN <<c>> /\ <<c>>[1] = c
      OBVIOUS
    <3> QED BY <2>2, <3>1 DEF ToSet
  <2>4. afr = <<port, "AFRL">>
    BY DEF PinStructs
  <2>5. c.reg = afr
    OBVIOUS
  <2> HIDE DEF c, afr
  <2>6. p1 \o p2 \o p3 \in Seq(Driving) /\ p4 \o p5 \in Seq(Driving)
    BY <2>1
  <2>7. p4 \o p5 \o p6 \in Seq(Driving)
    BY <2>1, <2>6
  <2>8. c \in ToSet(p4 \o p5)
    BY <2>1, <2>3, Members
  <2>9. c \in ToSet(p4 \o p5 \o p6)
    BY <2>1, <2>6, <2>8, Members
  <2>10. c \in ToSet(p1 \o p2 \o p3 \o (p4 \o p5 \o p6))
    BY <2>6, <2>7, <2>9, Members
  <2> QED BY <1>5, <2>4, <2>5, <2>10
<1> QED BY <1>8, <1>9, <1>10 DEF X

LEMMA PinInitEffective ==
    ASSUME NEW init \in PinStructs, NEW g \in Values, Powered(PortClocks, g),
           \A w \in OnlySet(PinInit(init)) : g[w.reg] \cap w.field \subseteq w.value
    PROVE  Effective(PinInit(init), g)
<1> DEFINE port == init.gpiox
           pin == init.pin
           m == Want(<<port, "MODER">>, 2, pin, init.pin_mode)
           o == Want(<<port, "OTYPER">>, 1, pin, init.output_type)
           s == Want(<<port, "OSPEEDR">>, 2, pin, init.output_speed)
           l == Want(<<port, "PUPDR">>, 2, pin, init.pull)
           f == WantAF(port, pin, init.alternate_function)
           q == [reg |-> <<port, "OTYPER">>, field |-> Shift(init.output_type, pin),
                 value |-> Shift(init.output_type, pin)]
           a1 == GPIO_Set_Mode(port, pin, init.pin_mode)
           a2 == GPIO_Set_OutputType(port, pin, init.output_type)
           a3 == GPIO_Set_OutputSpeed(port, pin, init.output_speed)
           a4 == GPIO_Set_AF(port, pin, init.alternate_function)
           P == PortClocks
           D == P \cup {ModeBit(port, pin)}
           W == {m, o, s, l, f}
           V == {m, q, s, f}
<1>1. /\ port \in Ports /\ pin \in 0..7 /\ pin \in 0..15 /\ pin \in 0..31
      /\ init.pin_mode \in SUBSET {0, 1} /\ 1 \in init.pin_mode
      /\ init.output_type \in SUBSET {0} /\ init.output_speed \in SUBSET {0, 1}
      /\ init.pull = {} /\ init.alternate_function \in SUBSET (0..3)
  BY DEF PinStructs, GPIO_MODE_AF, GPIO_MODE_ANALOG
<1>2. /\ P \in SUBSET Bit /\ D \in SUBSET Bit /\ ClockOf(port) \subseteq P
      /\ ClockOf(port) \subseteq D /\ ModeBit(port, pin) \in D
      /\ \A c \in P : c[1][1] = "RCC"
  <2>1. P \in SUBSET Bit /\ ClockOf(port) \subseteq P
    BY <1>1, PortClocksWanted
  <2>2. ModeBit(port, pin) \in Bit
    <3>1. <<port, "MODER">> \in TrackedReg /\ 2 * pin + 1 \in 0..31
      BY <1>1 DEF TrackedReg, ConfReg, AskedReg, PinRegs
    <3> QED BY <3>1 DEF ModeBit, Bit
  <2>3. \A c \in P : c[1][1] = "RCC"
    BY DEF PortClocks, AHB1ENR
  <2> HIDE DEF P, port, pin
  <2> QED BY <2>1, <2>2, <2>3
<1>3. Works(a1, P, {m}) /\ Works(a3, P, {s})
  BY <1>1, <1>2, SetModeWorks, SetSpeedWorks
<1>4. Works(a2, P, {q})
  BY <1>1, OutputTypeWorks
<1>5. Works(a4, D, {f})
  <2>1. AFField(port, pin, init.alternate_function) = f
    BY <1>1, AFFieldIs
  <2>2. Works(a4, D, {AFField(port, pin, init.alternate_function)})
    <3> HIDE DEF D
    <3> QED BY <1>1, <1>2, SetAFWorks
  <2> QED BY <2>1, <2>2
<1>6. /\ m.reg = <<port, "MODER">> /\ o.reg = <<port, "OTYPER">> /\ s.reg = <<port, "OSPEEDR">>
      /\ l.reg = <<port, "PUPDR">> /\ f.reg = <<port, "AFRL">> /\ q.reg = <<port, "OTYPER">>
  BY <1>1 DEF Want, WantAF
<1>7. /\ o.field = {pin} /\ o.value = q.value /\ q.field = q.value /\ q.value \subseteq {pin}
      /\ l.value = {} /\ l.field \subseteq 0..31
  <2>1. o = [reg |-> <<port, "OTYPER">>, field |-> {pin},
             value |-> IF 0 \in init.output_type THEN {pin} ELSE {}]
    BY <1>1, WantBit
  <2>2. Shift(init.output_type, pin) = IF 0 \in init.output_type THEN {pin} ELSE {}
    BY <1>1, TypeBits
  <2>3. l.value = {} /\ l.field \subseteq 0..31
    <3>1. l.value = {2 * pin + i : i \in {}} /\ l.field = {2 * pin + i : i \in 0..(2 - 1)}
      BY <1>1 DEF Want
    <3>2. \A i \in 0..(2 - 1) : 2 * pin + i \in 0..31
      BY <1>1
    <3> HIDE DEF l
    <3> QED BY <3>1, <3>2
  <2> DEFINE b == IF 0 \in init.output_type THEN {pin} ELSE {}
  <2>4. o.field = {pin} /\ o.value = b /\ b \subseteq {pin}
    BY <2>1
  <2>5. q.field = b /\ q.value = b
    BY <2>2
  <2> HIDE DEF o, q, l, b
  <2> QED BY <2>3, <2>4, <2>5
<1>8. 2 * pin + 1 \in m.value
  BY <1>1 DEF Want
<1>9. GPIO_Pin_Init(init) = a1 \o a2 \o a3 \o a4 /\ PinInit(init) = Call(GPIO_Pin_Init(init), W)
  BY Zenon DEF GPIO_Pin_Init, PinInit
<1>10. \A w \in W : w.reg \in AskedReg
  <2>1. \A name \in {"MODER", "OTYPER", "OSPEEDR", "PUPDR", "AFRL"} : <<port, name>> \in AskedReg
    BY <1>1 DEF AskedReg, PinRegs
  <2> HIDE DEF m, o, s, l, f, port
  <2> QED BY <1>6, <2>1
<1>11. \A w \in {o, l} : w \in OnlySet(PinInit(init))
  <2>1. PinInit(init).wishes = W /\ PinInit(init).accesses = GPIO_Pin_Init(init)
    BY <1>9 DEF Call
  <2>2. o.reg[2] = "OTYPER" /\ l.reg[2] = "PUPDR" /\ {o, l} \subseteq W
    BY <1>6
  <2>3. \A a \in ToSet(GPIO_Pin_Init(init)) : a.reg # l.reg
    BY <2>2, PinInitRegs
  <2> HIDE DEF m, o, s, l, f, W
  <2> QED BY <2>1, <2>2, <2>3 DEF OnlySet
<1>12. ModeBit(port, pin) = <<m.reg, 2 * pin + 1>>
  BY <1>6 DEF ModeBit
<1> HIDE DEF port, a1, a2, a3, a4, m, o, s, l, f, q
<1>13. Works(a1 \o a2, P, {m} \cup {q})
  <2>1. Agree({m}, {q}) /\ \A c \in P : ~About({m}, c[1], c[2])
    <3>1. m.reg # q.reg /\ m.reg[1] = port /\ port # "RCC"
      BY <1>1, <1>6, PeripheralsApart
    <3> QED BY <1>2, <3>1 DEF Agree, About
  <2> QED BY <1>2, <1>3, <1>4, <2>1, WorksThen
<1> DEFINE V2 == {m} \cup {q}
           V3 == V2 \cup {s}
           s2 == a1 \o a2
           s3 == s2 \o a3
<1>14. Works(s3, P, V3)
  <2>1. Agree(V2, {s}) /\ \A c \in P : ~About(V2, c[1], c[2])
    <3>1. /\ m.reg # s.reg /\ q.reg # s.reg /\ m.reg[1] = port /\ q.reg[1] = port
          /\ port # "RCC"
      BY <1>1, <1>6, PeripheralsApart
    <3> QED BY <1>2, <3>1 DEF Agree, About
  <2> HIDE DEF V2, s2
  <2> QED BY <1>2, <1>3, <1>13, <2>1, WorksThen DEF V2, s2
<1>15. Works(s3 \o a4, P, V3 \cup {f})
  <2>1. Agree(V3, {f})
    <3>1. m.reg # f.reg /\ q.reg # f.reg /\ s.reg # f.reg
      BY <1>6
    <3> QED BY <3>1 DEF Agree
  <2>2. ASSUME NEW c \in D PROVE (c \in P /\ ~About(V3, c[1], c[2])) \/ Wanted(V3, c[1], c[2])
    <3>1. CASE c \in P
      <4>1. /\ m.reg[1] = port /\ q.reg[1] = port /\ s.reg[1] = port /\ port # "RCC"
        BY <1>1, <1>6, PeripheralsApart
      <4>2. \A v \in V3 : v.reg # c[1]
        BY <1>2, <3>1, <4>1
      <4> QED BY <3>1, <4>2 DEF About
    <3>2. CASE c = ModeBit(port, pin)
      <4>1. c[1] = m.reg /\ c[2] \in m.value
        BY <1>8, <1>12, <3>2
      <4> QED BY <4>1 DEF Wanted
    <3> QED BY <3>1, <3>2
  <2> HIDE DEF V3, s3, D, P
  <2> QED BY <1>2, <1>5, <1>14, <2>1, <2>2, WorksConcat
<1>16. Works(GPIO_Pin_Init(init), P, V)
  <2>1. V3 \cup {f} = V
    OBVIOUS
  <2> QED BY <1>9, <1>15, <2>1
<1>17. V \in Wishes /\ W \in Wishes
  <2>1. V \in Wishes
    BY <1>16 DEF Works
  <2>2. m \in Wish /\ s \in Wish /\ f \in Wish /\ m.value \subseteq m.field
        /\ s.value \subseteq s.field /\ f.value \subseteq f.field
    BY <2>1 DEF Wishes
  <2>3. o \in Wish /\ l \in Wish
    <3>1. \A w \in {o, l} : w = [reg |-> w.reg, field |-> w.field, value |-> w.value]
      BY DEF o, l, Want
    <3>2. o.reg \in TrackedReg /\ l.reg \in TrackedReg
      BY <1>10, AskedApart
    <3>3. o.field \in SUBSET (0..31) /\ l.field \in SUBSET (0..31) /\ o.value \in SUBSET (0..31)
          /\ l.value \in SUBSET (0..31)
      BY <1>1, <1>7
    <3> QED BY <3>1, <3>2, <3>3 DEF Wish
  <2>4. o.value \subseteq o.field /\ l.value \subseteq l.field
    BY <1>7
  <2> QED BY <2>1, <2>2, <2>3, <2>4 DEF Wishes
<1>18. Fulfil(g, V) = Fulfil(g, W)
  <2>1. ASSUME NEW r \in TrackedReg, NEW k \in 0..31
        PROVE  /\ Wanted(V, r, k) <=> Wanted(W, r, k)
               /\ About(V, r, k) => About(W, r, k)
               /\ About(W, r, k) /\ k \in g[r] => Wanted(W, r, k) \/ About(V, r, k)
    <3>1. Wanted(V, r, k) <=> Wanted(W, r, k)
      BY <1>6, <1>7 DEF Wanted
    <3>2. About(V, r, k) => About(W, r, k)
      BY <1>6, <1>7 DEF About
    <3>3. ASSUME NEW w \in W, w.reg = r, k \in w.field, k \in g[r]
          PROVE  Wanted(W, r, k) \/ About(V, r, k)
      <4>1. CASE w \in V
        BY <3>3, <4>1 DEF About
      <4>2. CASE w \in {o, l}
        <5>1. w \in OnlySet(PinInit(init))
          BY <1>11, <4>2
        <5>2. g[w.reg] \cap w.field \subseteq w.value
          BY <5>1
        <5> QED BY <3>3, <5>2 DEF Wanted
      <4> QED BY <4>1, <4>2
    <3>4. About(W, r, k) /\ k \in g[r] => Wanted(W, r, k) \/ About(V, r, k)
      BY <3>3 DEF About
    <3> QED BY <3>1, <3>2, <3>4
  <2> HIDE DEF V, W
  <2> QED BY <1>17, <2>1, SameFulfilled
<1>19. Does(GPIO_Pin_Init(init), g, Fulfil(g, W))
  <2> HIDE DEF V, W
  <2>1. Does(GPIO_Pin_Init(init), g, Fulfil(g, V))
    BY <1>16 DEF Works
  <2> QED BY <1>18, <2>1
<1>20. PinInit(init).wishes = W /\ PinInit(init).accesses = GPIO_Pin_Init(init)
  BY <1>9 DEF Call
<1> HIDE DEF W
<1> QED BY <1>10, <1>17, <1>19, <1>20 DEF Effective

LEMMA LineWorks ==
    ASSUME NEW name \in {"IMR", "RTSR", "FTSR"}, NEW line \in 0..22
    PROVE  Works(Set(<<"EXTI", name>>, {line}), PortClocks,
                 {[reg |-> <<"EXTI", name>>, field |-> {line}, value |-> {line}]})
<1> DEFINE r == <<"EXTI", name>>
<1>1. r \in LineRegs /\ r[1] = "EXTI" /\ r \in TrackedReg /\ {line} \in SUBSET (0..31)
  BY DEF LineRegs, TrackedReg, ConfReg, AskedReg
<1>2. ClockOf(r[1]) \subseteq PortClocks /\ PortClocks \in SUBSET Bit
  <2>1. "EXTI" \notin (DOMAIN Clock) \cup (DOMAIN Usart)
    BY UsartFacts DEF Clock
  <2> QED BY <1>1, <2>1, ClockOfIs, PortClocksWanted
<1> HIDE DEF r
<1>3. [op |-> "set", reg |-> r, bits |-> {line}] \in Driving
  <2>1. [op |-> "set", reg |-> r, bits |-> {line}] \in Setting
    BY <1>1 DEF Setting
  <2> QED BY <2>1 DEF Driving, Configuring
<1>4. Works(<<[op |-> "set", reg |-> r, bits |-> {line}]>>, PortClocks,
            {[reg |-> r, field |-> {line}, value |-> {line}]})
  BY <1>1, <1>2, <1>3, SetWorks
<1> QED BY <1>4 DEF Set, r

LEMMA LineEffective ==
    ASSUME NEW line \in 0..22, NEW trigger \in SUBSET {"rising", "falling"},
           NEW g \in Values, Powered(PortClocks, g),
           \A w \in OnlySet(LineEnable(line, trigger)) : g[w.reg] \cap w.field \subseteq w.value
    PROVE  Effective(LineEnable(line, trigger), g)
<1> DEFINE P == PortClocks
           R(name) == <<"EXTI", name>>
           v(name) == [reg |-> R(name), field |-> {line}, value |-> {line}]
           up == "rising" \in trigger
           down == "falling" \in trigger
           edge(e) == IF e \in trigger THEN {0} ELSE {}
           i == Want(R("IMR"), 1, line, {0})
           r == Want(R("RTSR"), 1, line, edge("rising"))
           f == Want(R("FTSR"), 1, line, edge("falling"))
           e1 == Set(R("IMR"), {line})
           e2 == When(up, Set(R("RTSR"), {line}))
           e3 == When(down, Set(R("FTSR"), {line}))
           V1 == {v("IMR")}
           V2 == IF up THEN {v("RTSR")} ELSE {}
           V3 == IF down THEN {v("FTSR")} ELSE {}
           W == {i, r, f}
           V == V1 \cup V2 \cup V3
<1>1. P \in SUBSET Bit /\ \A c \in P : c[1][1] = "RCC"
  <2>1. \A c \in P : c[1][1] = "RCC"
    BY DEF PortClocks, AHB1ENR
  <2> QED BY <2>1, PortClocksWanted
<1>2. Works(e1, P, V1) /\ Works(e2, P, V2) /\ Works(e3, P, V3)
  <2> DEFINE s2 == Set(R("RTSR"), {line})
             s3 == Set(R("FTSR"), {line})
             X2 == {v("RTSR")}
             X3 == {v("FTSR")}
  <2>1. Works(e1, P, V1) /\ Works(s2, P, X2) /\ Works(s3, P, X3)
    BY LineWorks
  <2> HIDE DEF s2, s3, X2, X3, up, down, P
  <2>2. Works(When(up, s2), P, IF up THEN X2 ELSE {})
    BY <2>1, WorksWhen
  <2>3. Works(When(down, s3), P, IF down THEN X3 ELSE {})
    BY <2>1, WorksWhen
  <2> QED BY <2>1, <2>2, <2>3 DEF s2, s3, X2, X3
<1>3. EXTI_Line_Enable(line, trigger) = e1 \o e2 \o e3
  BY Zenon DEF EXTI_Line_Enable
<1>4. LineEnable(line, trigger) = Call(EXTI_Line_Enable(line, trigger), W)
  BY Zenon DEF LineEnable
<1>5. /\ i = v("IMR")
      /\ r = [reg |-> R("RTSR"), field |-> {line}, value |-> IF up THEN {line} ELSE {}]
      /\ f = [reg |-> R("FTSR"), field |-> {line}, value |-> IF down THEN {line} ELSE {}]
  <2>1. /\ line \in 0..31 /\ {0} \in SUBSET {0} /\ 0 \in {0}
        /\ edge("rising") \in SUBSET {0} /\ edge("falling") \in SUBSET {0}
        /\ 0 \in edge("rising") <=> up
        /\ 0 \in edge("falling") <=> down
    OBVIOUS
  <2> HIDE DEF edge, up, down, R
  <2>2. i = [reg |-> R("IMR"), field |-> {line}, value |-> IF 0 \in {0} THEN {line} ELSE {}]
    BY ONLY <2>1, WantBit
  <2>3. r = [reg |-> R("RTSR"), field |-> {line}, value |-> IF 0 \in edge("rising") THEN {line} ELSE {}]
    BY ONLY <2>1, WantBit
  <2>4. f = [reg |-> R("FTSR"), field |-> {line}, value |-> IF 0 \in edge("falling") THEN {line} ELSE {}]
    BY ONLY <2>1, WantBit
  <2> HIDE DEF i, r, f
  <2> QED BY <2>1, <2>2, <2>3, <2>4
<1>6. /\ i.reg = R("IMR") /\ i.field = {line} /\ i.value = {line}
      /\ r.reg = R("RTSR") /\ r.field = {line} /\ r.value = IF up THEN {line} ELSE {}
      /\ f.reg = R("FTSR") /\ f.field = {line} /\ f.value = IF down THEN {line} ELSE {}
  <2> HIDE DEF i, r, f, up, down, R
  <2> QED BY <1>5
<1>7. \A name : v(name).reg = R(name) /\ v(name).field = {line} /\ v(name).value = {line}
  OBVIOUS
<1>8. /\ R("IMR") # R("RTSR") /\ R("IMR") # R("FTSR") /\ R("RTSR") # R("FTSR")
      /\ R("IMR") \in AskedReg /\ R("RTSR") \in AskedReg /\ R("FTSR") \in AskedReg
      /\ \A name : R(name)[1] = "EXTI"
  BY DEF AskedReg, LineRegs
<1>9. {i, r, f} \subseteq OnlySet(LineEnable(line, trigger))
  <2>1. /\ LineEnable(line, trigger).wishes = W
        /\ LineEnable(line, trigger).accesses = EXTI_Line_Enable(line, trigger)
    BY <1>4 DEF Call
  <2>2. \A w \in {i, r, f} : w.reg[2] \in {"IMR", "RTSR", "FTSR"}
    BY <1>6
  <2> HIDE DEF i, r, f
  <2> QED BY <2>1, <2>2 DEF OnlySet
<1>10. W \in Wishes /\ \A w \in W : w.reg \in AskedReg
  <2>1. {line} \in SUBSET (0..31)
    OBVIOUS
  <2>2. \A w \in W : w = [reg |-> w.reg, field |-> w.field, value |-> w.value]
    BY DEF Want
  <2> HIDE DEF i, r, f, R, up, down
  <2>3. \A w \in W : /\ w.reg \in AskedReg /\ w.reg \in TrackedReg /\ w.field = {line}
                     /\ w.value \in {{}, {line}}
    BY <1>6, <1>8, AskedApart
  <2> HIDE DEF W
  <2> QED BY <2>1, <2>2, <2>3 DEF Wishes, Wish
<1> HIDE DEF e1, e2, e3, v, R, up, down, i, r, f, P
<1>11. /\ Agree(V1, V2) /\ Agree(V1 \cup V2, V3)
       /\ \A c \in P : ~About(V1, c[1], c[2]) /\ ~About(V1 \cup V2, c[1], c[2])
  <2>1. /\ \A w \in V1 : w.reg = R("IMR")
        /\ \A w \in V2 : w.reg = R("RTSR")
        /\ \A w \in V3 : w.reg = R("FTSR")
    BY <1>7
  <2>2. Agree(V1, V2) /\ Agree(V1, V3) /\ Agree(V2, V3)
    BY <1>8, <2>1 DEF Agree
  <2>3. \A c \in P : c[1] # R("IMR") /\ c[1] # R("RTSR")
    BY <1>1, <1>8
  <2> HIDE DEF V1, V2, V3
  <2>4. Agree(V1 \cup V2, V3)
    BY <2>2, AgreeBoth
  <2>5. \A c \in P : ~About(V1, c[1], c[2]) /\ ~About(V1 \cup V2, c[1], c[2])
    BY <2>1, <2>3 DEF About
  <2> QED BY <2>2, <2>4, <2>5
<1> DEFINE V12 == V1 \cup V2
           s2 == e1 \o e2
<1>12. Works(s2, P, V12)
  <2> HIDE DEF V1, V2
  <2> QED BY <1>1, <1>2, <1>11, WorksThen
<1>13. Works(s2 \o e3, P, V12 \cup V3)
  <2>1. Agree(V12, V3) /\ \A c \in P : ~About(V12, c[1], c[2])
    BY <1>11
  <2> HIDE DEF V12, s2, V3
  <2> QED BY <1>1, <1>2, <1>12, <2>1, WorksThen
<1>14. Works(EXTI_Line_Enable(line, trigger), P, V)
  BY <1>3, <1>13
<1>15. V \in Wishes /\ Does(EXTI_Line_Enable(line, trigger), g, Fulfil(g, V))
  BY <1>14 DEF Works, P
<1>16. Fulfil(g, V) = Fulfil(g, W)
  <2>1. ASSUME NEW q \in TrackedReg, NEW k \in 0..31
        PROVE  /\ Wanted(V, q, k) <=> Wanted(W, q, k)
               /\ About(V, q, k) => About(W, q, k)
               /\ About(W, q, k) /\ k \in g[q] => Wanted(W, q, k) \/ About(V, q, k)
    <3>1. Wanted(V, q, k) <=> Wanted(W, q, k)
      BY <1>6, <1>7 DEF Wanted
    <3>2. About(V, q, k) => About(W, q, k)
      BY <1>6, <1>7 DEF About
    <3>3. ASSUME NEW w \in W, w.reg = q, k \in w.field, k \in g[q] PROVE Wanted(W, q, k)
      <4>1. g[w.reg] \cap w.field \subseteq w.value
        BY <1>9
      <4> QED BY <3>3, <4>1 DEF Wanted
    <3>4. About(W, q, k) /\ k \in g[q] => Wanted(W, q, k)
      BY <3>3 DEF About
    <3> QED BY <3>1, <3>2, <3>4
  <2> HIDE DEF V, W
  <2> QED BY <1>10, <1>15, <2>1, SameFulfilled
<1>17. /\ LineEnable(line, trigger).wishes = W
       /\ LineEnable(line, trigger).accesses = EXTI_Line_Enable(line, trigger)
  BY <1>4 DEF Call
<1> HIDE DEF V, W
<1> QED BY <1>10, <1>15, <1>16, <1>17 DEF Effective

\* A call of the configuring task fulfils its wishes.
LEMMA CallEffective ==
    ASSUME NEW call \in SetupCalls, NEW g \in Values, Powered(PortClocks, g),
           \A w \in OnlySet(call) : g[w.reg] \cap w.field \subseteq w.value
    PROVE  Effective(call, g)
<1>1. Driven(call)
  BY ClientAssumption
<1>2. CASE \E port \in Ports, pin \in 0..15, value \in SUBSET {0, 1} :
              call \in {SetMode(port, pin, value), SetOutputSpeed(port, pin, value),
                       SetPull(port, pin, value), OpenDrain(port, pin)}
  <2>1. PICK port \in Ports, pin \in 0..15, value \in SUBSET {0, 1} :
              call \in {SetMode(port, pin, value), SetOutputSpeed(port, pin, value),
                       SetPull(port, pin, value), OpenDrain(port, pin)}
    BY <1>2
  <2>2. /\ Effective(SetMode(port, pin, value), g)
        /\ Effective(SetOutputSpeed(port, pin, value), g)
        /\ Effective(SetPull(port, pin, value), g)
        /\ Effective(OpenDrain(port, pin), g)
    BY SettersEffective
  <2> QED BY <2>1, <2>2
<1>3. CASE \E init \in PinStructs : call = PinInit(init)
  BY <1>3, PinInitEffective
<1>4. CASE \E line \in 0..22, trigger \in SUBSET {"rising", "falling"} :
              call = LineEnable(line, trigger)
  BY <1>4, LineEffective
<1> QED BY <1>1, <1>2, <1>3, <1>4 DEF Driven

-----------------------------------------------------------------------------
(* The configuration: one thread works at it, main or the configuring task. *)

Now  == [r \in TrackedReg |-> reg[r]]
Rest == todo["main"] \o todo["setup"]
Final(r) == After(Rest, Len(Rest), r, Now[r])

Configurers == {"main", "setup"}

\* The accesses that are left have the clocks and the modes that they need, a
\* value that was loaded is still that of its register, and in the end the ports
\* have a clock, and the usart its divider.
WorkRight ==
    /\ Now \in Values
    /\ \A t \in Configurers :
          loaded[t] # NotLoaded /\ Access(t).reg \in TrackedReg =>
              loaded[t] = reg[Access(t).reg]
    /\ Ready(Rest, Now)
    /\ \A c \in PortClocks : c[2] \in Final(c[1])
    /\ Final(<<usart.usartx, "BRR">>) = Divider(usart)

\* In the end every pin and every interrupt is as it was asked for, and none
\* has been asked for more than a call may ask that cannot clear it.
AskedRight ==
    /\ DOMAIN asked = AskedReg
    /\ \A r \in AskedReg : AFRight(r) => Final(r) = asked[r]
    /\ \A call \in SetupCalls : \A w \in OnlySet(call) :
          asked[w.reg] \cap w.field \subseteq w.value

\* The first access, and what is left after it.
LEMMA ReadyHead ==
    ASSUME NEW s \in Seq(Driving), s # <<>>, NEW g \in Values, Ready(s, g)
    PROVE  /\ Head(s).op = "if" => Head(s).yes = <<>>
           /\ \A n \in Needs(Head(s)) : n[1] \in TrackedReg /\ n[2] \in g[n[1]]
<1>1. 1 \in 1..Len(s) /\ s[1] = Head(s) /\ 1 - 1 = 0
  OBVIOUS
<1>2. /\ Head(s).op = "if" => Head(s).yes = <<>>
      /\ \A n \in Needs(Head(s)) : n[1] \in TrackedReg /\ n[2] \in After(s, 0, n[1], g[n[1]])
  BY <1>1 DEF Ready
<1>3. \A r \in TrackedReg : After(s, 0, r, g[r]) = g[r]
  BY AfterNone DEF Values
<1> QED BY <1>2, <1>3

LEMMA ReadyTail ==
    ASSUME NEW s \in Seq(Driving), s # <<>>, NEW g \in Values, Ready(s, g), NEW h,
           \A r \in TrackedReg : h[r] = Effect(Head(s), r, g[r])
    PROVE  /\ Ready(Tail(s), h)
           /\ \A r \in TrackedReg :
                 After(Tail(s), Len(Tail(s)), r, h[r]) = After(s, Len(s), r, g[r])
<1> DEFINE t == Tail(s)
<1>1. /\ Len(s) \in Nat /\ Len(s) >= 1 /\ Len(t) = Len(s) - 1
      /\ \A i \in 1..Len(t) : t[i] = s[i + 1] /\ i + 1 \in 1..Len(s)
  OBVIOUS
<1>2. ASSUME NEW r \in TrackedReg, NEW i \in 1..Len(s)
      PROVE  After(s, i, r, g[r]) = After(t, i - 1, r, h[r])
  BY AfterHead
<1> HIDE DEF t
<1>3. ASSUME NEW i \in 1..Len(t)
      PROVE  /\ t[i].op = "if" => t[i].yes = <<>>
             /\ \A n \in Needs(t[i]) :
                  n[1] \in TrackedReg /\ n[2] \in After(t, i - 1, n[1], h[n[1]])
  <2>1. /\ s[i + 1].op = "if" => s[i + 1].yes = <<>>
        /\ \A n \in Needs(s[i + 1]) :
             n[1] \in TrackedReg /\ n[2] \in After(s, (i + 1) - 1, n[1], g[n[1]])
    BY <1>1 DEF Ready
  <2>2. (i + 1) - 1 = i /\ i \in 1..Len(s)
    BY <1>1
  <2> QED BY <1>1, <1>2, <2>1, <2>2
<1>4. Ready(t, h)
  BY <1>3 DEF Ready
<1>5. Len(s) \in 1..Len(s) /\ Len(s) - 1 = Len(t)
  BY <1>1
<1> QED BY <1>2, <1>4, <1>5 DEF t

LEMMA UsartTracked ==
    ASSUME Typed
    PROVE  /\ SR \notin TrackedReg /\ ODR \notin TrackedReg
           /\ <<usart.usartx, "BRR">> \in TrackedReg
           /\ \A r \in TrackedReg : r \in Register
<1>1. usart.usartx \in DOMAIN Usart
  BY UsartIs
<1>2. \A r \in TrackedReg : r[2] \notin {"SR", "ODR"}
  <2>1. \A i \in {0, 32, 64} : ISER(i)[2] \in {"ISER0", "ISER1", "ISER2"}
    BY DEF ISER
  <2> QED BY <2>1 DEF TrackedReg, ConfReg, AskedReg, BrrReg, PinRegs, LineRegs, RccReg
<1>3. \A r \in TrackedReg : r \in Register
  BY DEF TrackedReg, ConfReg, AskedReg, BrrReg, RccReg, Register
<1> QED BY <1>1, <1>2, <1>3 DEF SR, ODR, TrackedReg, ConfReg, BrrReg

LEMMA RestIs ==
    ASSUME Typed, MainFirst
    PROVE  /\ Rest \in Seq(Driving)
           /\ ~Idle("main") => Idle("setup") /\ Rest = todo["main"]
           /\ Idle("main") => Rest = todo["setup"]
<1>1. Configuring \cup Sending \subseteq Driving
  BY UsartIs DEF Driving, Sending
<1>2. todo["main"] \in Seq(Driving) /\ todo["setup"] \in Seq(Driving)
  <2> DEFINE S == Configuring \cup Sending
  <2>1. todo["main"] \in Seq(S) /\ todo["setup"] \in Seq(S)
    BY CallersAccess DEF Caller
  <2> HIDE DEF S
  <2> QED BY <1>1, <2>1, SeqMonotonic DEF S
<1>3. ~Idle("main") => Idle("setup")
  BY DEF MainFirst, Task
<1>4. \A s, t \in Seq(Driving) : s \o t \in Seq(Driving)
  OBVIOUS
<1>5. \A s \in Seq(Driving) : s \o <<>> = s /\ <<>> \o s = s
  OBVIOUS
<1> QED BY <1>2, <1>3, <1>4, <1>5 DEF Rest, Idle

\* A step of main or of the configuring task does the next of the accesses, or
\* begins to.
WorkStep ==
    \/ Now' = Now /\ Rest' = Rest
    \/ /\ Rest # <<>> /\ Rest' = Tail(Rest)
       /\ Now' = [r \in TrackedReg |-> Effect(Head(Rest), r, Now[r])]

LEMMA ConfiguringStep ==
    ASSUME HalInv, HalInv', WorkRight, NEW t \in Configurers, Step(t)
    PROVE  /\ WorkStep
           /\ loaded'[t] # NotLoaded /\ Access(t)'.reg \in TrackedReg =>
                loaded'[t] = reg'[Access(t)'.reg]
<1> DEFINE a == Access(t)
<1> USE DEF HalInv
<1>1. /\ t \in Caller /\ t \in Thread /\ ~Idle(t) /\ todo[t] # <<>>
  <2>1. t \in Caller /\ t \in Thread
    BY DEF Configurers, Caller, Thread, Task
  <2> QED BY <2>1, StepTodo DEF Idle
<1>2. Rest = todo[t] /\ Rest # <<>> /\ Head(Rest) = a /\ Rest \in Seq(Driving) /\ a \in Driving
  <2>1. Rest = todo[t] /\ Rest \in Seq(Driving)
    BY <1>1, RestIs DEF Configurers, Idle
  <2> QED BY <1>1, <2>1 DEF Access
<1>3. Rest' = todo'[t]
  <2>1. t = "main" => todo'["setup"] = <<>> /\ todo'["setup"] = todo["setup"]
    BY <1>1, RestIs, StepTodo DEF Thread, Task, Idle
  <2>2. t = "setup" => todo'["main"] = <<>>
    BY <1>1, RestIs, StepTodo DEF Thread, Task, Idle
  <2>3. todo'["main"] \in Seq(Driving) /\ todo'["setup"] \in Seq(Driving)
    <3>1. Configuring \cup Sending' \subseteq Driving
      <4>1. usart'.usartx \in DOMAIN Usart
        <5>1. Typed' 
          OBVIOUS
        <5> QED BY <5>1, HalAssumption DEF Typed
      <4> QED BY <4>1 DEF Driving, Sending
    <3>2. Setting \cup Branching \subseteq Driving
      BY DEF Driving, Configuring
    <3>3. todo'["main"] \in Seq(Configuring \cup Sending') /\ todo'["setup"] \in Seq(Setting \cup Branching)
      BY DEF Typed
    <3> QED BY <3>1, <3>2, <3>3, SeqMonotonic
  <2>4. \A s \in Seq(Driving) : s \o <<>> = s /\ <<>> \o s = s
    OBVIOUS
  <2> QED BY <2>1, <2>2, <2>3, <2>4 DEF Rest, Configurers
<1>4. /\ Now \in Values /\ Ready(Rest, Now)
      /\ a.op = "if" => a.yes = <<>>
      /\ \A n \in Needs(a) : n[1] \in TrackedReg /\ n[2] \in Now[n[1]]
  BY <1>2, ReadyHead DEF WorkRight
<1>5. \A r \in TrackedReg : Now[r] = reg[r] /\ r \in Register /\ reg[r] \subseteq 0..31
  BY <1>4, UsartTracked DEF Now, Values
<1>6. Clocked(a.reg[1])
  BY <1>4, <1>5 DEF Needs, Clocked
<1>7. ASSUME a.op \in {"await", "if"}, reg' = reg, Rest' = Tail(Rest) PROVE WorkStep
  <2>1. \A r \in TrackedReg : Effect(a, r, Now[r]) = Now[r]
    <3>1. \A r, k : ~Sets(a, r, k) /\ ~Clears(a, r, k)
      BY <1>7 DEF Sets, Clears
    <3> QED BY <1>5, <3>1 DEF Effect
  <2>2. Now' = [r \in TrackedReg |-> Now[r]]
    BY <1>5, <1>7 DEF Now
  <2>3. [r \in TrackedReg |-> Now[r]] = [r \in TrackedReg |-> Effect(a, r, Now[r])]
    BY <2>1
  <2> QED BY <1>2, <1>7, <2>2, <2>3 DEF WorkStep
<1>8. ASSUME Rest' = Tail(Rest), \A r \in TrackedReg : reg'[r] = Effect(a, r, reg[r])
      PROVE  WorkStep
  <2>1. Now' = [r \in TrackedReg |-> Effect(a, r, Now[r])]
    BY <1>5, <1>8 DEF Now
  <2> QED BY <1>2, <1>8, <2>1 DEF WorkStep
<1>9. CASE Load(t)
  <2>1. /\ todo' = todo /\ reg' = reg /\ loaded'[t] = reg[a.reg]
    BY <1>1, <1>9, StepTodo DEF Load, others, Typed
  <2>2. Access(t)' = a
    BY <2>1 DEF Access
  <2> QED BY <2>1, <2>2 DEF WorkStep, Now, Rest
<1>10. CASE Store(t)
  <2> DEFINE v == IF a.op = "set" THEN loaded[t] \cup a.bits ELSE loaded[t] \ a.bits
  <2>1. /\ loaded[t] # NotLoaded /\ loaded'[t] = NotLoaded /\ a.op \in {"set", "clear"}
        /\ reg' = IF Clocked(a.reg[1]) THEN [reg EXCEPT ![a.reg] = v] ELSE reg
        /\ todo'[t] = Tail(todo[t])
    <3>1. loaded[t] # NotLoaded /\ a.op \in {"set", "clear"}
      BY <1>1, <1>10 DEF Store, LoadedRight
    <3>2. reg' = IF Clocked(a.reg[1]) THEN [reg EXCEPT ![a.reg] = v] ELSE reg
      BY <1>10 DEF Store
    <3>3. loaded'[t] = NotLoaded /\ todo'[t] = Tail(todo[t])
      BY <1>1, <1>10 DEF Store, Done, Typed
    <3> QED BY <3>1, <3>2, <3>3
  <2>2. a.reg \in Register /\ DOMAIN reg = Register
    BY <1>1, <2>1, CallersAccessIs DEF Typed
  <2>3. a.bits \subseteq 0..31
    <3>1. a \notin UNION {SendByte(u, Byte) \cup SendWait(u) : u \in DOMAIN Usart}
      BY <2>1 DEF SendByte, SendWait
    <3>2. a \in Configuring
      BY <1>2, <3>1 DEF Driving
    <3> QED BY <3>2 DEF Configuring, Setting, Branching
  <2>4. ASSUME NEW r \in TrackedReg PROVE reg'[r] = Effect(a, r, reg[r])
    <3>1. CASE r = a.reg
      <4>1. reg'[r] = v /\ loaded[t] = reg[r] /\ reg[r] \subseteq 0..31
        BY <1>5, <1>6, <2>1, <2>2, <3>1 DEF WorkRight
      <4>2. \A k : /\ Sets(a, r, k) <=> a.op = "set" /\ k \in a.bits
                   /\ Clears(a, r, k) <=> a.op = "clear" /\ k \in a.bits
        BY <2>1, <3>1 DEF Sets, Clears
      <4> QED BY <2>1, <2>3, <4>1, <4>2 DEF Effect
    <3>2. CASE r # a.reg
      <4>1. reg'[r] = reg[r] /\ reg[r] \subseteq 0..31
        <5> HIDE DEF v
        <5> QED BY <1>5, <2>1, <2>2, <3>2
      <4>2. \A k : ~Sets(a, r, k) /\ ~Clears(a, r, k)
        BY <3>2 DEF Sets, Clears
      <4> QED BY <4>1, <4>2 DEF Effect
    <3> QED BY <3>1, <3>2
  <2> QED BY <1>2, <1>3, <1>8, <2>1, <2>4
<1>11. CASE Assign(t)
  <2>1. /\ a.op = "write" /\ a.reg[2] # "DR" /\ a.reg[2] # "BSRR" /\ a.reg \in Register
        /\ reg' = Assigned(a) /\ todo'[t] = Tail(todo[t]) /\ loaded'[t] = NotLoaded
    <3>1. a.op = "write" /\ a.reg[2] # "DR"
      BY <1>11 DEF Assign
    <3>2. a.reg[2] # "BSRR" /\ a.reg \in Register
      BY <1>1, <3>1, CallersAccessIs
    <3>3. reg' = Assigned(a)
      BY <1>6, <1>11 DEF Assign
    <3>4. todo'[t] = Tail(todo[t]) /\ loaded'[t] = NotLoaded
      <4>1. loaded[t] = NotLoaded
        BY <1>1, <3>1 DEF LoadedRight
      <4> QED BY <1>1, <1>11, <4>1 DEF Assign, Done, Typed
    <3> QED BY <3>1, <3>2, <3>3, <3>4
  <2>2. a.bits \subseteq 0..31
    <3>1. a \notin UNION {SendByte(u, Byte) \cup SendWait(u) : u \in DOMAIN Usart}
      BY <2>1 DEF SendByte, SendWait
    <3> QED BY <1>2, <3>1 DEF Driving, Configuring, Setting, Branching
  <2>3. reg' = [reg EXCEPT ![a.reg] = IF a.reg[1] = "NVIC" THEN reg[a.reg] \cup a.bits ELSE a.bits]
    BY <2>1 DEF Assigned
  <2>4. ASSUME NEW r \in TrackedReg PROVE reg'[r] = Effect(a, r, reg[r])
    <3>1. reg[r] \subseteq 0..31 /\ r \in DOMAIN reg /\ a.reg \in DOMAIN reg
      BY <1>5, <2>1 DEF Typed
    <3>2. CASE r = a.reg
      <4>1. reg'[r] = IF r[1] = "NVIC" THEN reg[r] \cup a.bits ELSE a.bits
        BY <2>3, <3>1, <3>2
      <4>2. \A k : /\ Sets(a, r, k) <=> k \in a.bits
                   /\ Clears(a, r, k) <=> r[1] # "NVIC" /\ k \notin a.bits
        BY <2>1, <3>2 DEF Sets, Clears
      <4> QED BY <2>2, <3>1, <4>1, <4>2 DEF Effect
    <3>3. CASE r # a.reg
      <4>1. reg'[r] = reg[r]
        BY <2>3, <3>1, <3>3
      <4>2. \A k : ~Sets(a, r, k) /\ ~Clears(a, r, k)
        BY <3>3 DEF Sets, Clears
      <4> QED BY <3>1, <4>1, <4>2 DEF Effect
    <3> QED BY <3>2, <3>3
  <2> QED BY <1>2, <1>3, <1>8, <2>1, <2>4
<1>12. CASE WriteDR(t)
  <2>1. /\ a.op = "write" /\ a.reg[2] = "DR" /\ a \in SendByte(usart.usartx, Byte)
        /\ todo'[t] = Tail(todo[t]) /\ loaded'[t] = NotLoaded
    <3>1. a.op = "write" /\ a.reg[2] = "DR"
      BY <1>12 DEF WriteDR
    <3>2. a \in SendByte(usart.usartx, Byte)
      BY <1>1, <3>1, CallersAccessIs
    <3>4. todo'[t] = Tail(todo[t]) /\ loaded'[t] = NotLoaded
      <4>1. loaded[t] = NotLoaded
        BY <1>1, <3>1 DEF LoadedRight
      <4> QED BY <1>1, <1>12, <4>1 DEF WriteDR, Done, Typed
    <3> QED BY <3>1, <3>2, <3>4
  <2>2. a.reg = <<usart.usartx, "DR">> /\ reg' = [reg EXCEPT ![SR] = @ \ {TXE, TC}]
    <3>1. a.reg = <<usart.usartx, "DR">>
      BY <2>1 DEF SendByte
    <3> QED BY <1>12, <3>1 DEF WriteDR, SR
  <2>3. ASSUME NEW r \in TrackedReg PROVE reg'[r] = Effect(a, r, reg[r])
    <3>1. r # SR /\ r # a.reg
      <4>1. \A q \in TrackedReg : q[2] # "DR"
        <5>1. \A i \in {0, 32, 64} : ISER(i)[2] \in {"ISER0", "ISER1", "ISER2"}
          BY DEF ISER
        <5> QED BY <5>1 DEF TrackedReg, ConfReg, AskedReg, BrrReg, PinRegs, LineRegs, RccReg
      <4> QED BY <2>1, <4>1, UsartTracked
    <3>2. reg'[r] = reg[r] /\ reg[r] \subseteq 0..31
      BY <1>5, <2>2, <3>1 DEF Typed
    <3>3. \A k : ~Sets(a, r, k) /\ ~Clears(a, r, k)
      BY <3>1 DEF Sets, Clears
    <3> QED BY <3>2, <3>3 DEF Effect
  <2> QED BY <1>2, <1>3, <1>8, <2>1, <2>3
<1>13. CASE Poll(t)
  <2>1. a.op = "await" /\ reg' = reg /\ loaded' = loaded /\ loaded[t] = NotLoaded
    BY <1>1, <1>13 DEF Poll, LoadedRight
  <2>2. todo' = todo \/ todo'[t] = Tail(todo[t])
    BY <1>1, <1>13 DEF Poll, Typed
  <2> QED BY <1>2, <1>3, <1>7, <2>1, <2>2 DEF WorkStep, Now, Rest
<1>14. CASE Branch(t)
  <2>1. a.op = "if" /\ reg' = reg /\ loaded' = loaded /\ loaded[t] = NotLoaded
    BY <1>1, <1>14 DEF Branch, LoadedRight
  <2>2. a.bits \subseteq reg[a.reg] /\ a.yes = <<>>
    <3>1. \A b \in a.bits : <<a.reg, b>> \in Needs(a)
      BY <2>1 DEF Needs
    <3> QED BY <1>4, <1>5, <2>1, <3>1
  <2>3. todo'[t] = <<>> \o Tail(todo[t])
    BY <1>1, <1>14, <2>2 DEF Branch, Typed
  <2>4. todo'[t] = Tail(todo[t])
    <3>1. Tail(todo[t]) \in Seq(Driving)
      BY <1>2
    <3> QED BY <2>3, <3>1
  <2> QED BY <1>2, <1>3, <1>7, <2>1, <2>4
<1> QED BY <1>9, <1>10, <1>11, <1>12, <1>13, <1>14 DEF Step

LEMMA OnlySetApart ==
    ASSUME NEW call \in SetupCalls, NEW w \in OnlySet(call)
    PROVE  w.reg \in AskedReg /\ w.reg[2] \notin {"AFRL", "AFRH"}
<1> DEFINE Apart(r) == r \in AskedReg /\ r[2] \notin {"AFRL", "AFRH"}
<1>1. /\ w \in call.wishes
      /\ w.reg[2] \in {"AFRL", "AFRH"} => \A a \in ToSet(call.accesses) : a.reg # w.reg
  BY DEF OnlySet
<1>2. /\ \A port \in Ports, name \in {"MODER", "OTYPER", "OSPEEDR", "PUPDR"} :
           Apart(<<port, name>>)
      /\ \A name \in {"IMR", "RTSR", "FTSR"} : Apart(<<"EXTI", name>>)
  BY DEF AskedReg, PinRegs, LineRegs
<1>3. \A r, n, p, v : Want(r, n, p, v).reg = r
  BY DEF Want
<1> HIDE DEF Apart
<1>4. Driven(call)
  BY ClientAssumption
<1>5. CASE \E port \in Ports, pin \in 0..15, value \in SUBSET {0, 1} :
              call \in {SetMode(port, pin, value), SetOutputSpeed(port, pin, value),
                       SetPull(port, pin, value), OpenDrain(port, pin)}
  <2>1. PICK port \in Ports, pin \in 0..15, value \in SUBSET {0, 1} :
              call \in {SetMode(port, pin, value), SetOutputSpeed(port, pin, value),
                       SetPull(port, pin, value), OpenDrain(port, pin)}
    BY <1>5
  <2>2. /\ SetMode(port, pin, value).wishes = {Want(<<port, "MODER">>, 2, pin, value)}
        /\ SetOutputSpeed(port, pin, value).wishes = {Want(<<port, "OSPEEDR">>, 2, pin, value)}
        /\ SetPull(port, pin, value).wishes = {Want(<<port, "PUPDR">>, 2, pin, value)}
        /\ OpenDrain(port, pin).wishes = {Want(<<port, "OTYPER">>, 1, pin, {0})}
    BY DEF SetMode, SetOutputSpeed, SetPull, OpenDrain, Call
  <2>3. w.reg \in {<<port, "MODER">>, <<port, "OSPEEDR">>, <<port, "PUPDR">>, <<port, "OTYPER">>}
    BY <1>1, <1>3, <2>1, <2>2
  <2> QED BY <1>2, <2>3 DEF Apart
<1>6. CASE \E init \in PinStructs : call = PinInit(init)
  <2>1. PICK init \in PinStructs : call = PinInit(init)
    BY <1>6
  <2> DEFINE f == WantAF(init.gpiox, init.pin, init.alternate_function)
             R == {<<init.gpiox, "MODER">>, <<init.gpiox, "OTYPER">>,
                   <<init.gpiox, "OSPEEDR">>, <<init.gpiox, "PUPDR">>}
  <2>2. call.accesses = GPIO_Pin_Init(init) /\ (w.reg \in R \/ w = f)
    <3>1. /\ call.accesses = GPIO_Pin_Init(init)
          /\ call.wishes =
               {Want(<<init.gpiox, "MODER">>, 2, init.pin, init.pin_mode),
                Want(<<init.gpiox, "OTYPER">>, 1, init.pin, init.output_type),
                Want(<<init.gpiox, "OSPEEDR">>, 2, init.pin, init.output_speed),
                Want(<<init.gpiox, "PUPDR">>, 2, init.pin, init.pull), f}
      BY <2>1 DEF PinInit, Call
    <3> HIDE DEF f
    <3> QED BY <1>1, <1>3, <3>1
  <2>3. f.reg = <<init.gpiox, "AFRL">>
    BY <1>3 DEF PinStructs, WantAF
  <2>4. w.reg \in R
    <3> HIDE DEF f
    <3> QED BY <1>1, <2>2, <2>3, PinInitRegs
  <2>5. init.gpiox \in Ports
    BY DEF PinStructs
  <2> QED BY <1>2, <2>4, <2>5 DEF Apart
<1>7. CASE \E line \in 0..22, trigger \in SUBSET {"rising", "falling"} :
              call = LineEnable(line, trigger)
  <2>1. PICK line \in 0..22, trigger \in SUBSET {"rising", "falling"} :
              call = LineEnable(line, trigger)
    BY <1>7
  <2>2. w.reg \in {<<"EXTI", "IMR">>, <<"EXTI", "RTSR">>, <<"EXTI", "FTSR">>}
    BY <1>1, <1>3, <2>1 DEF LineEnable, Call
  <2> QED BY <1>2, <2>2 DEF Apart
<1> QED BY <1>4, <1>5, <1>6, <1>7 DEF Driven

LEMMA WorkGoesOn ==
    ASSUME WorkStep, Rest \in Seq(Driving), WorkRight
    PROVE  /\ Now' \in Values /\ Ready(Rest', Now')
           /\ \A r \in TrackedReg : Final(r)' = Final(r)
<1>1. CASE Now' = Now /\ Rest' = Rest
  BY <1>1 DEF WorkRight, Final
<1>2. CASE Rest # <<>> /\ Rest' = Tail(Rest)
           /\ Now' = [r \in TrackedReg |-> Effect(Head(Rest), r, Now[r])]
  <2> DEFINE h == [r \in TrackedReg |-> Effect(Head(Rest), r, Now[r])]
  <2>1. \A r \in TrackedReg : h[r] = Effect(Head(Rest), r, Now[r])
    OBVIOUS
  <2>2. h \in Values
    BY DEF Values, Effect
  <2>3. Now \in Values /\ Ready(Rest, Now)
    BY DEF WorkRight
  <2> HIDE DEF h
  <2>4. /\ Ready(Tail(Rest), h)
        /\ \A r \in TrackedReg :
              After(Tail(Rest), Len(Tail(Rest)), r, h[r]) = After(Rest, Len(Rest), r, Now[r])
    BY <1>2, <2>1, <2>3, ReadyTail
  <2>5. Now' = h
    BY <1>2 DEF h
  <2> QED BY <1>2, <2>2, <2>4, <2>5 DEF Final
<1> QED BY <1>1, <1>2 DEF WorkStep

\* What concerns the configuration stays as it is.
Apart ==
    /\ \A r \in TrackedReg : reg'[r] = reg[r]
    /\ \A t \in Configurers : todo'[t] = todo[t] /\ loaded'[t] = loaded[t]
    /\ asked' = asked /\ usart' = usart

LEMMA LedApart ==
    ASSUME HalInv, NEW l \in Led, Step(l)
    PROVE  Apart
<1> DEFINE a == Access(l)
<1> USE DEF HalInv
<1>1. l \in Thread /\ \A t \in Configurers : t \in Thread /\ t # l
  BY ThreadIs DEF Configurers, Caller
<1>2. /\ \A t \in Configurers : todo'[t] = todo[t] /\ loaded'[t] = loaded[t]
      /\ usart' = usart /\ ~Idle(l)
  BY <1>1, StepTodo
<1>3. \/ a.op = "write" /\ a.reg = <<"GPIOA", "BSRR">>
      \/ a.op = "if" /\ a.reg = ODR
  BY <1>2, LedsAccess
<1>4. ODR \notin TrackedReg
  BY UsartTracked
<1>5. asked' = asked /\ (reg' = reg \/ (reg' = Assigned(a) /\ a.op = "write"))
  <2>1. ~Load(l) /\ ~Store(l)
    <3>1. a.op \notin {"set", "clear"}
      BY <1>3
    <3> QED BY <1>1, <3>1, StepOps
  <2>2. ~WriteDR(l)
    <3>1. a.reg[2] # "DR"
      BY <1>3 DEF ODR
    <3> QED BY <3>1 DEF WriteDR
  <2>3. CASE Assign(l)
    BY <2>3 DEF Assign, others
  <2>4. CASE Poll(l) \/ Branch(l)
    BY <2>4 DEF Poll, Branch, others
  <2> QED BY <2>1, <2>2, <2>3, <2>4 DEF Step
<1>6. \A r \in TrackedReg : reg'[r] = reg[r]
  <2>1. CASE reg' = reg
    BY <2>1
  <2>2. CASE reg' = Assigned(a) /\ a.op = "write"
    <3>1. a.reg = <<"GPIOA", "BSRR">>
      BY <1>3, <2>2
    <3> DEFINE v == (reg[ODR] \ {b - 16 : b \in a.bits}) \cup (a.bits \cap 0..15)
    <3>2. reg' = [reg EXCEPT ![ODR] = v]
      BY <2>2, <3>1, LedAssigned
    <3>3. DOMAIN reg = Register /\ \A r \in TrackedReg : r \in Register /\ r # ODR
      BY <1>4, UsartTracked DEF Typed
    <3> HIDE DEF v
    <3> QED BY <3>2, <3>3
  <2> QED BY <1>5, <2>1, <2>2
<1> QED BY <1>2, <1>5, <1>6 DEF Apart

LEMMA UartApart ==
    ASSUME HalInv, Step("uart")
    PROVE  Apart
<1> DEFINE a == Access("uart")
<1> USE DEF HalInv
<1>1. /\ "uart" \in Thread /\ "uart" \in Caller
      /\ \A t \in Configurers : t \in Thread /\ t # "uart"
  BY ThreadIs DEF Configurers, Caller
<1>2. /\ \A t \in Configurers : todo'[t] = todo[t] /\ loaded'[t] = loaded[t]
      /\ usart' = usart /\ ~Idle("uart")
  BY <1>1, StepTodo
<1>3. a \in Sending
  BY <1>1, <1>2, CallersAccess
<1>4. \/ a.op = "write" /\ a.reg = <<usart.usartx, "DR">>
      \/ a.op = "await"
  BY <1>3 DEF Sending, SendByte, SendWait
<1>5. asked' = asked /\ (reg' = reg \/ reg' = [reg EXCEPT ![SR] = @ \ {TXE, TC}])
  <2>1. ~Load("uart") /\ ~Store("uart") /\ ~Branch("uart")
    <3>1. a.op \notin {"set", "clear", "if"}
      BY <1>4
    <3> QED BY <1>1, <3>1, StepOps
  <2>2. ~Assign("uart")
    BY <1>4 DEF Assign
  <2>3. CASE WriteDR("uart")
    <3>1. a.reg[1] = usart.usartx
      BY <1>4, <2>3 DEF WriteDR
    <3> QED BY <2>3, <3>1 DEF WriteDR, others, SR
  <2>4. CASE Poll("uart")
    BY <2>4 DEF Poll, others
  <2> QED BY <2>1, <2>2, <2>3, <2>4 DEF Step
<1>6. \A r \in TrackedReg : reg'[r] = reg[r]
  <2>1. DOMAIN reg = Register /\ \A r \in TrackedReg : r \in Register /\ r # SR
    BY UsartTracked DEF Typed
  <2> QED BY <1>5, <2>1
<1> QED BY <1>2, <1>5, <1>6 DEF Apart

\* The steps of all but those who configure.
LEMMA OthersApart ==
    ASSUME HalInv, [Next]_halVars, ~(\E t \in Configurers : Step(t)),
           ~(\E call \in SetupCalls : Setup(call))
    PROVE  Apart
<1> USE DEF HalInv
<1>1. CASE UNCHANGED halVars
  BY <1>1 DEF halVars, Apart
<1>2. ASSUME NEW p \in Task \ Configurers, Begin(p), asked' = asked PROVE Apart
  <2>1. \A t \in Configurers : t \in Thread \ {p}
    BY ThreadIs DEF Configurers, Caller
  <2> QED BY <1>2, <2>1 DEF Begin, Apart
<1>3. ASSUME NEW l \in Led, Blink(l) PROVE Apart
  <2>1. l \in Task \ Configurers
    BY DEF Task, Configurers, Led
  <2> QED BY <1>2, <1>3, <2>1, BeginSteps DEF Blink
<1>4. ASSUME NEW m \in Messages, Transmit(m) PROVE Apart
  <2>1. "uart" \in Task \ Configurers
    BY DEF Task, Configurers
  <2> QED BY <1>2, <1>4, <2>1, BeginSteps DEF Transmit
<1>5. ASSUME NEW t \in Thread, Step(t) PROVE Apart
  <2>1. t \in Led \/ t = "uart"
    BY <1>5 DEF Thread, Task, Configurers
  <2> QED BY <1>5, <2>1, LedApart, UartApart
<1>6. CASE TransferByte \/ FrameSent
  <2>1. \E v : reg' = reg \/ reg' = [reg EXCEPT ![SR] = v]
    BY <1>6 DEF TransferByte, FrameSent
  <2>2. DOMAIN reg = Register /\ \A r \in TrackedReg : r \in Register /\ r # SR
    BY UsartTracked DEF Typed
  <2>3. \A r \in TrackedReg : reg'[r] = reg[r]
    BY <2>1, <2>2
  <2> QED BY <1>6, <2>3 DEF TransferByte, FrameSent, others, Apart
<1> QED BY <1>1, <1>3, <1>4, <1>5, <1>6 DEF Next

LEMMA ApartKeeps ==
    ASSUME Apart, WorkRight, AskedRight
    PROVE  WorkRight' /\ AskedRight'
<1>1. Now' = Now /\ Rest' = Rest /\ \A r : Final(r)' = Final(r)
  <2>1. Now' = Now
    BY DEF Apart, Now
  <2>2. Rest' = Rest
    BY DEF Apart, Rest, Configurers
  <2> QED BY <2>1, <2>2 DEF Final
<1>2. ASSUME NEW t \in Configurers, (loaded[t] # NotLoaded /\ Access(t).reg \in TrackedReg)'
      PROVE  (loaded[t] = reg[Access(t).reg])'
  <2>1. loaded'[t] = loaded[t] /\ Access(t)' = Access(t)
    BY DEF Apart, Access
  <2>2. loaded[t] = reg[Access(t).reg] /\ reg'[Access(t).reg] = reg[Access(t).reg]
    BY <1>2, <2>1 DEF WorkRight, Apart
  <2> QED BY <2>1, <2>2
<1>3. usart' = usart /\ asked' = asked
  BY DEF Apart
<1>4. WorkRight'
  BY <1>1, <1>2, <1>3 DEF WorkRight
<1> QED BY <1>1, <1>3, <1>4 DEF AskedRight

LEMMA ConfiguringKeeps ==
    ASSUME HalInv, HalInv', WorkRight, AskedRight, NEW t \in Configurers, Step(t)
    PROVE  WorkRight' /\ AskedRight'
<1> USE DEF HalInv
<1>1. /\ WorkStep
      /\ loaded'[t] # NotLoaded /\ Access(t)'.reg \in TrackedReg =>
           loaded'[t] = reg'[Access(t)'.reg]
  BY ConfiguringStep
<1>2. Rest \in Seq(Driving)
  BY RestIs
<1>3. /\ Now' \in Values /\ Ready(Rest', Now')
      /\ \A r \in TrackedReg : Final(r)' = Final(r)
  BY <1>1, <1>2, WorkGoesOn
<1>4. t \in Thread /\ usart' = usart /\ asked' = asked /\ ~Idle(t)
  <2>1. t \in Thread
    BY ThreadIs DEF Configurers, Caller
  <2>2. asked' = asked
    BY DEF Step, Load, Store, Assign, WriteDR, Poll, Branch, others
  <2> QED BY <2>1, <2>2, StepTodo
<1>5. ASSUME NEW p \in Configurers, (loaded[p] # NotLoaded /\ Access(p).reg \in TrackedReg)'
      PROVE  (loaded[p] = reg[Access(p).reg])'
  <2>1. CASE p = t
    BY <1>1, <1>5, <2>1
  <2>2. CASE p # t
    <3>1. p \in Thread /\ Idle(p)
      <4>1. p \in Thread
        BY ThreadIs DEF Configurers, Caller
      <4>2. ~Idle("main") => Idle("setup")
        BY RestIs
      <4> QED BY <1>4, <2>2, <4>1, <4>2 DEF Configurers
    <3>2. loaded'[p] = loaded[p] /\ loaded[p] = NotLoaded
      BY <1>4, <2>2, <3>1, StepTodo DEF LoadedRight
    <3> QED BY <1>5, <3>2
  <2> QED BY <2>1, <2>2
<1>6. \A c \in PortClocks : c[1] \in TrackedReg
  BY PortClocksWanted DEF Bit
<1>7. <<usart.usartx, "BRR">> \in TrackedReg
  BY UsartTracked
<1>8. WorkRight'
  <2>1. \A c \in PortClocks : c[2] \in Final(c[1])'
    BY <1>3, <1>6 DEF WorkRight
  <2>2. Final(<<usart.usartx, "BRR">>)' = Divider(usart)
    BY <1>3, <1>4, <1>7 DEF WorkRight
  <2>3. Divider(usart)' = Divider(usart) /\ (Final(<<usart.usartx, "BRR">>) = Divider(usart))'
    BY <1>4, <2>2 DEF Divider
  <2>4. (\A c \in PortClocks : c[2] \in Final(c[1]))'
    BY <2>1
  <2>5. (Now \in Values /\ Ready(Rest, Now))'
    BY <1>3
  <2>6. (\A p \in Configurers :
            loaded[p] # NotLoaded /\ Access(p).reg \in TrackedReg =>
              loaded[p] = reg[Access(p).reg])'
    BY <1>5
  <2> QED BY <2>3, <2>4, <2>5, <2>6 DEF WorkRight
<1>9. AskedRight'
  <2>1. \A r \in AskedReg : r \in TrackedReg
    BY AskedApart
  <2> QED BY <1>3, <1>4, <2>1 DEF AskedRight
<1> QED BY <1>8, <1>9

LEMMA SetupKeeps ==
    ASSUME HalInv, WorkRight, AskedRight, NEW call \in SetupCalls, Setup(call)
    PROVE  WorkRight' /\ AskedRight'
<1> DEFINE W == call.wishes
<1> USE DEF HalInv
<1>1. /\ todo'["setup"] = call.accesses /\ todo'["main"] = todo["main"]
      /\ Idle("main") /\ Idle("setup")
      /\ reg' = reg /\ loaded' = loaded /\ usart' = usart /\ asked' = Fulfil(asked, W)
  <2>1. Begin("setup") /\ todo'["setup"] = call.accesses
    BY BeginSteps
  <2>2. "main" \in Thread \ {"setup"}
    BY DEF Thread
  <2> QED BY <2>1, <2>2 DEF Begin, Setup
<1>2. Now \in Values /\ Now' = Now
  BY <1>1 DEF WorkRight, Now
<1>3. ASSUME NEW r \in TrackedReg PROVE Final(r) = Now[r]
  <2>1. Rest = <<>> /\ Len(<<>>) = 0
    BY <1>1, RestIs DEF Idle
  <2>2. Now[r] \in SUBSET (0..31)
    BY <1>2 DEF Values
  <2> QED BY <2>1, <2>2, AfterNone DEF Final
<1>4. Powered(PortClocks, Now)
  <2>1. \A c \in PortClocks : c[1] \in TrackedReg
    BY PortClocksWanted DEF Bit
  <2> QED BY <1>3, <2>1 DEF Powered, WorkRight
<1>5. \A r \in AskedReg : r \in TrackedReg /\ r[1] \notin {"RCC"} \cup DOMAIN Usart
  BY AskedApart
<1>6. \A r \in AskedReg : AFRight(r) => Now[r] = asked[r]
  BY <1>3, <1>5 DEF AskedRight
<1>7. Effective(call, Now)
  <2>1. \A w \in OnlySet(call) : Now[w.reg] \cap w.field \subseteq w.value
    BY <1>6, OnlySetApart DEF AskedRight, AFRight
  <2> QED BY <1>2, <1>4, <2>1, CallEffective
<1>8. /\ W \in Wishes /\ \A w \in W : w.reg \in AskedReg
      /\ call.accesses \in Seq(Driving) /\ Ready(call.accesses, Now)
      /\ \A r \in TrackedReg :
            After(call.accesses, Len(call.accesses), r, Now[r]) = Fulfil(Now, W)[r]
  BY <1>7 DEF Effective, Does
<1>9. Rest' = call.accesses
  <2>1. \A s \in Seq(Driving) : <<>> \o s = s
    OBVIOUS
  <2> QED BY <1>1, <1>8, <2>1 DEF Rest, Idle
<1>10. \A r \in TrackedReg : Final(r)' = Fulfil(Now, W)[r]
  BY <1>2, <1>8, <1>9 DEF Final
<1>11. DOMAIN Now = TrackedReg /\ DOMAIN asked = AskedReg
  BY DEF Now, AskedRight
<1> HIDE DEF W
<1>12. ASSUME NEW r \in TrackedReg \ AskedReg PROVE Fulfil(Now, W)[r] = Final(r)
  <2>1. {w \in W : w.reg = r} = {}
    BY <1>8
  <2>2. Fulfil(Now, W)[r] =
          (Now[r] \ UNION {w.field : w \in {w \in W : w.reg = r}})
            \cup UNION {w.value : w \in {w \in W : w.reg = r}}
    BY <1>11, FulfilAt
  <2> QED BY <1>3, <2>1, <2>2
<1>13. WorkRight'
  <2>1. ASSUME NEW c \in PortClocks PROVE c[2] \in Final(c[1])'
    <3>1. c[1] \in TrackedReg /\ c[1][1] = "RCC"
      BY PortClocksWanted DEF Bit, PortClocks, AHB1ENR
    <3>2. c[1] \notin AskedReg
      BY <1>5, <3>1
    <3> QED BY <1>10, <1>12, <3>1, <3>2 DEF WorkRight
  <2>2. Final(<<usart.usartx, "BRR">>)' = Divider(usart)
    <3>1. <<usart.usartx, "BRR">> \in TrackedReg \ AskedReg
      BY <1>5, UsartTracked, UsartIs
    <3> QED BY <1>1, <1>10, <1>12, <3>1 DEF WorkRight
  <2>3. Divider(usart)' = Divider(usart) /\ (Final(<<usart.usartx, "BRR">>) = Divider(usart))'
    BY <1>1, <2>2 DEF Divider
  <2>4. (\A c \in PortClocks : c[2] \in Final(c[1]))'
    BY <2>1
  <2>5. (Now \in Values /\ Ready(Rest, Now))'
    BY <1>2, <1>8, <1>9
  <2>6. \A t \in Configurers : loaded'[t] = NotLoaded
    BY <1>1, ThreadIs DEF LoadedRight, Configurers, Caller
  <2>7. (\A t \in Configurers :
            loaded[t] # NotLoaded /\ Access(t).reg \in TrackedReg =>
              loaded[t] = reg[Access(t).reg])'
    BY <2>6
  <2> QED BY <2>3, <2>4, <2>5, <2>7 DEF WorkRight
<1>14. ASSUME NEW r \in AskedReg
       PROVE  asked'[r] = (asked[r] \ UNION {w.field : w \in {w \in W : w.reg = r}})
                            \cup UNION {w.value : w \in {w \in W : w.reg = r}}
  BY <1>1, <1>11, FulfilAt
<1>15. ASSUME NEW r \in AskedReg, AFRight(r) PROVE Final(r)' = asked'[r]
  <2>1. Fulfil(Now, W)[r] =
          (Now[r] \ UNION {w.field : w \in {w \in W : w.reg = r}})
            \cup UNION {w.value : w \in {w \in W : w.reg = r}}
    BY <1>5, <1>11, FulfilAt
  <2> QED BY <1>5, <1>6, <1>10, <1>14, <1>15, <2>1
<1>16. ASSUME NEW other \in SetupCalls, NEW w \in OnlySet(other)
       PROVE  asked'[w.reg] \cap w.field \subseteq w.value
  <2>1. w.reg \in AskedReg
    BY OnlySetApart
  <2>2. asked[w.reg] \cap w.field \subseteq w.value
    BY DEF AskedRight
  <2>3. \A x \in W : x.reg = w.reg => x.value \cap w.field \subseteq w.value
    BY ClientAssumption DEF W
  <2> QED BY <1>14, <2>1, <2>2, <2>3
<1>17. DOMAIN asked' = AskedReg
  BY <1>1, <1>11 DEF Fulfil
<1> QED BY <1>13, <1>15, <1>16, <1>17 DEF AskedRight

LEMMA ConfigurationBegins == Init => WorkRight /\ AskedRight
<1> SUFFICES ASSUME Init PROVE WorkRight /\ AskedRight
  OBVIOUS
<1> DEFINE h == Fulfil(ResetValues, MainDone(usart))
<1>1. usart \in InitStructs /\ asked = Configured(usart)
  BY DEF Init
<1>2. /\ Does(MainProgram(usart), ResetValues, h)
      /\ \A c \in PortClocks : c[2] \in h[c[1]]
      /\ h[<<usart.usartx, "BRR">>] = Divider(usart)
  BY <1>1, MainLeaves
<1>3. Now = ResetValues
  <2>1. \A r \in TrackedReg : r \in Register
    BY DEF TrackedReg, ConfReg, AskedReg, BrrReg, RccReg, Register
  <2>2. \A r \in TrackedReg : reg[r] = AfterReset(r)
    BY <2>1 DEF Init
  <2> QED BY <2>2 DEF Now, ResetValues
<1>4. Rest = MainProgram(usart)
  <2>1. MainProgram(usart) \in Seq(Driving)
    BY <1>2 DEF Does
  <2>2. todo["main"] = MainProgram(usart) /\ todo["setup"] = <<>>
    BY DEF Init, Thread, Task
  <2>3. \A s \in Seq(Driving) : s \o <<>> = s
    OBVIOUS
  <2> QED BY <2>1, <2>2, <2>3 DEF Rest
<1>5. Ready(Rest, Now) /\ \A r \in TrackedReg : Final(r) = h[r]
  BY <1>2, <1>3, <1>4 DEF Does, Final
<1> HIDE DEF h
<1>6. WorkRight
  <2>1. \A c \in PortClocks : c[1] \in TrackedReg
    BY PortClocksWanted DEF Bit
  <2>2. <<usart.usartx, "BRR">> \in TrackedReg
    <3>1. usart.usartx \in DOMAIN Usart
      BY <1>1, StructFacts
    <3> QED BY <3>1 DEF TrackedReg, ConfReg, BrrReg
  <2>3. \A t \in Configurers : loaded[t] = NotLoaded
    BY DEF Init, Configurers, Thread, Task
  <2>4. Now \in Values
    BY <1>3, ResetFacts
  <2> QED BY <1>2, <1>5, <2>1, <2>2, <2>3, <2>4 DEF WorkRight
<1>7. AskedRight
  <2>1. /\ DOMAIN asked = AskedReg
        /\ \A r \in AskedReg : AFRight(r) => h[r] = asked[r]
    BY <1>1, MainAsked DEF h
  <2>2. \A r \in AskedReg : r \in TrackedReg
    BY AskedApart
  <2>3. \A call \in SetupCalls : \A w \in OnlySet(call) :
           asked[w.reg] \cap w.field \subseteq w.value
    BY <1>1, ClientAssumption
  <2> QED BY <1>5, <2>1, <2>2, <2>3 DEF AskedRight
<1> QED BY <1>6, <1>7

-----------------------------------------------------------------------------
(* The divider.                                                            *)

LEMMA DividerNear ==
    ASSUME NEW P \in Nat, NEW B \in Nat \ {0}
    PROVE  LET brr == UART_BRR_SAMPLING16(P, B)
           IN  /\ brr \in (P \div B - 1)..(P \div B + 1)
               /\ -B <= brr * B - P /\ brr * B - P <= B
<1> DEFINE n == P * 25
           m == 4 * B
           d == n \div m
           q == d \div 100
           r == d % 100
           f == (r * 16 + 50) \div 100
           brr == q * 16 + f
<1>1. n \in Nat /\ m \in Nat \ {0}
  BY SMT
<1>2. \A x \in Nat, y \in Nat \ {0} :
         /\ x \div y \in Nat /\ x % y \in 0..(y - 1) /\ x = y * (x \div y) + (x % y)
  BY SMT
<1>3. d \in Nat /\ n % m \in 0..(m - 1) /\ n = m * d + (n % m)
  BY <1>1, <1>2
<1>4. /\ q \in Nat /\ r \in 0..99 /\ d = 100 * q + r
  BY <1>3, SMT
<1>5. /\ f \in 0..16 /\ 100 * f <= r * 16 + 50 /\ r * 16 + 50 < 100 * f + 100
  BY <1>4, SMT
<1>6. UART_BRR_SAMPLING16(P, B) = brr
  <2>1. UART_DIV_SAMPLING16(P, B) = d
    BY DEF UART_DIV_SAMPLING16
  <2>2. UART_DIVMANT_SAMPLING16(P, B) = q
    BY <2>1 DEF UART_DIVMANT_SAMPLING16
  <2>3. UART_DIVFRAQ_SAMPLING16(P, B) = f
    BY <2>1 DEF UART_DIVFRAQ_SAMPLING16
  <2>4. UART_BRR_SAMPLING16(P, B) = q * 16 + ((f \div 16) % 16) * 16 + (f % 16)
    BY <2>2, <2>3 DEF UART_BRR_SAMPLING16
  <2> HIDE DEF q, f
  <2>5. ((f \div 16) % 16) * 16 + (f % 16) = f
    BY <1>5, SMT
  <2>6. ((f \div 16) % 16) * 16 \in Nat /\ f % 16 \in Nat
    BY <1>5, SMT
  <2> QED BY <1>4, <1>5, <2>4, <2>5, <2>6, SMT
<1> HIDE DEF d, q, r, f
<1>7. brr \in Nat /\ 16 * d - 50 <= 100 * brr /\ 100 * brr <= 16 * d + 50
  BY <1>4, <1>5, SMT
<1> HIDE DEF brr
<1>8. /\ (16 * d - 50) * B <= (100 * brr) * B
      /\ (100 * brr) * B <= (16 * d + 50) * B
  BY <1>3, <1>7, SMT
<1>9. P * 25 - 4 * B < (4 * B) * d /\ (4 * B) * d <= P * 25
  BY <1>3, SMT
<1>10. -B <= brr * B - P /\ brr * B - P <= B
  <2> DEFINE X == B * d
             Y == brr * B
  <2>1. /\ X \in Int /\ Y \in Int /\ (4 * B) * d = 4 * X
        /\ (16 * d - 50) * B = 16 * X - 50 * B /\ (16 * d + 50) * B = 16 * X + 50 * B
        /\ (100 * brr) * B = 100 * Y
    BY <1>3, <1>7, SMT
  <2> HIDE DEF X, Y
  <2>2. -B <= Y - P /\ Y - P <= B
    BY <1>8, <1>9, <2>1, SMT
  <2> QED BY <2>2 DEF Y
<1>11. brr \in (P \div B - 1)..(P \div B + 1)
  <2> DEFINE k == P \div B
  <2>1. k \in Nat /\ P % B \in 0..(B - 1) /\ P = B * k + (P % B)
    BY <1>2
  <2> HIDE DEF k
  <2>2. brr * B <= B * k + (B - 1) + B /\ B * k - B <= brr * B
    BY <1>7, <1>10, <2>1, SMT
  <2>3. brr * B < (k + 2) * B /\ (k - 1) * B <= brr * B
    BY <1>7, <2>1, <2>2, SMT
  <2>4. ASSUME brr >= k + 2 PROVE FALSE
    <3>1. brr * B >= (k + 2) * B
      BY <1>7, <2>1, <2>4, SMT
    <3> QED BY <1>7, <2>1, <2>3, <3>1, SMT
  <2>5. ASSUME brr < k - 1 PROVE FALSE
    <3>1. brr * B <= (k - 2) * B
      BY <1>7, <2>1, <2>5, SMT
    <3>2. (k - 2) * B < (k - 1) * B
      BY <2>1, SMT
    <3> QED BY <1>7, <2>1, <2>3, <3>1, <3>2, SMT
  <2>6. brr \in (k - 1)..(k + 1)
    BY <1>7, <2>1, <2>4, <2>5, SMT
  <2> QED BY <2>6 DEF k
<1> QED BY <1>6, <1>10, <1>11

-----------------------------------------------------------------------------
(* The configuration is as asked.                                          *)

\* WorkRight and AskedRight are invariants.
THEOREM ConfigurationGoesOn == Spec => [](WorkRight /\ AskedRight)
<1>1. Init => WorkRight /\ AskedRight
  BY ConfigurationBegins
<1>2. HalInv /\ HalInv' /\ WorkRight /\ AskedRight /\ [Next]_halVars
        => WorkRight' /\ AskedRight'
  <2> SUFFICES ASSUME HalInv, HalInv', WorkRight, AskedRight, [Next]_halVars
               PROVE  WorkRight' /\ AskedRight'
    OBVIOUS
  <2>1. CASE \E t \in Configurers : Step(t)
    BY <2>1, ConfiguringKeeps
  <2>2. CASE \E call \in SetupCalls : Setup(call)
    BY <2>2, SetupKeeps
  <2>3. CASE ~(\E t \in Configurers : Step(t)) /\ ~(\E call \in SetupCalls : Setup(call))
    BY <2>3, OthersApart, ApartKeeps
  <2> QED BY <2>1, <2>2, <2>3
<1> QED BY <1>1, <1>2, HalSafe, PTL DEF Spec

\* Nothing is left to be done.
LEMMA AllDone ==
    ASSUME HalInv, WorkRight, Idle("main"), Idle("setup"), NEW r \in TrackedReg
    PROVE  Final(r) = reg[r]
<1>1. Rest = <<>> /\ Len(<<>>) = 0
  BY RestIs DEF HalInv, Idle
<1>2. Now[r] = reg[r] /\ Now[r] \in SUBSET (0..31)
  BY DEF WorkRight, Now, Values
<1> QED BY <1>1, <1>2, AfterNone DEF Final

\* Whatever tasks do in between: in the end every field of every pin and line is
\* as the last call asked, but for the alternate functions of a usart that has
\* pins above 7.
THEOREM PinsConfiguredButAF ==
    Spec => [](Idle("main") /\ Idle("setup") =>
                 \A r \in PinRegs \cup LineRegs : AFRight(r) => reg[r] = asked[r])
<1>1. HalInv /\ WorkRight /\ AskedRight =>
        (Idle("main") /\ Idle("setup") =>
           \A r \in PinRegs \cup LineRegs : AFRight(r) => reg[r] = asked[r])
  BY AllDone, AskedApart DEF AskedRight, AskedReg
<1> QED BY <1>1, HalSafe, ConfigurationGoesOn, PTL

\* Where every usart has its pins below 8, all of them are: the shifts and masks
\* of gpio.c hit their pin, a read-modify-write loses no other's bits, and each
\* register is written when its clock is on.
THEOREM PinsConfigured == ASSUME LowPins PROVE Spec => []ConfiguredAsAsked
<1>1. (Idle("main") /\ Idle("setup") =>
         \A r \in PinRegs \cup LineRegs : AFRight(r) => reg[r] = asked[r])
      => ConfiguredAsAsked
  BY DEF ConfiguredAsAsked, AFRight
<1> QED BY <1>1, PinsConfiguredButAF, PTL

\* BRR holds the divider that is nearest to clock over baud rate, or next to it,
\* for every clock and baud rate, and no later call disturbs it.
THEOREM BaudRateKept == Spec => []BaudRateRight
<1>1. HalInv /\ WorkRight => BaudRateRight
  <2> SUFFICES ASSUME HalInv, WorkRight, Idle("main") PROVE BaudRateRight
    BY DEF BaudRateRight
  <2> DEFINE r == <<usart.usartx, "BRR">>
             P == usart.sys_freq
             B == usart.baud_rate
             brr == UART_BRR_SAMPLING16(P, B)
  <2>1. Rest = todo["setup"] /\ Rest \in Seq(Driving) /\ todo["setup"] \in Seq(Setting \cup Branching)
    BY RestIs DEF HalInv, Typed
  <2>2. r \in TrackedReg /\ r \notin AskedReg
    BY UsartTracked, UsartIs, AskedApart DEF HalInv
  <2>3. Now[r] = reg[r] /\ Now[r] \in SUBSET (0..31)
    BY <2>2 DEF WorkRight, Now, Values
  <2>4. ASSUME NEW i \in 1..Len(Rest), NEW k
        PROVE  ~Sets(Rest[i], r, k) /\ ~Clears(Rest[i], r, k)
    <3>1. Rest[i] \in Setting \cup Branching
      BY <2>1
    <3>2. Rest[i].reg # r
      BY <2>2, <3>1 DEF Setting, Branching, AskedReg
    <3> QED BY <3>2 DEF Sets, Clears
  <2>5. Final(r) = reg[r]
    <3>1. \A i \in 1..Len(Rest) : \A k : ~Sets(Rest[i], r, k) /\ ~Clears(Rest[i], r, k)
      BY <2>4
    <3> HIDE DEF r
    <3>2. Final(r) = Now[r]
      BY <2>3, <3>1 DEF Final, After
    <3> QED BY <2>3, <3>2
  <2>6. reg[r] = Bits(brr)
    BY <2>5 DEF WorkRight, Divider
  <2>7. P \in Nat /\ B \in Nat \ {0}
    BY HalAssumption DEF HalInv, Typed
  <2> HIDE DEF P, B
  <2>8. /\ brr \in (P \div B - 1)..(P \div B + 1)
        /\ -B <= brr * B - P /\ brr * B - P <= B
    BY <2>7, DividerNear
  <2> QED BY <2>6, <2>8 DEF BaudRateRight, P, B
<1> QED BY <1>1, HalSafe, ConfigurationGoesOn, PTL
=============================================================================
