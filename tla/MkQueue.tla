------------------------------- MODULE MkQueue -------------------------------
(***************************************************************************)
(* The record queue (mk_queue.c): a ring of rec_nb slots with the indices  *)
(* in and out and the count cnt, used FIFO or LIFO.  The kernel's ready    *)
(* queues are FIFO and refuse when full; the other modes are there for the *)
(* application.  A record is a value, whatever its size in bytes.          *)
(***************************************************************************)
EXTENDS Integers, Sequences

CONSTANTS Records, Capacities, Nothing

MaxCapacity == 65535      \* of uint16_t

ASSUME QueueAssumption ==
    /\ Capacities \subseteq 1..MaxCapacity
    /\ Nothing \notin Records

VARIABLES
    init, lifo, ovw, rec_nb,     \* init, impl = LIFO, ovw, rec_nb
    in, out, cnt,                \* the indices and the record count
    slots,                       \* the memory at queue
    ret                          \* what the last call returned

config    == <<init, lifo, ovw, rec_nb>>
queueVars == <<config, in, out, cnt, slots, ret>>

Result(ok, record) == [ok |-> ok, record |-> record]

Init ==
    /\ init = FALSE /\ lifo = FALSE /\ ovw = FALSE /\ rec_nb = 0
    /\ in = 0 /\ out = 0 /\ cnt = 0
    /\ slots = <<>>
    /\ ret = Result(FALSE, Nothing)

-----------------------------------------------------------------------------
\* pvt_q_inc_idx and pvt_q_dec_idx, with start = 0.
Bug_IncWithoutWrap(i) == IF i < rec_nb THEN i + 1 ELSE 0
Inc(i) == IF i < rec_nb - 1 THEN i + 1 ELSE 0
Dec(i) == IF i > 0 THEN i - 1 ELSE rec_nb - 1

Bug_FullLate == cnt > rec_nb
Full  == cnt = rec_nb
Empty == cnt = 0

\* q_kill zeroes the structure.
Kill ==
    /\ init' = FALSE /\ lifo' = FALSE /\ ovw' = FALSE /\ rec_nb' = 0
    /\ in' = 0 /\ out' = 0 /\ cnt' = 0
    /\ slots' = <<>>

q_kill == Kill /\ ret' = Result(TRUE, Nothing)

\* q_init and q_init_static: kill, then allocate, which can fail (malloc gives
\* NULL, or the static memory is too small).  The memory is not initialised.
q_init(nb, isLifo, ow) ==
    \/ /\ init' = TRUE /\ lifo' = isLifo /\ ovw' = ow /\ rec_nb' = nb
       /\ in' = 0 /\ out' = 0 /\ cnt' = 0
       /\ slots' \in [0..(nb - 1) -> Records]
       /\ ret' = Result(TRUE, Nothing)
    \/ Kill /\ ret' = Result(FALSE, Nothing)

q_flush ==
    /\ in' = 0 /\ out' = 0 /\ cnt' = 0
    /\ ret' = Result(TRUE, Nothing)
    /\ UNCHANGED <<config, slots>>

\* Overwriting moves out past the oldest record, for a FIFO; a LIFO only moves
\* in on over it.
Bug_OutNotMoved == out
OutAfterPush == IF Full /\ ~lifo THEN Inc(out) ELSE out

q_push(x) ==
    \/ /\ Full /\ ~ovw
       /\ ret' = Result(FALSE, Nothing)
       /\ UNCHANGED <<config, in, out, cnt, slots>>
    \/ /\ ~Full \/ ovw
       /\ cnt' = IF Full THEN cnt ELSE cnt + 1
       /\ out' = OutAfterPush
       /\ slots' = [slots EXCEPT ![in] = x]
       /\ in' = Inc(in)
       /\ ret' = Result(TRUE, Nothing)
       /\ UNCHANGED config

\* The slot of the next record to come out.
NextSlot == IF lifo THEN Dec(in) ELSE out

\* q_pop copies the record, q_drop does not.
Take(withRecord) ==
    \/ /\ Empty
       /\ ret' = Result(FALSE, Nothing)
       /\ UNCHANGED <<config, in, out, cnt, slots>>
    \/ /\ ~Empty
       /\ IF lifo THEN in' = Dec(in) /\ UNCHANGED out
                  ELSE out' = Inc(out) /\ UNCHANGED in
       /\ ret' = Result(TRUE, IF withRecord THEN slots[NextSlot] ELSE Nothing)
       /\ cnt' = cnt - 1
       /\ UNCHANGED <<config, slots>>

q_pop  == Take(TRUE)
q_drop == Take(FALSE)

\* The calls that only look: they change nothing, so they are functions of the
\* state.
q_peek == IF Empty THEN Result(FALSE, Nothing)
                   ELSE Result(TRUE, slots[NextSlot])

Bug_IndexFromSlot0(idx) ==
    IF idx + 1 > cnt THEN Result(FALSE, Nothing) ELSE Result(TRUE, slots[idx])

q_peekIdx(idx) ==
    IF idx + 1 > cnt THEN Result(FALSE, Nothing)
    ELSE Result(TRUE, slots[IF lifo THEN idx ELSE (out + idx) % rec_nb])

\* cnt - 1 is converted to uint16_t, so an empty queue asks for index 65535.
q_peekPrevious == q_peekIdx((cnt - 1) % (MaxCapacity + 1))

Next ==
    \/ \E nb \in Capacities, isLifo, ow \in BOOLEAN : q_init(nb, isLifo, ow)
    \/ q_kill \/ q_flush
    \/ \E x \in Records : q_push(x)
    \/ q_pop \/ q_drop

Spec == Init /\ [][Next]_queueVars

-----------------------------------------------------------------------------
\* The type invariant.
TypeOK ==
    /\ init \in BOOLEAN /\ lifo \in BOOLEAN /\ ovw \in BOOLEAN
    /\ rec_nb \in Capacities \cup {0} /\ (init <=> rec_nb # 0)
    /\ in \in 0..MaxCapacity /\ out \in 0..MaxCapacity /\ cnt \in 0..rec_nb
    /\ slots \in [0..(rec_nb - 1) -> Records]
    /\ ret \in [ok : BOOLEAN, record : Records \cup {Nothing}]

\* The three counters agree and stay in the ring: out lags in by cnt records
\* (FIFO); a LIFO that does not overwrite grows from slot 0.
IndicesAgree ==
    /\ init => in < rec_nb /\ out < rec_nb
    /\ init /\ ~lifo => in = (IF out + cnt < rec_nb THEN out + cnt
                                                   ELSE out + cnt - rec_nb)
    /\ init /\ lifo /\ ~ovw => in = (IF cnt < rec_nb THEN cnt ELSE 0)
    /\ lifo => out = 0

\* The records held, oldest first: the cnt slots before in.
Contents ==
    [i \in 1..cnt |->
        slots[IF in - cnt + i - 1 >= 0 THEN in - cnt + i - 1
                                       ELSE in - cnt + i - 1 + rec_nb]]

Queue == INSTANCE BoundedQueue WITH
    contents <- Contents, capacity <- rec_nb, overwrites <- ovw, answer <- ret

\* The ring is a bounded queue: whatever pushes, pops, drops, flushes and
\* re-initialisations come in whatever order, at any position of the ring, the
\* answers are those of the abstract queue.
ImplementsBoundedQueue == Queue!Spec

\* The calls that only look agree with what is held: q_peek with the record
\* that q_pop would return next, and in a FIFO q_peekIdx with the record at
\* that distance and q_peekPrevious with the youngest one.
PeeksRight ==
    /\ q_peek = IF Contents = <<>> THEN Result(FALSE, Nothing)
                                   ELSE Result(TRUE, Queue!Next1)
    /\ ~lifo => \A idx \in 0..rec_nb :
         q_peekIdx(idx) = IF idx < Len(Contents) THEN Result(TRUE, Contents[idx + 1])
                                                 ELSE Result(FALSE, Nothing)
    /\ ~lifo => q_peekPrevious =
         IF Contents = <<>> THEN Result(FALSE, Nothing)
                            ELSE Result(TRUE, Contents[Len(Contents)])
=============================================================================
