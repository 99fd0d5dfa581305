---------------------------- MODULE BoundedQueue ----------------------------
(***************************************************************************)
(* What mk_queue.h promises: a queue of bounded capacity that takes        *)
(* records at one end and gives them back at the other (FIFO) or at the    *)
(* same end (LIFO).  A full queue refuses a record, or, if it overwrites,  *)
(* forgets its oldest one.  capacity = 0: not initialised.                 *)
(***************************************************************************)
EXTENDS Integers, Sequences

CONSTANTS Records, Capacities, Nothing

VARIABLES contents,     \* the records held, oldest first
          capacity, lifo, overwrites,
          answer        \* what the last call returned

abstractVars == <<contents, capacity, lifo, overwrites, answer>>

Answer(ok, record) == [ok |-> ok, record |-> record]

Init ==
    /\ contents = <<>> /\ capacity = 0
    /\ lifo = FALSE /\ overwrites = FALSE
    /\ answer = Answer(FALSE, Nothing)

Closed ==
    /\ contents' = <<>> /\ capacity' = 0
    /\ lifo' = FALSE /\ overwrites' = FALSE

\* Both ways of initialising may fail, and then leave a closed queue.
Open(c, isLifo, ow) ==
    \/ /\ contents' = <<>> /\ capacity' = c
       /\ lifo' = isLifo /\ overwrites' = ow
       /\ answer' = Answer(TRUE, Nothing)
    \/ Closed /\ answer' = Answer(FALSE, Nothing)

Close == Closed /\ answer' = Answer(TRUE, Nothing)

Flush ==
    /\ contents' = <<>> /\ answer' = Answer(TRUE, Nothing)
    /\ UNCHANGED <<capacity, lifo, overwrites>>

Push(x) ==
    /\ \/ /\ Len(contents) < capacity
          /\ contents' = Append(contents, x)
          /\ answer' = Answer(TRUE, Nothing)
       \/ /\ Len(contents) = capacity /\ overwrites
          /\ contents' = Append(Tail(contents), x)
          /\ answer' = Answer(TRUE, Nothing)
       \/ /\ Len(contents) = capacity /\ ~overwrites
          /\ answer' = Answer(FALSE, Nothing)
          /\ UNCHANGED contents
    /\ UNCHANGED <<capacity, lifo, overwrites>>

Next1 == IF lifo THEN contents[Len(contents)] ELSE contents[1]

\* Give back the next record (Pop), or only forget it (Drop).
Take(withRecord) ==
    /\ \/ /\ contents = <<>>
          /\ answer' = Answer(FALSE, Nothing)
          /\ UNCHANGED contents
       \/ /\ contents # <<>>
          /\ contents' = IF lifo THEN SubSeq(contents, 1, Len(contents) - 1)
                                 ELSE Tail(contents)
          /\ answer' = Answer(TRUE, IF withRecord THEN Next1 ELSE Nothing)
    /\ UNCHANGED <<capacity, lifo, overwrites>>

Next ==
    \/ \E c \in Capacities, isLifo, ow \in BOOLEAN : Open(c, isLifo, ow)
    \/ Close \/ Flush
    \/ \E x \in Records : Push(x)
    \/ Take(TRUE) \/ Take(FALSE)

Spec == Init /\ [][Next]_abstractVars
=============================================================================
