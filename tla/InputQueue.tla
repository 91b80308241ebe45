----------------------------- MODULE InputQueue -----------------------------
(***************************************************************************)
(* What a game is promised of the buffered data of an input device: a      *)
(* queue of bounded size that keeps the oldest events when it is full and  *)
(* says that it has lost some.  Resizing a queue that is not empty gives   *)
(* no promise about the events in it, only about how many are left.        *)
(***************************************************************************)
EXTENDS Naturals, Sequences

CONSTANTS
  Events, \* what the device reports
  Sizes   \* sizes the game may ask for, natural numbers

VARIABLES queue, size, overflowed

qvars == <<queue, size, overflowed>>

QueueInit == queue = <<>> /\ size = 0 /\ overflowed = FALSE

Put(event) ==
  \/ /\ Len(queue) < size
     /\ queue' = Append(queue, event)
     /\ UNCHANGED <<size, overflowed>>
  \/ /\ Len(queue) >= size
     /\ overflowed' = TRUE
     /\ UNCHANGED <<queue, size>>

Get(count) ==
  /\ queue' = SubSeq(queue, count + 1, Len(queue))
  /\ overflowed' = (overflowed /\ count = 0)
  /\ UNCHANGED size

Resize(newSize) ==
  /\ size' = newSize
  /\ overflowed' = (overflowed \/ Len(queue) > newSize)
  /\ \E kept \in [1 .. (IF Len(queue) > newSize THEN newSize ELSE Len(queue)) -> Events] :
       queue' = kept

QueueNext ==
  \/ \E event \in Events : Put(event)
  \/ \E count \in 0 .. Len(queue) : Get(count)
  \/ \E newSize \in Sizes : Resize(newSize)

QueueSpec == QueueInit /\ [][QueueNext]_qvars
=============================================================================
