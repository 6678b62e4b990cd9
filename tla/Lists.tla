-------------------------------- MODULE Lists --------------------------------
(***************************************************************************)
(* The kernel's intrusive doubly linked lists (lib/kernel/list.c), as      *)
(* sequences: list_push_back is Append, list_pop_front takes the Head and  *)
(* leaves the Tail, list_remove is RemoveAt.                               *)
(***************************************************************************)
EXTENDS Integers, Sequences, SequencesExt

\* t is on the list q.
InSeq(t, q) == \E i \in 1..Len(q) : q[i] = t

\* No element is on the list q twice.
NoDup(q) == \A i, j \in 1..Len(q) : q[i] = q[j] => i = j
=============================================================================
