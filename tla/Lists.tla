------------------------------- MODULE Lists --------------------------------
(***************************************************************************)
(* The lists of lashd (common/klist.h), as sequences.                      *)
(***************************************************************************)
EXTENDS Naturals, Sequences

\* What list_del leaves of a list, in order: the elements at the positions K.
\* (The provers know of a function what they do not know of SelectSeq.)
Keeping(list, K) ==
  LET kept[n \in 0..Len(list)] ==
        IF n = 0 THEN <<>>
        ELSE IF n \in K THEN Append(kept[n - 1], list[n]) ELSE kept[n - 1]
  IN  kept[Len(list)]
=============================================================================
