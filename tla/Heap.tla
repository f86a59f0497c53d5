-------------------------------- MODULE Heap --------------------------------
(***************************************************************************)
(* The binary heap of src/common/db.h (BHEAP_PUSH, BHEAP_POP and           *)
(* BHEAP_POPINDEX), a sequence in which the entry at i stands before those *)
(* at 2i and 2i + 1.  cmp is the comparator macro, as a function: negative,*)
(* zero or positive as its first argument goes before, with or after the   *)
(* second.                                                                 *)
(***************************************************************************)
EXTENDS Integers, Sequences, FiniteSets

Swap(h, i, j) == [h EXCEPT ![i] = h[j], ![j] = h[i]]

\* A heap in which the entry at one place may not be where it belongs.
Moving == [heap : Seq(Nat), at : Nat]

\* One round of "restore heap property in parents": an equal parent is
\* exchanged too.
Raise(cmp) ==
  [s \in Moving |->
     LET parent == s.at \div 2
     IN  IF s.at = 1 \/ cmp[s.heap[parent], s.heap[s.at]] < 0 THEN s
         ELSE [heap |-> Swap(s.heap, s.at, parent), at |-> parent]]

\* One round of "restore heap property in childs": with the smaller child, the
\* left one first.
Lower(cmp) ==
  [s \in Moving |->
     LET lchild == 2 * s.at
         rchild == 2 * s.at + 1
         Before(c) == c <= Len(s.heap) /\ cmp[s.heap[s.at], s.heap[c]] > 0
         child == IF rchild > Len(s.heap) \/ cmp[s.heap[lchild], s.heap[rchild]] <= 0
                  THEN lchild ELSE rchild
     IN  IF ~Before(lchild) /\ ~Before(rchild) THEN s
         ELSE [heap |-> Swap(s.heap, s.at, child), at |-> child]]

\* The loops.  A round moves the entry by a level or changes nothing, and there
\* are at most half as many levels to go as there are entries.
Rounds(round, s) ==
  LET n == Len(s.heap) \div 2
      after[k \in 0 .. n] == IF k = 0 THEN s ELSE round[after[k - 1]]
  IN  after[n]

HeapPush(h, v, cmp) == Rounds(Raise(cmp), [heap |-> Append(h, v), at |-> Len(h) + 1]).heap

\* The last entry takes the place of the one removed, then moves up or down.
HeapPopIndex(h, i, cmp) ==
  LET short == SubSeq(h, 1, Len(h) - 1)
      moved == [short EXCEPT ![i] = h[Len(h)]]
  IN  IF i = Len(h) THEN short
      ELSE Rounds(Lower(cmp), Rounds(Raise(cmp), [heap |-> moved, at |-> i])).heap

=============================================================================
