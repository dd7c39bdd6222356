----------------------------- MODULE LinkedList -----------------------------
(***************************************************************************)
(* The algorithms of libc/kernel/list.c over the links of module Links,    *)
(* and the state machine of all calls that the comments of list.c permit.  *)
(* LESS compares the values val of the structures around the elements.     *)
(***************************************************************************)
EXTENDS Links, FiniteSets, SequencesExt

CONSTANT val

VARIABLE h   \* the links of all nodes

vars == h

less(a, b) == val[a] < val[b]

\* The nodes from n on, up to and without end, each of them once.
RECURSIVE Walk(_, _, _)
Walk(link, n, end) ==
  IF n \in {end, NULL} THEN <<>> ELSE <<n>> \o Walk([link EXCEPT ![n] = end], link[n], end)

Forward(l) == Walk(h.next, list_begin(h, l), list_end(l))
Backward(l) == Walk(h.prev, list_rbegin(h, l), list_rend(l))

list_size(g, l) == Len(Walk(g.next, list_begin(g, l), list_end(l)))

-----------------------------------------------------------------------------
(* list_reverse.                                                           *)

\* The loop: swap the links of e and go on through the old next link.
RECURSIVE SwapAll(_, _, _)
SwapAll(g, e, end) ==
  IF e = end THEN g
  ELSE SwapAll([next |-> [g.next EXCEPT ![e] = g.prev[e]],
                prev |-> [g.prev EXCEPT ![e] = g.next[e]]], g.next[e], end)

list_reverse(g, l) ==
  LET s     == SwapAll(g, list_begin(g, l), list_end(l))
      first == s.prev[tail(l)]
      last  == s.next[head(l)]
  IN  IF list_empty(g, l) THEN g
      ELSE [next |-> [s.next EXCEPT ![head(l)] = first, ![last] = s.prev[first]],
            prev |-> [s.prev EXCEPT ![tail(l)] = last, ![first] = s.next[last]]]

-----------------------------------------------------------------------------
(* list_sort.                                                              *)

RECURSIVE is_sorted(_, _, _)
is_sorted(g, a, b) ==
  IF a = b \/ list_next(g, a) = b THEN TRUE
  ELSE ~less(list_next(g, a), a) /\ is_sorted(g, list_next(g, a), b)

RECURSIVE find_end_of_run(_, _, _)
find_end_of_run(g, a, b) ==
  LET n == list_next(g, a)
  IN  IF n # b /\ ~less(n, list_prev(g, n)) THEN find_end_of_run(g, n, b) ELSE n

\* Mutant: an element of the second run that equals one of the first is moved
\* in front of it.
RECURSIVE inplace_mergeEager(_, _, _, _)
inplace_mergeEager(g, a0, a1b0, b1) ==
  IF a0 = a1b0 \/ a1b0 = b1 THEN g
  ELSE IF less(a0, a1b0) THEN inplace_mergeEager(g, list_next(g, a0), a1b0, b1)
  ELSE LET n == list_next(g, a1b0)
       IN  inplace_mergeEager(list_splice(g, a0, list_prev(g, n), n), a0, n, b1)

RECURSIVE inplace_merge(_, _, _, _)
inplace_merge(g, a0, a1b0, b1) ==
  IF a0 = a1b0 \/ a1b0 = b1 THEN g
  ELSE IF ~less(a1b0, a0) THEN inplace_merge(g, list_next(g, a0), a1b0, b1)
  ELSE LET n == list_next(g, a1b0)
       IN  inplace_merge(list_splice(g, a0, list_prev(g, n), n), a0, n, b1)

\* One pass from a0 on: the links, and the number of runs it left.
RECURSIVE SortPass(_, _, _, _)
SortPass(g, l, a0, runs) ==
  LET end  == list_end(l)
      a1b0 == find_end_of_run(g, a0, end)
      b1   == find_end_of_run(g, a1b0, end)
  IN  IF a0 = end THEN <<g, runs>>
      ELSE IF a1b0 = end THEN <<g, runs + 1>>
      ELSE SortPass(inplace_merge(g, a0, a1b0, b1), l, b1, runs + 1)

RECURSIVE list_sort(_, _)
list_sort(g, l) ==
  LET pass == SortPass(g, l, list_begin(g, l), 0)
  IN  IF pass[2] > 1 THEN list_sort(pass[1], l) ELSE pass[1]

-----------------------------------------------------------------------------
(* Ordered insertion, duplicates, extremes.                                *)

RECURSIVE FirstAbove(_, _, _, _)
FirstAbove(g, e, elem, end) ==
  IF e = end \/ less(elem, e) THEN e ELSE FirstAbove(g, list_next(g, e), elem, end)

\* Mutant: the position is found by the first element that is not smaller.
list_insert_orderedFirst(g, l, elem) ==
  LET f == SelectSeq(Walk(g.next, list_begin(g, l), list_end(l)), LAMBDA e : ~less(e, elem))
  IN  list_insert(g, IF f = <<>> THEN list_end(l) ELSE f[1], elem)

list_insert_ordered(g, l, elem) ==
  list_insert(g, FirstAbove(g, list_begin(g, l), elem, list_end(l)), elem)

\* The loop of list_unique; D holds the list duplicates, or nothing.
RECURSIVE UniqueFrom(_, _, _, _)
UniqueFrom(g, l, D, elem) ==
  LET n == list_next(g, elem)
      r == list_remove(g, n)
  IN  IF n = list_end(l) THEN g
      ELSE IF less(elem, n) \/ less(n, elem) THEN UniqueFrom(g, l, D, n)
      ELSE UniqueFrom(IF D = {} THEN r ELSE list_push_back(r, CHOOSE d \in D : TRUE, n),
                      l, D, elem)

list_unique(g, l, D) ==
  IF list_empty(g, l) THEN g ELSE UniqueFrom(g, l, D, list_begin(g, l))

\* The nodes behind the first one, in the order the loops of list_max and
\* list_min compare them.
Others(g, l) == Walk(g.next, list_next(g, list_begin(g, l)), list_end(l))

\* Mutant: a later element that is as large wins.
list_maxLast(g, l) ==
  IF list_empty(g, l) THEN list_end(l)
  ELSE FoldLeft(LAMBDA max, e : IF less(e, max) THEN max ELSE e, list_begin(g, l), Others(g, l))

list_max(g, l) ==
  IF list_empty(g, l) THEN list_end(l)
  ELSE FoldLeft(LAMBDA max, e : IF less(max, e) THEN e ELSE max, list_begin(g, l), Others(g, l))

list_min(g, l) ==
  IF list_empty(g, l) THEN list_end(l)
  ELSE FoldLeft(LAMBDA min, e : IF less(e, min) THEN e ELSE min, list_begin(g, l), Others(g, l))

-----------------------------------------------------------------------------
(* The calls that the comments permit.                                     *)

In(l) == Range(Forward(l))
Listed == UNION {In(l) : l \in Lists}
Free == Elems \ Listed

Init ==
  h = [next |-> [n \in Nodes |-> IF n \in {head(l) : l \in Lists}
                                 THEN tail(n[2]) ELSE NULL],
       prev |-> [n \in Nodes |-> IF n \in {tail(l) : l \in Lists}
                                 THEN head(n[2]) ELSE NULL]]

InitAgain == \E l \in Lists : h' = list_init(h, l)
Insert == \E e \in Free, l \in Lists : \E b \in In(l) \union {tail(l)} :
            h' = list_insert(h, b, e)
PushFront == \E e \in Free, l \in Lists : h' = list_push_front(h, l, e)
PushBack == \E e \in Free, l \in Lists : h' = list_push_back(h, l, e)

\* first .. last is a range of list k that does not hold before.
SpliceRange ==
  \E l, k \in Lists :
    LET nodes == Append(Forward(k), tail(k))
    IN  \E i, j \in DOMAIN nodes :
          /\ i <= j
          /\ \E b \in (In(l) \union {tail(l)}) \ {nodes[n] : n \in i .. j - 1} :
               h' = list_splice(h, b, nodes[i], nodes[j])

RemoveElem == \E e \in Listed : h' = list_remove(h, e)
PopFront == \E l \in Lists : ~list_empty(h, l) /\ h' = list_pop_front(h, l)
PopBack == \E l \in Lists : ~list_empty(h, l) /\ h' = list_pop_back(h, l)
ReverseList == \E l \in Lists : h' = list_reverse(h, l)
SortList == \E l \in Lists : h' = list_sort(h, l)

InsertOrdered == \E e \in Free, l \in Lists :
                   /\ is_sorted(h, list_begin(h, l), list_end(l))
                   /\ h' = list_insert_ordered(h, l, e)

UniqueList == \E l \in Lists : \E D \in {{}} \union {{d} : d \in Lists \ {l}} :
                h' = list_unique(h, l, D)

Next == \/ InitAgain \/ Insert \/ PushFront \/ PushBack \/ SpliceRange \/ RemoveElem
        \/ PopFront \/ PopBack \/ ReverseList \/ SortList \/ InsertOrdered \/ UniqueList

Spec == Init /\ [][Next]_vars

-----------------------------------------------------------------------------
(* Properties.                                                             *)

\* Walking a list from the tail by list_prev meets the elements that walking
\* it from the head by list_next meets, in the opposite order; the checks
\* is_head, is_interior and is_tail tell the headers and the elements of every
\* list apart, as the picture at the top of list.c says.
BothWays ==
  \A l \in Lists :
    LET f == Forward(l)
        b == Backward(l)
    IN  /\ Len(f) = Len(b)
        /\ \A i \in 1 .. Len(f) : f[i] = b[Len(f) + 1 - i] /\ is_interior(h, f[i])
        /\ is_head(h, head(l)) /\ is_tail(h, tail(l))
        /\ list_size(h, l) = Cardinality(In(l))

\* list_max and list_min return the element that appears earlier in the list
\* when several have the extreme value, and the tail when the list is empty.
EarliestExtreme ==
  \A l \in Lists :
    LET f == Forward(l)
        First(e, Beats(_, _)) ==
          \E i \in 1 .. Len(f) : f[i] = e /\ \A j \in 1 .. Len(f) :
            ~Beats(f[j], e) /\ (j < i => Beats(e, f[j]))
        Greater(a, b) == val[a] > val[b]
        Smaller(a, b) == val[a] < val[b]
    IN  IF f = <<>> THEN list_max(h, l) = tail(l) /\ list_min(h, l) = tail(l)
        ELSE First(list_max(h, l), Greater) /\ First(list_min(h, l), Smaller)

\* What the lists hold, for module ListSpec.
Contents == [l \in Lists |-> Forward(l)]

\* list_insert_ordered keeps a sorted list sorted, and puts the new element
\* behind those that are equal to it.
OrderedInsert ==
  InsertOrdered =>
    \A l \in Lists : is_sorted(h, list_begin(h, l), list_end(l))
      => /\ is_sorted(h', list_begin(h', l), list_end(l))
         /\ \A e \in In(l)' \ In(l) : LET n == h'.next[e]
                                      IN  n = tail(l) \/ less(e, n)
=============================================================================
