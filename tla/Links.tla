------------------------------- MODULE Links -------------------------------
(***************************************************************************)
(* The pointer operations of libc/kernel/list.c.  A value h of [next,      *)
(* prev] holds both links of every node: the elements that callers embed   *)
(* in their structures, and the two headers of each list.  An operation    *)
(* maps the links before the call to the links after it.  Following the    *)
(* link NULL is outside the domain of h.next and h.prev: a fault.          *)
(***************************************************************************)
EXTENDS Integers, Sequences

CONSTANTS Lists, Elems, NULL

head(l) == <<"head", l>>
tail(l) == <<"tail", l>>
Nodes == Elems \union {head(l) : l \in Lists} \union {tail(l) : l \in Lists}

is_head(h, n) == h.prev[n] = NULL /\ h.next[n] # NULL
is_interior(h, n) == h.prev[n] # NULL /\ h.next[n] # NULL
is_tail(h, n) == h.prev[n] # NULL /\ h.next[n] = NULL

list_init(h, l) ==
  [next |-> [h.next EXCEPT ![head(l)] = tail(l), ![tail(l)] = NULL],
   prev |-> [h.prev EXCEPT ![head(l)] = NULL, ![tail(l)] = head(l)]]

list_begin(h, l) == h.next[head(l)]
list_rbegin(h, l) == h.prev[tail(l)]
list_next(h, n) == h.next[n]
list_prev(h, n) == h.prev[n]
list_end(l) == tail(l)
list_rend(l) == head(l)

\* list_front and list_back: the same reads, on a list that is not empty.
list_front(h, l) == h.next[head(l)]
list_back(h, l) == h.prev[tail(l)]
list_empty(h, l) == list_begin(h, l) = list_end(l)

list_insert(h, before, elem) ==
  [next |-> [h.next EXCEPT ![elem] = before, ![h.prev[before]] = elem],
   prev |-> [h.prev EXCEPT ![elem] = h.prev[before], ![before] = elem]]

\* Both cuts are made before before->prev is read: before may be last itself.
list_splice(h, before, first, last) ==
  LET end == h.prev[last]
      cut == [next |-> [h.next EXCEPT ![h.prev[first]] = h.next[end]],
              prev |-> [h.prev EXCEPT ![h.next[end]] = h.prev[first]]]
      at  == cut.prev[before]
  IN  IF first = last THEN h
      ELSE [next |-> [cut.next EXCEPT ![end] = before, ![at] = first],
            prev |-> [cut.prev EXCEPT ![first] = at, ![before] = end]]

list_push_front(h, l, elem) == list_insert(h, list_begin(h, l), elem)
list_push_back(h, l, elem) == list_insert(h, list_end(l), elem)

\* Mutant: the successor keeps pointing back at the removed element.
list_removeHalf(h, elem) ==
  [h EXCEPT !.next = [@ EXCEPT ![h.prev[elem]] = h.next[elem]]]

\* The removed element keeps its own links.
list_remove(h, elem) ==
  [next |-> [h.next EXCEPT ![h.prev[elem]] = h.next[elem]],
   prev |-> [h.prev EXCEPT ![h.next[elem]] = h.prev[elem]]]

list_pop_front(h, l) == list_remove(h, list_front(h, l))
list_pop_back(h, l) == list_remove(h, list_back(h, l))
=============================================================================
