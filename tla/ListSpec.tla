------------------------------ MODULE ListSpec ------------------------------
(***************************************************************************)
(* What list.h promises its callers: every list is a sequence of elements, *)
(* and an element is in at most one list.                                  *)
(***************************************************************************)
EXTENDS Integers, Sequences, SequencesExt, FiniteSetsExt

CONSTANTS Lists, Elems, val

VARIABLE seq   \* seq[l]: the elements of list l, front first

Place(e) == CHOOSE l \in Lists : e \in Range(seq[l])
Listed == UNION {Range(seq[l]) : l \in Lists}
Index(e) == CHOOSE i \in DOMAIN seq[Place(e)] : seq[Place(e)][i] = e

Init == seq = [l \in Lists |-> <<>>]

Reset(l) == seq' = [seq EXCEPT ![l] = <<>>]
Insert(l, i, e) == seq' = [seq EXCEPT ![l] = InsertAt(@, i, e)]
RemoveElem(e) == seq' = [seq EXCEPT ![Place(e)] = RemoveAt(@, Index(e))]
Rev(l) == seq' = [seq EXCEPT ![l] = Reverse(@)]

\* Elements i .. j - 1 of list k go before element p of list l.
Splice(l, p, k, i, j) ==
  LET moved == SubSeq(seq[k], i, j - 1)
      rest  == SubSeq(seq[k], 1, i - 1) \o SubSeq(seq[k], j, Len(seq[k]))
      at    == IF l = k /\ p >= j THEN p - (j - i) ELSE p
      into  == IF l = k THEN rest ELSE seq[l]
      out   == SubSeq(into, 1, at - 1) \o moved \o SubSeq(into, at, Len(into))
  IN  seq' = [[seq EXCEPT ![k] = rest] EXCEPT ![l] = out]

\* Equal elements keep their order.
Sorted(s) ==
  LET before(i, j) == val[s[i]] < val[s[j]] \/ (val[s[i]] = val[s[j]] /\ i < j)
      rank(i) == Quantify(DOMAIN s, LAMBDA j : before(j, i))
  IN  [n \in DOMAIN s |-> s[CHOOSE i \in DOMAIN s : rank(i) = n - 1]]

Sort(l) == seq' = [seq EXCEPT ![l] = Sorted(@)]

\* The first of each group of neighbours with equal values stays; the others
\* go to the end of list d, when there is one.
Unique(l, D) ==
  LET s    == seq[l]
      Keep == {i \in DOMAIN s : i = 1 \/ val[s[i]] # val[s[i - 1]]}
      kept == SelectSeq(s, LAMBDA e : \E i \in Keep : s[i] = e)
      gone == SelectSeq(s, LAMBDA e : \E i \in DOMAIN s \ Keep : s[i] = e)
  IN  seq' = [k \in Lists |-> IF k = l THEN kept
                              ELSE IF k \in D THEN seq[k] \o gone ELSE seq[k]]

Next ==
  \/ \E l \in Lists : Reset(l) \/ Rev(l) \/ Sort(l)
  \/ \E l \in Lists, e \in Elems \ Listed : \E i \in 1 .. Len(seq[l]) + 1 : Insert(l, i, e)
  \/ \E e \in Listed : RemoveElem(e)
  \/ \E l, k \in Lists : \E p \in 1 .. Len(seq[l]) + 1, j \in 1 .. Len(seq[k]) + 1 :
       \E i \in 1 .. j : (l # k \/ p \notin i .. j - 1) /\ Splice(l, p, k, i, j)
  \/ \E l \in Lists : \E D \in {{}} \union {{d} : d \in Lists \ {l}} : Unique(l, D)

Spec == Init /\ [][Next]_seq
=============================================================================
