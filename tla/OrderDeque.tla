----------------------------- MODULE OrderDeque -----------------------------
(***************************************************************************)
(* The idiom the bounded maps of the crate share: a HashMap or HashSet     *)
(* next to a VecDeque that remembers the insertion order of its keys, so   *)
(* that the oldest key can be dropped when a limit is exceeded.            *)
(***************************************************************************)
EXTENDS Integers, Sequences

(* A push followed by `while deque.len() > maximum { pop_front }`: the     *)
(* deque never exceeds its maximum between calls (Lists), so one push is *)
(* answered by at most one pop.                                            *)

Popped(s, maximum) == IF Len(s) > maximum THEN {Head(s)} ELSE {}

Trimmed(s, maximum) == IF Len(s) > maximum THEN Tail(s) ELSE s

\* `retain(|candidate| candidate != r)` on a deque that holds r at most once.
Without(order, r) ==
    IF \E k \in 1..Len(order) : order[k] = r
    THEN LET at == CHOOSE k \in 1..Len(order) : order[k] = r
         IN  SubSeq(order, 1, at - 1) \o SubSeq(order, at + 1, Len(order))
    ELSE order

Distinct(s) == \A j, k \in 1..Len(s) : s[j] = s[k] => j = k

\* An order deque lists exactly the keys of its map, each once, within its
\* limit.
Lists(order, keys, maximum) ==
    /\ Distinct(order)
    /\ \A k \in 1..Len(order) : order[k] \in keys
    /\ \A x \in keys : \E k \in 1..Len(order) : order[k] = x
    /\ Len(order) <= maximum

=============================================================================
