-------------------------- MODULE OrderDequeProofs --------------------------
(* What a push and a removal do to a deque that lists the keys of a map. *)
EXTENDS OrderDeque, TLAPS, SequenceTheorems

\* A push on a deque that lists its map, followed by the pop of the oldest
\* entry when the deque is full, leaves a deque that lists its map, and the
\* entry just pushed is not the one popped.
LEMMA PushLists ==
    ASSUME NEW S, NEW order \in Seq(S), NEW keys,
           NEW maximum \in Nat, maximum # 0, NEW x \in S, x \notin keys,
           Lists(order, keys, maximum)
    PROVE  /\ Trimmed(Append(order, x), maximum) \in Seq(S)
           /\ Lists(Trimmed(Append(order, x), maximum),
                    (keys \cup {x}) \ Popped(Append(order, x), maximum), maximum)
           /\ x \notin Popped(Append(order, x), maximum)
           /\ Popped(Append(order, x), maximum) \subseteq keys
<1> DEFINE pushed == Append(order, x)
<1> DEFINE kept == Trimmed(pushed, maximum)
<1>1. /\ pushed \in Seq(S)
      /\ Len(pushed) = Len(order) + 1
      /\ \A k \in 1..Len(order) : pushed[k] = order[k]
      /\ pushed[Len(order) + 1] = x
  BY AppendProperties
<1> HIDE DEF pushed
<1>2. /\ Len(order) \in Nat
      /\ Len(order) <= maximum
      /\ \A k \in 1..Len(order) : order[k] \in keys
      /\ \A y \in keys : \E k \in 1..Len(order) : order[k] = y
      /\ Distinct(order)
  BY LenProperties DEF Lists
<1>3. Distinct(pushed)
  BY <1>1, <1>2 DEF Distinct
<1>4. \A y \in keys \cup {x} : \E k \in 1..Len(pushed) : pushed[k] = y
  <2> TAKE y \in keys \cup {x}
  <2>1. CASE y = x
    BY <2>1, <1>1, <1>2
  <2>2. CASE y \in keys
    <3>1. PICK k \in 1..Len(order) : order[k] = y
      BY <2>2, <1>2
    <3>2. k \in 1..Len(pushed) /\ pushed[k] = y
      BY <3>1, <1>1, <1>2
    <3> QED  BY <3>2
  <2> QED  BY <2>1, <2>2
<1>5. CASE Len(pushed) <= maximum
  <2>1. kept = pushed /\ Popped(pushed, maximum) = {}
    BY <1>5, <1>1, <1>2 DEF Trimmed, Popped
  <2>2. \A k \in 1..Len(pushed) : pushed[k] \in keys \cup {x}
    BY <1>1, <1>2
  <2>3. Lists(pushed, keys \cup {x}, maximum)
    BY <1>3, <1>4, <1>5, <2>2 DEF Lists
  <2> QED  BY <1>1, <2>1, <2>3 DEF pushed
<1>6. CASE Len(pushed) > maximum
  <2>1. Len(order) = maximum /\ Len(pushed) = maximum + 1
    BY <1>6, <1>1, <1>2
  <2>2. kept = Tail(pushed) /\ Popped(pushed, maximum) = {pushed[1]}
    BY <1>6, <1>1, <2>1 DEF Trimmed, Popped
  <2>3. /\ kept \in Seq(S)
        /\ Len(kept) = maximum
        /\ \A k \in 1..maximum : kept[k] = pushed[k + 1]
    BY <1>1, <2>1, <2>2, HeadTailProperties
  <2>4. pushed[1] \in keys /\ pushed[1] # x
    BY <1>1, <1>2, <2>1
  <2> HIDE DEF kept
  <2>5. Distinct(kept)
    <3> SUFFICES ASSUME NEW j \in 1..Len(kept), NEW k \in 1..Len(kept), kept[j] = kept[k]
                 PROVE  j = k
      BY DEF Distinct
    <3>1. j + 1 \in 1..Len(pushed) /\ k + 1 \in 1..Len(pushed)
      BY <2>1, <2>3
    <3>2. pushed[j + 1] = pushed[k + 1]
      BY <2>3
    <3>3. j + 1 = k + 1
      BY <3>1, <3>2, <1>3 DEF Distinct
    <3> QED  BY <3>3
  <2>6. \A k \in 1..Len(kept) : kept[k] \in (keys \cup {x}) \ {pushed[1]}
    <3> TAKE k \in 1..Len(kept)
    <3>1. kept[k] = pushed[k + 1] /\ k + 1 \in 1..Len(pushed) /\ 1 \in 1..Len(pushed)
      BY <2>1, <2>3
    <3>2. pushed[k + 1] # pushed[1]
      BY <3>1, <1>3, <2>3 DEF Distinct
    <3>3. pushed[k + 1] \in keys \cup {x}
      BY <3>1, <1>1, <1>2, <2>1
    <3> QED  BY <3>1, <3>2, <3>3
  <2>7. \A y \in (keys \cup {x}) \ {pushed[1]} : \E k \in 1..Len(kept) : kept[k] = y
    <3> TAKE y \in (keys \cup {x}) \ {pushed[1]}
    <3>1. PICK j \in 1..Len(pushed) : pushed[j] = y
      BY <1>4
    <3>2. j # 1
      BY <3>1
    <3>3. j - 1 \in 1..Len(kept) /\ kept[j - 1] = y
      BY <3>1, <3>2, <2>1, <2>3
    <3> QED  BY <3>3
  <2>8. Len(kept) <= maximum
    BY <2>3
  <2>9. Lists(kept, (keys \cup {x}) \ {pushed[1]}, maximum)
    BY <2>5, <2>6, <2>7, <2>8 DEF Lists
  <2> QED  BY <2>2, <2>3, <2>4, <2>9 DEF kept, pushed
<1> QED
  BY <1>5, <1>6, <1>1, <1>2

-----------------------------------------------------------------------------
\* `retain` removes an entry from its order deque as `remove` does from the map.
LEMMA WithoutLists ==
    ASSUME NEW S, NEW order \in Seq(S), NEW keys \in SUBSET S,
           NEW maximum \in Nat, NEW x \in S, Lists(order, keys, maximum)
    PROVE  /\ Without(order, x) \in Seq(S)
           /\ Lists(Without(order, x), keys \ {x}, maximum)
<1> DEFINE kept == Without(order, x)
<1>1. /\ Len(order) \in Nat
      /\ Len(order) <= maximum
      /\ \A k \in 1..Len(order) : order[k] \in keys
      /\ \A y \in keys : \E k \in 1..Len(order) : order[k] = y
      /\ Distinct(order)
  BY LenProperties DEF Lists
<1>2. CASE ~ \E k \in 1..Len(order) : order[k] = x
  <2>1. kept = order /\ keys \ {x} = keys
    BY <1>1, <1>2 DEF Without
  <2> QED  BY <2>1
<1>3. CASE \E k \in 1..Len(order) : order[k] = x
  <2>1. PICK n \in 1..Len(order) :
            /\ order[n] = x
            /\ kept = SubSeq(order, 1, n - 1) \o SubSeq(order, n + 1, Len(order))
    BY <1>3 DEF Without
  <2>2. /\ SubSeq(order, 1, n - 1) \in Seq(S)
        /\ Len(SubSeq(order, 1, n - 1)) = n - 1
        /\ \A k \in 1..(n - 1) : SubSeq(order, 1, n - 1)[k] = order[k]
    BY <1>1, <2>1
  <2>3. /\ SubSeq(order, n + 1, Len(order)) \in Seq(S)
        /\ Len(SubSeq(order, n + 1, Len(order))) = Len(order) - n
        /\ \A k \in 1..(Len(order) - n) :
                SubSeq(order, n + 1, Len(order))[k] = order[n + k]
    BY <1>1, <2>1
  <2> DEFINE front == SubSeq(order, 1, n - 1)
  <2> DEFINE back == SubSeq(order, n + 1, Len(order))
  <2> HIDE DEF front, back, kept
  <2>4. kept = front \o back
    BY <2>1 DEF front, back
  <2>5. /\ front \in Seq(S) /\ Len(front) = n - 1
        /\ \A k \in 1..(n - 1) : front[k] = order[k]
        /\ back \in Seq(S) /\ Len(back) = Len(order) - n
        /\ \A k \in 1..(Len(order) - n) : back[k] = order[n + k]
    BY <2>2, <2>3 DEF front, back
  <2>6. /\ kept \in Seq(S)
        /\ Len(kept) = Len(order) - 1
        /\ \A k \in 1..Len(kept) : kept[k] = IF k < n THEN order[k] ELSE order[k + 1]
    <3>0. /\ kept \in Seq(S)
          /\ Len(kept) = Len(front) + Len(back)
          /\ \A k \in 1..(Len(front) + Len(back)) :
                kept[k] = IF k <= Len(front) THEN front[k] ELSE back[k - Len(front)]
      <4>1. front \in Seq(S) /\ back \in Seq(S)
        BY <2>5
      <4> QED  BY <4>1, <2>4, ConcatProperties
    <3>1. /\ kept \in Seq(S)
          /\ Len(kept) = (n - 1) + (Len(order) - n)
          /\ \A k \in 1..((n - 1) + (Len(order) - n)) :
                kept[k] = IF k <= n - 1 THEN front[k] ELSE back[k - (n - 1)]
      <4>1. Len(front) = n - 1 /\ Len(back) = Len(order) - n
        BY <2>5
      <4> QED  BY <4>1, <3>0
    <3>2. Len(kept) = Len(order) - 1
      BY <3>1, <1>1, <2>1
    <3>3. ASSUME NEW k \in 1..Len(kept)
          PROVE  kept[k] = IF k < n THEN order[k] ELSE order[k + 1]
      <4>1. CASE k < n
        BY <4>1, <3>1, <3>2, <1>1, <2>5
      <4>2. CASE ~(k < n)
        <5>1. kept[k] = back[k - (n - 1)]
          BY <4>2, <3>1, <3>2, <1>1
        <5>2. k - (n - 1) \in 1..(Len(order) - n) /\ n + (k - (n - 1)) = k + 1
          BY <4>2, <3>2, <1>1
        <5> QED  BY <5>1, <5>2, <4>2, <2>5
      <4> QED  BY <4>1, <4>2
    <3> QED  BY <3>1, <3>2, <3>3
  <2>7. Distinct(kept)
    <3> SUFFICES ASSUME NEW j \in 1..Len(kept), NEW k \in 1..Len(kept), kept[j] = kept[k]
                 PROVE  j = k
      BY DEF Distinct
    <3> DEFINE at(m) == IF m < n THEN m ELSE m + 1
    <3>1. /\ at(j) \in 1..Len(order) /\ at(k) \in 1..Len(order)
          /\ order[at(j)] = order[at(k)]
      BY <1>1, <2>6
    <3>2. at(j) = at(k)
      BY <3>1, <1>1 DEF Distinct
    <3> QED  BY <3>2, <1>1, <2>6
  <2>8. \A k \in 1..Len(kept) : kept[k] \in keys \ {x}
    <3> TAKE k \in 1..Len(kept)
    <3> DEFINE at == IF k < n THEN k ELSE k + 1
    <3>1. at \in 1..Len(order) /\ kept[k] = order[at] /\ at # n
      BY <1>1, <2>6
    <3>2. order[at] # order[n]
      BY <3>1, <1>1 DEF Distinct
    <3> QED  BY <3>1, <3>2, <1>1, <2>1
  <2>9. \A y \in keys \ {x} : \E k \in 1..Len(kept) : kept[k] = y
    <3> TAKE y \in keys \ {x}
    <3>1. PICK m \in 1..Len(order) : order[m] = y
      BY <1>1
    <3>2. m # n
      BY <3>1, <2>1
    <3>3. CASE m < n
      <4>1. m \in 1..Len(kept) /\ kept[m] = y
        BY <3>1, <3>3, <1>1, <2>6
      <4> QED  BY <4>1
    <3>4. CASE m > n
      <4>1. m - 1 \in 1..Len(kept) /\ kept[m - 1] = y
        BY <3>1, <3>4, <1>1, <2>6
      <4> QED  BY <4>1
    <3> QED  BY <3>2, <3>3, <3>4, <1>1
  <2>10. Len(kept) <= maximum
    BY <1>1, <2>6
  <2> QED
    BY <2>6, <2>7, <2>8, <2>9, <2>10 DEF Lists, kept
<1> QED
  BY <1>2, <1>3

=============================================================================
