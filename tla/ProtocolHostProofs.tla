------------------------- MODULE ProtocolHostProofs -------------------------
(***************************************************************************)
(* Two registries of a protocol host.  The idempotency cache is            *)
(* consistent, owns its claims and answers every dispatch with its own     *)
(* frames, for any number of dispatches, ids, fingerprints and any limits. *)
(* The interaction broker accepts one response for each interaction and    *)
(* hands it to one waiter, for any number of waits, responses and          *)
(* interactions and any limit.                                             *)
(***************************************************************************)
EXTENDS RequestCache, InteractionBroker, OrderDequeProofs, FiniteSetTheorems

-----------------------------------------------------------------------------
(* The request cache *)

\* An entry remembers the frame of the dispatch that claimed it.
HolderFrame ==
    \A id \in RequestId : entry[id] # "None" =>
        /\ holder[id] \in Dispatch
        /\ IdOf(holder[id]) = id
        /\ PrintOf(holder[id]) = print[id]

\* The k-th id of the deque completed before Len(order) - k others, and an id
\* outside it is fresh or has been pushed out.
OrderCounts ==
    /\ \A k \in 1..Len(order) : since[order[k]] = Len(order) - k
    /\ \A id \in RequestId : entry[id] # "Complete" => since[id] = -1 \/ since[id] >= maximum

CacheInv ==
    /\ TypeOK
    /\ CacheConsistent
    /\ GuardOwnsEntry
    /\ AnswerIsOwn
    /\ HolderFrame
    /\ OrderCounts

\* The pending entries can be counted.
LEMMA PendingFinite ==
    IsFiniteSet(PendingIds) /\ Cardinality(PendingIds) \in Nat
BY FS_Subset, FS_CardinalityType, CacheSetsAssumption, Zenon DEF PendingIds

\* The empty cache satisfies the invariant.
LEMMA InitCacheInv == Init => CacheInv
<1> SUFFICES ASSUME Init PROVE CacheInv
  BY Zenon
<1> USE DEF Init
<1>1. TypeOK
  BY DEF TypeOK, Step
<1>2. CacheConsistent
  <2>1. PendingIds = {} /\ CompleteIds = {}
    BY Zenon DEF PendingIds, CompleteIds
  <2>2. Cardinality(PendingIds) = 0
    BY <2>1, FS_EmptySet, Zenon
  <2>3. Lists(order, CompleteIds, maximum)
    BY <2>1, CacheLimitsAssumption DEF Lists, Distinct
  <2> QED
    BY <2>2, <2>3, CacheLimitsAssumption DEF CacheConsistent
<1>3. GuardOwnsEntry
  BY Zenon DEF GuardOwnsEntry, PendingIds
<1>4. AnswerIsOwn
  BY Zenon DEF AnswerIsOwn
<1>5. HolderFrame /\ OrderCounts
  BY DEF HolderFrame, OrderCounts
<1> QED
  BY <1>1, <1>2, <1>3, <1>4, <1>5, Zenon DEF CacheInv

\* A claim that becomes the owner takes a free id and a free place.
LEMMA OwnerInv ==
    ASSUME CacheInv, NEW d \in Dispatch, ClaimOwner(d)
    PROVE  CacheInv'
<1> DEFINE id == IdOf(d)
<1>1. /\ TypeOK /\ CacheConsistent /\ GuardOwnsEntry /\ AnswerIsOwn
      /\ HolderFrame /\ OrderCounts
  BY Zenon DEF CacheInv
<1>2. /\ id \in RequestId /\ PrintOf(d) \in Fingerprint
      /\ entry[id] = "None" /\ step[d] = "claiming"
  BY <1>1, Zenon DEF TypeOK, Frame, IdOf, PrintOf, ClaimOwner
<1>3. /\ entry' = [entry EXCEPT ![id] = "Pending"]
      /\ print' = [print EXCEPT ![id] = PrintOf(d)]
      /\ holder' = [holder EXCEPT ![id] = d]
      /\ pending' = pending + 1 /\ pending < pending_maximum
      /\ step' = [step EXCEPT ![d] = "executing"]
      /\ since' = [since EXCEPT ![id] = -1]
      /\ order' = order /\ frame' = frame /\ waits_for' = waits_for /\ answer' = answer
  BY Zenon DEF ClaimOwner
<1>4. \A x : IdOf(x)' = IdOf(x) /\ PrintOf(x)' = PrintOf(x)
  BY <1>3, Zenon DEF IdOf, PrintOf
<1> HIDE DEF id
<1>5. TypeOK'
  BY <1>1, <1>2, <1>3 DEF TypeOK, Step
<1>6. CacheConsistent'
  <2>1. PendingIds' = PendingIds \cup {id} /\ id \notin PendingIds
    BY <1>1, <1>2, <1>3, Zenon DEF TypeOK, PendingIds
  <2>2. Cardinality(PendingIds') = Cardinality(PendingIds) + 1
    BY <2>1, PendingFinite, FS_AddElement, Zenon
  <2>3. CompleteIds' = CompleteIds
    BY <1>1, <1>2, <1>3, Zenon DEF TypeOK, CompleteIds
  <2>4. pending' = Cardinality(PendingIds') /\ pending' <= pending_maximum
    BY <1>1, <1>3, <2>2, CacheLimitsAssumption DEF CacheConsistent, TypeOK
  <2> QED
    BY <1>1, <1>3, <2>3, <2>4, Zenon DEF CacheConsistent
<1>7. GuardOwnsEntry'
  <2>1. ASSUME NEW x \in Dispatch, step'[x] = "executing"
        PROVE  /\ entry'[IdOf(x)] = "Pending" /\ print'[IdOf(x)] = PrintOf(x)
               /\ holder'[IdOf(x)] = x
    <3>1. CASE x = d
      BY <1>1, <1>2, <1>3, <3>1, Zenon DEF TypeOK, id
    <3>2. CASE x # d
      <4>1. step[x] = "executing"
        BY <1>1, <1>3, <2>1, <3>2, Zenon DEF TypeOK
      <4>2. /\ entry[IdOf(x)] = "Pending" /\ print[IdOf(x)] = PrintOf(x)
            /\ holder[IdOf(x)] = x
        BY <1>1, <4>1, Zenon DEF GuardOwnsEntry, Matches
      <4>3. IdOf(x) # id /\ IdOf(x) \in RequestId
        BY <1>1, <1>2, <4>2, Zenon DEF TypeOK, Frame, IdOf
      <4> QED
        BY <1>1, <1>3, <4>2, <4>3, Zenon DEF TypeOK
    <3> QED
      BY <3>1, <3>2, Zenon
  <2>2. ASSUME NEW x \in RequestId, entry'[x] = "Pending"
        PROVE  holder'[x] \in Dispatch /\ step'[holder'[x]] = "executing"
    <3>1. CASE x = id
      BY <1>1, <1>2, <1>3, <3>1, Zenon DEF TypeOK
    <3>2. CASE x # id
      <4>1. entry[x] = "Pending" /\ holder'[x] = holder[x]
        BY <1>1, <1>3, <2>2, <3>2, Zenon DEF TypeOK
      <4>2. holder[x] \in Dispatch /\ step[holder[x]] = "executing"
        BY <1>1, <4>1, Zenon DEF GuardOwnsEntry, PendingIds
      <4> QED
        BY <1>1, <1>3, <4>1, <4>2, Zenon DEF TypeOK
    <3> QED
      BY <3>1, <3>2, Zenon
  <2> QED
    BY <1>4, <2>1, <2>2, Zenon DEF GuardOwnsEntry, Matches, PendingIds
<1>8. AnswerIsOwn'
  BY <1>1, <1>3, Zenon DEF AnswerIsOwn
<1>9. HolderFrame'
  <2> SUFFICES ASSUME NEW x \in RequestId, entry'[x] # "None"
               PROVE  /\ holder'[x] \in Dispatch
                      /\ IdOf(holder'[x]) = x /\ PrintOf(holder'[x]) = print'[x]
    BY <1>4, Zenon DEF HolderFrame
  <2>1. CASE x = id
    BY <1>1, <1>2, <1>3, <2>1, Zenon DEF TypeOK, id
  <2>2. CASE x # id
    BY <1>1, <1>2, <1>3, <2>2, Zenon DEF TypeOK, HolderFrame
  <2> QED
    BY <2>1, <2>2, Zenon
<1>10. OrderCounts'
  <2>1. ASSUME NEW k \in 1..Len(order) PROVE since'[order[k]] = Len(order) - k
    <3>1. order[k] \in CompleteIds
      BY <1>1, Zenon DEF CacheConsistent, Lists
    <3>2. order[k] # id /\ order[k] \in RequestId
      BY <1>2, <3>1, Zenon DEF CompleteIds
    <3> QED
      BY <1>1, <1>3, <3>2, Zenon DEF TypeOK, OrderCounts
  <2>2. ASSUME NEW x \in RequestId, entry'[x] # "Complete"
        PROVE  since'[x] = -1 \/ since'[x] >= maximum
    BY <1>1, <1>2, <1>3, <2>2, Zenon DEF TypeOK, OrderCounts
  <2> QED
    BY <1>3, <2>1, <2>2, Zenon DEF OrderCounts
<1> QED
  BY <1>5, <1>6, <1>7, <1>8, <1>9, <1>10, Zenon DEF CacheInv

\* A step that leaves the cache alone and starts or ends no execution.
LEMMA QuietInv ==
    ASSUME CacheInv, UNCHANGED <<cacheVars, frame, since>>, TypeOK', AnswerIsOwn',
           \A x \in Dispatch : step'[x] = "executing" <=> step[x] = "executing"
    PROVE  CacheInv'
<1>1. /\ entry' = entry /\ print' = print /\ holder' = holder /\ order' = order
      /\ pending' = pending /\ frame' = frame /\ since' = since
  BY Zenon DEF cacheVars
<1>2. CacheConsistent'
  BY <1>1, Zenon DEF CacheInv, CacheConsistent, PendingIds, CompleteIds
<1>3. GuardOwnsEntry'
  BY <1>1 DEF CacheInv, GuardOwnsEntry, Matches, PendingIds, IdOf, PrintOf
<1>4. HolderFrame'
  BY <1>1, Zenon DEF CacheInv, HolderFrame, IdOf, PrintOf
<1>5. OrderCounts'
  BY <1>1, Zenon DEF CacheInv, OrderCounts
<1> QED
  BY <1>2, <1>3, <1>4, <1>5, Zenon DEF CacheInv

\* Waiting for another dispatch, waking up and being refused change no entry.
LEMMA WaitInv ==
    ASSUME CacheInv, NEW d \in Dispatch, ClaimWait(d) \/ ClaimRejected(d) \/ Wake(d)
    PROVE  CacheInv'
<1>1. TypeOK /\ AnswerIsOwn
  BY Zenon DEF CacheInv
<1>2. IdOf(d) \in RequestId
  BY <1>1, Zenon DEF TypeOK, Frame, IdOf
<1>3. UNCHANGED <<cacheVars, frame, since>> /\ answer' = answer
  BY Zenon DEF ClaimWait, ClaimRejected, Wake
<1>4. AnswerIsOwn'
  BY <1>1, <1>3, Zenon DEF AnswerIsOwn
<1>5. /\ step \in [Dispatch -> Step] /\ step[d] \in {"claiming", "waiting"}
      /\ \E s \in {"waiting", "rejected", "claiming"} : step' = [step EXCEPT ![d] = s]
      /\ waits_for' \in [Dispatch -> Dispatch \cup {Nobody}]
  BY <1>1, <1>2, Zenon DEF TypeOK, ClaimWait, ClaimRejected, Wake
<1>6. step' \in [Dispatch -> Step]
  BY <1>5, Zenon DEF Step
<1>7. TypeOK'
  BY <1>1, <1>3, <1>5, <1>6, Zenon DEF TypeOK, cacheVars
<1>8. \A x \in Dispatch : step'[x] = "executing" <=> step[x] = "executing"
  BY <1>5, Zenon
<1> QED
  BY <1>3, <1>4, <1>7, <1>8, QuietInv, Zenon

\* A cached answer was produced by a dispatch of the very same frame.
LEMMA CachedInv ==
    ASSUME CacheInv, NEW d \in Dispatch, ClaimCached(d)
    PROVE  CacheInv'
<1>1. TypeOK /\ AnswerIsOwn /\ HolderFrame
  BY Zenon DEF CacheInv
<1>2. /\ IdOf(d) \in RequestId
      /\ entry[IdOf(d)] = "Complete" /\ print[IdOf(d)] = PrintOf(d)
      /\ UNCHANGED <<cacheVars, frame, since>> /\ waits_for' = waits_for
      /\ step[d] = "claiming"
      /\ step' = [step EXCEPT ![d] = "answered"]
      /\ answer' = [answer EXCEPT ![d] = holder[IdOf(d)]]
  BY <1>1, Zenon DEF TypeOK, Frame, IdOf, ClaimCached, Matches
<1>3. /\ holder[IdOf(d)] \in Dispatch
      /\ IdOf(holder[IdOf(d)]) = IdOf(d) /\ PrintOf(holder[IdOf(d)]) = PrintOf(d)
  BY <1>1, <1>2, Zenon DEF HolderFrame
<1>4. frame[holder[IdOf(d)]] = frame[d]
  BY <1>1, <1>3 DEF TypeOK, Frame, IdOf, PrintOf
<1>5. TypeOK'
  BY <1>1, <1>2, <1>3, Zenon DEF TypeOK, cacheVars, Step
<1>6. AnswerIsOwn'
  BY <1>1, <1>2, <1>3, <1>4, Zenon DEF AnswerIsOwn, TypeOK
<1>7. \A x \in Dispatch : step'[x] = "executing" <=> step[x] = "executing"
  BY <1>1, <1>2, Zenon DEF TypeOK
<1> QED
  BY <1>2, <1>5, <1>6, <1>7, QuietInv, Zenon

\* A dropped guard gives back the entry and the place it took.
LEMMA DropInv ==
    ASSUME CacheInv, NEW d \in Dispatch, drop(d)
    PROVE  CacheInv'
<1> DEFINE id == IdOf(d)
<1>1. /\ TypeOK /\ CacheConsistent /\ GuardOwnsEntry /\ AnswerIsOwn
      /\ HolderFrame /\ OrderCounts
  BY Zenon DEF CacheInv
<1>2. /\ id \in RequestId /\ frame' = frame /\ answer' = answer /\ since' = since
      /\ step' = [step EXCEPT ![d] = "dropped"]
      /\ waits_for' = [waits_for EXCEPT ![d] = Nobody]
  BY <1>1, Zenon DEF TypeOK, Frame, IdOf, drop
<1>3. \A x : IdOf(x)' = IdOf(x) /\ PrintOf(x)' = PrintOf(x)
  BY <1>2, Zenon DEF IdOf, PrintOf
<1>4. AnswerIsOwn'
  BY <1>1, <1>2, Zenon DEF AnswerIsOwn
<1>5. CASE step[d] # "executing"
  <2>1. UNCHANGED cacheVars
    BY <1>5, Zenon DEF drop
  <2>2. TypeOK'
    BY <1>1, <1>2, <2>1, Zenon DEF TypeOK, Step, cacheVars
  <2>3. \A x \in Dispatch : step'[x] = "executing" <=> step[x] = "executing"
    BY <1>1, <1>2, <1>5, Zenon DEF TypeOK
  <2> QED
    BY <1>2, <1>4, <2>1, <2>2, <2>3, QuietInv, Zenon
<1>6. CASE step[d] = "executing"
  <2>1. /\ entry[id] = "Pending" /\ print[id] = PrintOf(d) /\ holder[id] = d
    BY <1>1, <1>6, Zenon DEF GuardOwnsEntry, Matches
  <2>2. /\ entry' = [entry EXCEPT ![id] = "None"]
        /\ pending' = IF pending > 0 THEN pending - 1 ELSE 0
        /\ print' = print /\ holder' = holder /\ order' = order
    BY <1>6, <2>1, Zenon DEF drop, Matches
  <2>3. PendingIds' = PendingIds \ {id} /\ id \in PendingIds
    BY <1>1, <1>2, <2>1, <2>2, Zenon DEF TypeOK, PendingIds
  <2>4. /\ Cardinality(PendingIds') = Cardinality(PendingIds) - 1
        /\ Cardinality(PendingIds) \in Nat
        /\ Cardinality(PendingIds') \in Nat
    BY <2>3, PendingFinite, FS_RemoveElement, FS_CardinalityType, Zenon
  <2> HIDE DEF id
  <2>5. TypeOK'
    BY <1>1, <1>2, <2>2 DEF TypeOK, Step
  <2>6. CacheConsistent'
    <3>1. CompleteIds' = CompleteIds
      BY <1>1, <1>2, <2>1, <2>2, Zenon DEF TypeOK, CompleteIds
    <3>2. pending' = Cardinality(PendingIds') /\ pending' <= pending_maximum
      BY <1>1, <2>2, <2>4, CacheLimitsAssumption DEF CacheConsistent, TypeOK
    <3> QED
      BY <1>1, <2>2, <3>1, <3>2, Zenon DEF CacheConsistent
  <2>7. GuardOwnsEntry'
    <3>1. ASSUME NEW x \in Dispatch, step'[x] = "executing"
          PROVE  /\ entry'[IdOf(x)] = "Pending" /\ print'[IdOf(x)] = PrintOf(x)
                 /\ holder'[IdOf(x)] = x
      <4>1. x # d /\ step[x] = "executing"
        BY <1>1, <1>2, <3>1, Zenon DEF TypeOK
      <4>2. /\ entry[IdOf(x)] = "Pending" /\ print[IdOf(x)] = PrintOf(x)
            /\ holder[IdOf(x)] = x
        BY <1>1, <4>1, Zenon DEF GuardOwnsEntry, Matches
      <4>3. IdOf(x) # id /\ IdOf(x) \in RequestId
        BY <1>1, <2>1, <4>1, <4>2, Zenon DEF TypeOK, Frame, IdOf
      <4> QED
        BY <1>1, <2>2, <4>2, <4>3, Zenon DEF TypeOK
    <3>2. ASSUME NEW x \in RequestId, entry'[x] = "Pending"
          PROVE  holder'[x] \in Dispatch /\ step'[holder'[x]] = "executing"
      <4>1. x # id /\ entry[x] = "Pending"
        BY <1>1, <2>2, <3>2, Zenon DEF TypeOK
      <4>2. holder[x] \in Dispatch /\ step[holder[x]] = "executing" /\ IdOf(holder[x]) = x
        BY <1>1, <4>1, Zenon DEF GuardOwnsEntry, PendingIds, HolderFrame
      <4>3. holder[x] # d
        BY <4>1, <4>2, Zenon DEF id
      <4> QED
        BY <1>1, <1>2, <2>2, <4>2, <4>3, Zenon DEF TypeOK
    <3> QED
      BY <1>3, <3>1, <3>2, Zenon DEF GuardOwnsEntry, Matches, PendingIds
  <2>8. HolderFrame'
    BY <1>1, <1>2, <1>3, <2>2, Zenon DEF TypeOK, HolderFrame
  <2>9. OrderCounts'
    BY <1>1, <1>2, <2>1, <2>2 DEF TypeOK, OrderCounts
  <2> QED
    BY <1>4, <2>5, <2>6, <2>7, <2>8, <2>9, Zenon DEF CacheInv
<1> QED
  BY <1>5, <1>6, Zenon

\* A completion turns the claim into the newest cached answer and pushes out at
\* most the oldest one.
LEMMA CompleteInv ==
    ASSUME CacheInv, NEW d \in Dispatch, complete(d)
    PROVE  CacheInv'
<1> DEFINE id == IdOf(d)
<1> DEFINE out == Popped(Append(order, id), maximum)
<1>1. /\ TypeOK /\ CacheConsistent /\ GuardOwnsEntry /\ AnswerIsOwn
      /\ HolderFrame /\ OrderCounts
  BY Zenon DEF CacheInv
<1>2. id \in RequestId /\ step[d] = "executing" /\ order \in Seq(RequestId)
  BY <1>1, Zenon DEF TypeOK, Frame, IdOf, complete
<1>3. /\ entry[id] = "Pending" /\ print[id] = PrintOf(d) /\ holder[id] = d
  BY <1>1, <1>2, Zenon DEF GuardOwnsEntry, Matches
<1>4. /\ pending' = IF pending > 0 THEN pending - 1 ELSE 0
      /\ entry' = Evicted([entry EXCEPT ![id] = "Complete"], Append(order, id))
      /\ order' = Trimmed(Append(order, id), maximum)
      /\ since' = [y \in RequestId |-> IF y = id THEN 0
                                       ELSE IF since[y] >= 0 THEN since[y] + 1 ELSE -1]
      /\ step' = [step EXCEPT ![d] = "answered"]
      /\ answer' = [answer EXCEPT ![d] = d]
      /\ print' = print /\ holder' = holder /\ frame' = frame /\ waits_for' = waits_for
  BY <1>3, Zenon DEF complete, Matches
<1>5. \A x : IdOf(x)' = IdOf(x) /\ PrintOf(x)' = PrintOf(x)
  BY <1>4, Zenon DEF IdOf, PrintOf
<1>6. maximum \in Nat /\ maximum # 0 /\ id \notin CompleteIds
      /\ Lists(order, CompleteIds, maximum)
  BY <1>1, <1>3, CacheLimitsAssumption, Zenon DEF CompleteIds, CacheConsistent
<1> HIDE DEF id
<1>7. /\ order' \in Seq(RequestId)
      /\ Lists(order', (CompleteIds \cup {id}) \ out, maximum)
      /\ id \notin out
      /\ out \subseteq CompleteIds
  BY <1>2, <1>4, <1>6, PushLists, Zenon
<1>8. out = IF Len(Append(order, id)) > maximum THEN {Head(Append(order, id))} ELSE {}
  BY Zenon DEF Popped
<1>9. entry' = [y \in RequestId |-> IF y \in out THEN "None"
                                    ELSE IF y = id THEN "Complete" ELSE entry[y]]
  <2>1. entry' = [y \in RequestId |->
                    IF y \in out /\ [entry EXCEPT ![id] = "Complete"][y] = "Complete"
                    THEN "None" ELSE [entry EXCEPT ![id] = "Complete"][y]]
    BY <1>4, Zenon DEF Evicted
  <2>2. \A y \in out : entry[y] = "Complete" /\ y # id
    BY <1>7, Zenon DEF CompleteIds
  <2>3. entry \in [RequestId -> {"None", "Pending", "Complete"}]
    BY <1>1, Zenon DEF TypeOK
  <2> HIDE DEF out
  <2> QED
    BY <1>2, <2>1, <2>2, <2>3, Zenon
<1>10. /\ CompleteIds' = (CompleteIds \cup {id}) \ out
       /\ PendingIds' = PendingIds \ {id} /\ id \in PendingIds
  <2> HIDE DEF out
  <2> QED
    BY <1>2, <1>3, <1>7, <1>9, Zenon DEF CompleteIds, PendingIds
<1> HIDE DEF out
<1>11. TypeOK'
  <2>1. entry' \in [RequestId -> {"None", "Pending", "Complete"}]
    BY <1>1, <1>9, Zenon DEF TypeOK
  <2>2. since' \in [RequestId -> Nat \cup {-1}]
    BY <1>1, <1>4 DEF TypeOK
  <2>3. pending' \in Nat
    BY <1>1, <1>4 DEF TypeOK
  <2>4. step' \in [Dispatch -> Step] /\ answer' \in [Dispatch -> Dispatch \cup {Nobody}]
    BY <1>1, <1>4, Zenon DEF TypeOK, Step
  <2> QED
    BY <1>1, <1>4, <1>7, <2>1, <2>2, <2>3, <2>4, Zenon DEF TypeOK
<1>12. CacheConsistent'
  <2>1. /\ Cardinality(PendingIds') = Cardinality(PendingIds) - 1
        /\ Cardinality(PendingIds) \in Nat
        /\ Cardinality(PendingIds') \in Nat
    BY <1>10, PendingFinite, FS_RemoveElement, FS_CardinalityType, Zenon
  <2>2. pending' = Cardinality(PendingIds') /\ pending' <= pending_maximum
    BY <1>1, <1>4, <2>1, CacheLimitsAssumption DEF CacheConsistent, TypeOK
  <2> QED
    BY <1>7, <1>10, <2>2, Zenon DEF CacheConsistent
<1>13. GuardOwnsEntry'
  <2>1. ASSUME NEW x \in Dispatch, step'[x] = "executing"
        PROVE  /\ entry'[IdOf(x)] = "Pending" /\ print'[IdOf(x)] = PrintOf(x)
               /\ holder'[IdOf(x)] = x
    <3>1. x # d /\ step[x] = "executing"
      BY <1>1, <1>4, <2>1, Zenon DEF TypeOK
    <3>2. /\ entry[IdOf(x)] = "Pending" /\ print[IdOf(x)] = PrintOf(x)
          /\ holder[IdOf(x)] = x
      BY <1>1, <3>1, Zenon DEF GuardOwnsEntry, Matches
    <3>3. IdOf(x) # id /\ IdOf(x) \in RequestId
      BY <1>1, <1>3, <3>1, <3>2, Zenon DEF TypeOK, Frame, IdOf
    <3>4. IdOf(x) \notin out
      BY <1>7, <3>2, Zenon DEF CompleteIds
    <3> QED
      BY <1>4, <1>9, <3>2, <3>3, <3>4, Zenon
  <2>2. ASSUME NEW x \in RequestId, entry'[x] = "Pending"
        PROVE  holder'[x] \in Dispatch /\ step'[holder'[x]] = "executing"
    <3>1. x # id /\ entry[x] = "Pending"
      BY <1>9, <2>2, Zenon
    <3>2. holder[x] \in Dispatch /\ step[holder[x]] = "executing" /\ IdOf(holder[x]) = x
      BY <1>1, <3>1, Zenon DEF GuardOwnsEntry, PendingIds, HolderFrame
    <3>3. holder[x] # d
      BY <3>1, <3>2, Zenon DEF id
    <3> QED
      BY <1>1, <1>4, <3>2, <3>3, Zenon DEF TypeOK
  <2> QED
    BY <1>5, <2>1, <2>2, Zenon DEF GuardOwnsEntry, Matches, PendingIds
<1>14. AnswerIsOwn'
  BY <1>1, <1>4, Zenon DEF AnswerIsOwn, TypeOK
<1>15. HolderFrame'
  <2> SUFFICES ASSUME NEW x \in RequestId, entry'[x] # "None"
               PROVE  /\ holder[x] \in Dispatch
                      /\ IdOf(holder[x]) = x /\ PrintOf(holder[x]) = print[x]
    BY <1>4, <1>5, Zenon DEF HolderFrame
  <2>1. entry[x] # "None"
    BY <1>3, <1>9, Zenon
  <2> QED
    BY <1>1, <2>1, Zenon DEF HolderFrame
<1>16. OrderCounts'
  <2>1. /\ Len(order) \in Nat /\ Len(order) <= maximum
        /\ \A k \in 1..Len(order) : order[k] \in CompleteIds
    BY <1>2, <1>6, LenProperties, Zenon DEF Lists
  <2>2. \A k \in 1..Len(order) : since'[order[k]] = Len(order) + 1 - k
    <3> SUFFICES ASSUME NEW k \in 1..Len(order)
                 PROVE  since'[order[k]] = Len(order) + 1 - k
      BY Zenon
    <3>1. order[k] \in RequestId /\ order[k] # id
      BY <1>6, <2>1, Zenon DEF CompleteIds
    <3>2. since[order[k]] = Len(order) - k
      BY <1>1, Zenon DEF OrderCounts
    <3> QED
      BY <1>4, <2>1, <3>1, <3>2
  <2>3. since'[id] = 0
    BY <1>2, <1>4, Zenon
  <2> DEFINE pushed == Append(order, id)
  <2>4. /\ pushed \in Seq(RequestId) /\ Len(pushed) = Len(order) + 1
        /\ \A k \in 1..Len(order) : pushed[k] = order[k]
        /\ pushed[Len(order) + 1] = id
    BY <1>2, AppendProperties
  <2> HIDE DEF pushed
  <2>5. \A k \in 1..Len(pushed) : since'[pushed[k]] = Len(pushed) - k
    <3> SUFFICES ASSUME NEW k \in 1..Len(pushed)
                 PROVE  since'[pushed[k]] = Len(pushed) - k
      BY Zenon
    <3>1. k \in 1..Len(order) \/ k = Len(order) + 1
      BY <2>1, <2>4
    <3> QED
      BY <2>1, <2>2, <2>3, <2>4, <3>1
  <2>6. \A k \in 1..Len(order') : since'[order'[k]] = Len(order') - k
    <3>1. CASE Len(pushed) <= maximum
      <4>1. order' = pushed
        BY <1>4, <2>1, <2>4, <1>6, <3>1 DEF Trimmed, pushed
      <4> QED
        BY <2>5, <4>1, Zenon
    <3>2. CASE Len(pushed) > maximum
      <4>1. order' = Tail(pushed)
        BY <1>4, <3>2, Zenon DEF Trimmed, pushed
      <4>2. pushed # << >>
        BY <2>1, <2>4
      <4>3. /\ Len(order') = Len(pushed) - 1
            /\ \A k \in 1..Len(order') : order'[k] = pushed[k + 1]
        BY <2>4, <4>1, <4>2, HeadTailProperties, Zenon
      <4> SUFFICES ASSUME NEW k \in 1..Len(order')
                   PROVE  since'[order'[k]] = Len(order') - k
        BY Zenon
      <4>4. k + 1 \in 1..Len(pushed)
        BY <2>1, <2>4, <4>3
      <4>5. since'[pushed[k + 1]] = Len(pushed) - (k + 1)
        BY <2>5, <4>4, Zenon
      <4> QED
        BY <2>1, <2>4, <4>3, <4>5
    <3> QED
      BY <1>6, <2>1, <2>4, <3>1, <3>2
  <2>7. ASSUME NEW x \in RequestId, entry'[x] # "Complete"
        PROVE  since'[x] = -1 \/ since'[x] >= maximum
    <3>1. CASE x \in out
      <4>1. Len(pushed) > maximum /\ x = Head(pushed)
        BY <1>8, <3>1, Zenon DEF pushed
      <4>2. Len(order) = maximum /\ 1 \in 1..Len(order)
        BY <1>6, <2>1, <2>4, <4>1
      <4>3. x = order[1]
        BY <2>4, <4>1, <4>2
      <4> QED
        BY <1>6, <2>2, <4>2, <4>3
    <3>2. CASE x \notin out
      <4>1. x # id /\ entry[x] # "Complete"
        BY <1>9, <2>7, <3>2
      <4>2. since[x] = -1 \/ since[x] >= maximum
        BY <1>1, <4>1 DEF OrderCounts
      <4> QED
        BY <1>1, <1>4, <1>6, <4>1, <4>2 DEF TypeOK
    <3> QED
      BY <3>1, <3>2, Zenon
  <2> QED
    BY <2>6, <2>7, Zenon DEF OrderCounts
<1> QED
  BY <1>11, <1>12, <1>13, <1>14, <1>15, <1>16, Zenon DEF CacheInv

\* Every step of a dispatch, and its drop, keeps the invariant.
LEMMA NextCacheInv == CacheInv /\ [Next]_vars => CacheInv'
<1> SUFFICES ASSUME CacheInv, [Next]_vars PROVE CacheInv'
  BY Zenon
<1>1. CASE UNCHANGED vars
  <2>1. UNCHANGED <<cacheVars, frame, since>> /\ step' = step
        /\ waits_for' = waits_for /\ answer' = answer
    BY <1>1, Zenon DEF vars, dispatchVars
  <2>2. TypeOK' /\ AnswerIsOwn'
    BY <2>1, Zenon DEF CacheInv, TypeOK, AnswerIsOwn, cacheVars
  <2> QED
    BY <2>1, <2>2, QuietInv, Zenon
<1>2. ASSUME NEW d \in Dispatch, DispatchStep(d) PROVE CacheInv'
  BY <1>2, OwnerInv, WaitInv, CachedInv, CompleteInv DEF DispatchStep, claim_request
<1>3. ASSUME NEW d \in Dispatch, drop(d) PROVE CacheInv'
  BY <1>3, DropInv
<1> QED
  BY <1>1, <1>2, <1>3 DEF Next

\* The inductive invariant holds of every behaviour of the cache.
THEOREM CacheInvariant == Spec => []CacheInv
BY InitCacheInv, NextCacheInv, PTL DEF Spec

\* The counter of pending claims, the eviction order and the entries agree
\* after every claim, completion and drop, within both limits.
THEOREM CacheIsConsistent == Spec => []CacheConsistent
<1>1. CacheInv => CacheConsistent
  BY DEF CacheInv
<1> QED
  BY <1>1, CacheInvariant, PTL

\* A request id is executed by at most one dispatch at a time, whose guard
\* finds its own entry.
THEOREM GuardsOwnEntries == Spec => []GuardOwnsEntry
<1>1. CacheInv => GuardOwnsEntry
  BY DEF CacheInv
<1> QED
  BY <1>1, CacheInvariant, PTL

\* A dispatch is only answered with the frames of an execution of its own frame.
THEOREM AnswersAreOwn == Spec => []AnswerIsOwn
<1>1. CacheInv => AnswerIsOwn
  BY DEF CacheInv
<1> QED
  BY <1>1, CacheInvariant, PTL

\* A completed request stays cached until exactly `maximum` others completed.
THEOREM WindowExact == Spec => []WindowIsExact
<1>1. CacheInv => WindowIsExact
  <2> SUFFICES ASSUME CacheInv, NEW id \in RequestId
               PROVE  entry[id] = "Complete" <=> since[id] \in 0..(maximum - 1)
    BY Zenon DEF WindowIsExact
  <2>1. maximum \in Nat /\ since[id] \in Nat \cup {-1}
    BY CacheLimitsAssumption, Zenon DEF CacheInv, TypeOK
  <2>2. CASE entry[id] = "Complete"
    <3>1. PICK k \in 1..Len(order) : order[k] = id
      BY <2>2, Zenon DEF CacheInv, CacheConsistent, Lists, CompleteIds
    <3>2. Len(order) \in Nat /\ Len(order) <= maximum
      BY LenProperties, Zenon DEF CacheInv, TypeOK, CacheConsistent, Lists
    <3>3. since[id] = Len(order) - k
      BY <3>1, Zenon DEF CacheInv, OrderCounts
    <3> QED
      BY <2>1, <2>2, <3>2, <3>3
  <2>3. CASE entry[id] # "Complete"
    <3>1. since[id] = -1 \/ since[id] >= maximum
      BY <2>3, Zenon DEF CacheInv, OrderCounts
    <3> QED
      BY <2>1, <2>3, <3>1
  <2> QED
    BY <2>2, <2>3, Zenon
<1> QED
  BY <1>1, CacheInvariant, PTL

-----------------------------------------------------------------------------
(* The interaction broker *)

\* A waiting slot is the one of its sender: same interaction, same generation.
WaitingSlots ==
    \A i \in Id : slot[i] = "Waiting" =>
        /\ sender[i] \in Waiter
        /\ waits_on[sender[i]] = i
        /\ ticket[sender[i]] = generation[i]
        /\ generation[i] # 0

\* No two guards hold the same generation.
TicketsApart ==
    /\ \A w \in Waiter : ticket[w] < next_generation
    /\ \A w, v \in Waiter : ticket[w] = ticket[v] /\ ticket[w] # 0 => w = v

\* An early response is for the interaction it is kept under, and nobody has it yet.
StagedSlots ==
    \A i \in Id : slot[i] = "Staged" =>
        /\ staged[i] \in Resolver
        /\ about[staged[i]] = i
        /\ outcome[staged[i]] = "Staged"
        /\ \A w \in Waiter : channel[w] # staged[i]

\* An accepted response is kept, or its interaction was resolved.
AcceptedIsKept ==
    \A r \in Resolver : Accepted(r) =>
        \/ about[r] \in resolved \cup forgotten
        \/ slot[about[r]] = "Staged" /\ staged[about[r]] = r

BrokerInv ==
    /\ IsFiniteSet(OccupiedIds)
    /\ WaitingSlots /\ TicketsApart /\ StagedSlots /\ AcceptedIsKept
    /\ OneResponseEach

\* A configured limit of zero counts as one.
LEMMA MaximumType == retained_maximum \in Nat /\ retained_maximum # 0
BY BrokerAssumption DEF retained_maximum

\* An empty registry satisfies the invariant.
LEMMA InitBrokerInv ==
    ASSUME BrokerInit
    PROVE  BrokerInv
<1> USE DEF BrokerInit
<1>1. BrokerTypeOK
  BY DEF BrokerTypeOK, WaiterStep, Resolution
<1>2. WindowConsistent
  <2>0. retained_maximum \in Nat
    BY MaximumType, Zenon
  <2>1. Lists(resolved_order, resolved, retained_maximum)
    <3> HIDE DEF BrokerInit
    <3>1. resolved_order = <<>> /\ resolved = {}
      BY Zenon DEF BrokerInit
    <3> QED
      BY <2>0, <3>1 DEF Lists, Distinct
  <2>2. StagedIds = {}
    BY Zenon DEF StagedIds
  <2> HIDE DEF BrokerInit
  <2>3. Cardinality(StagedIds) <= retained_maximum
    BY <2>0, <2>2, FS_EmptySet
  <2>4. \A i \in resolved : slot[i] = "None"
    BY Zenon DEF BrokerInit
  <2> QED
    BY <1>1, <2>1, <2>3, <2>4, Zenon DEF WindowConsistent
<1>3. IsFiniteSet(OccupiedIds)
  <2>1. OccupiedIds = {}
    BY Zenon DEF OccupiedIds
  <2> QED
    BY <2>1, FS_EmptySet, Zenon
<1>4. WaitingSlots /\ TicketsApart /\ StagedSlots /\ AcceptedIsKept
  BY DEF WaitingSlots, TicketsApart, StagedSlots, AcceptedIsKept, Accepted
<1>5. AcceptedOnce /\ ResponseReachesItsWaiter /\ WaiterReachable
  BY Zenon DEF AcceptedOnce, ResponseReachesItsWaiter, WaiterReachable, Accepted
<1> QED
  BY <1>2, <1>3, <1>4, <1>5, Zenon DEF BrokerInv, OneResponseEach

-----------------------------------------------------------------------------
\* Taking a slot away keeps the number of slots finite and that of early responses bounded.
LEMMA SlotFreed ==
    ASSUME BrokerInv, NEW i \in Id, slot' = [slot EXCEPT ![i] = "None"]
    PROVE  /\ IsFiniteSet(OccupiedIds')
           /\ Cardinality(StagedIds') <= retained_maximum
           /\ \A j \in Id : slot'[j] = IF j = i THEN "None" ELSE slot[j]
<1>1. /\ slot \in [Id -> {"None", "Waiting", "Staged"}] /\ IsFiniteSet(OccupiedIds)
      /\ Cardinality(StagedIds) <= retained_maximum
  BY Zenon DEF BrokerInv, OneResponseEach, WindowConsistent, BrokerTypeOK
<1>2. \A j \in Id : slot'[j] = IF j = i THEN "None" ELSE slot[j]
  BY <1>1, Zenon
<1>3. OccupiedIds' \in SUBSET OccupiedIds /\ StagedIds' \in SUBSET StagedIds /\ StagedIds \in SUBSET OccupiedIds
  BY <1>2 DEF OccupiedIds, StagedIds
<1>4. IsFiniteSet(OccupiedIds')
  BY <1>1, <1>3, FS_Subset, Zenon
<1>5. IsFiniteSet(StagedIds)
  BY <1>1, <1>3, FS_Subset, Zenon
<1>6. Cardinality(StagedIds') <= Cardinality(StagedIds) /\ IsFiniteSet(StagedIds')
  BY <1>3, <1>5, FS_Subset, Zenon
<1>7. Cardinality(StagedIds') \in Nat /\ Cardinality(StagedIds) \in Nat
  BY <1>5, <1>6, FS_CardinalityType, Zenon
<1> QED
  BY <1>1, <1>2, <1>4, <1>6, <1>7, MaximumType

\* mark_resolved on an interaction that is neither resolved nor has a slot afterwards.
LEMMA MarkResolved ==
    ASSUME BrokerInv, NEW i \in Id, i \notin resolved, mark_resolved(i)
    PROVE  /\ resolved' \in SUBSET Id /\ forgotten' \in SUBSET Id /\ resolved_order' \in Seq(Id)
           /\ Lists(resolved_order', resolved', retained_maximum)
           /\ resolved' \subseteq resolved \cup {i}
           /\ forgotten \subseteq forgotten'
           /\ resolved \cup {i} \subseteq resolved' \cup forgotten'
<1> DEFINE pushed == Append(resolved_order, i)
<1>1. /\ resolved_order \in Seq(Id) /\ resolved \in SUBSET Id /\ forgotten \in SUBSET Id
      /\ Lists(resolved_order, resolved, retained_maximum)
  BY Zenon DEF BrokerInv, OneResponseEach, WindowConsistent, BrokerTypeOK
<1>2. /\ resolved' = (resolved \cup {i}) \ Popped(pushed, retained_maximum)
      /\ resolved_order' = Trimmed(pushed, retained_maximum)
      /\ forgotten' = forgotten \cup Popped(pushed, retained_maximum)
  BY Zenon DEF mark_resolved
<1>3. /\ Trimmed(pushed, retained_maximum) \in Seq(Id)
      /\ Lists(Trimmed(pushed, retained_maximum),
               (resolved \cup {i}) \ Popped(pushed, retained_maximum), retained_maximum)
      /\ Popped(pushed, retained_maximum) \subseteq resolved
  BY <1>1, MaximumType, PushLists, Zenon
<1> HIDE DEF pushed
<1> QED
  BY <1>1, <1>2, <1>3, Zenon

-----------------------------------------------------------------------------
\* A step that takes no slot and brings no response: a duplicate, the end of a
\* wait, or a response that is refused.
LEMMA QuietBrokerInv ==
    ASSUME BrokerInv, BrokerTypeOK',
           UNCHANGED <<slotVars, windowVars, next_generation, waits_on, ticket, channel, about>>,
           \A w \in Waiter : wstep'[w] = "waiting" => wstep[w] = "waiting",
           \A r \in Resolver : outcome'[r] = outcome[r] \/ (~Accepted(r) /\ ~Accepted(r)')
    PROVE  BrokerInv'
<1>1. /\ IsFiniteSet(OccupiedIds) /\ WaitingSlots /\ TicketsApart /\ StagedSlots /\ AcceptedIsKept
      /\ AcceptedOnce /\ ResponseReachesItsWaiter /\ WaiterReachable /\ WindowConsistent
  BY Zenon DEF BrokerInv, OneResponseEach
<1>2. /\ slot' = slot /\ generation' = generation /\ sender' = sender /\ staged' = staged
      /\ resolved' = resolved /\ resolved_order' = resolved_order /\ forgotten' = forgotten
      /\ next_generation' = next_generation /\ waits_on' = waits_on /\ ticket' = ticket
      /\ channel' = channel /\ about' = about
  BY Zenon DEF slotVars, windowVars
<1>3. \A r \in Resolver : /\ Accepted(r)' <=> Accepted(r)
                          /\ outcome[r] = "Staged" => outcome'[r] = "Staged"
  BY Zenon DEF Accepted
<1>4. OccupiedIds' = OccupiedIds /\ StagedIds' = StagedIds
  BY <1>2, Zenon DEF OccupiedIds, StagedIds
<1>5. WindowConsistent'
  BY <1>1, <1>2, <1>4, Zenon DEF WindowConsistent, retained_maximum
<1>6. WaitingSlots' /\ TicketsApart'
  BY <1>1, <1>2 DEF WaitingSlots, TicketsApart
<1>7. StagedSlots'
  BY <1>1, <1>2, <1>3 DEF StagedSlots
<1>8. AcceptedIsKept' /\ AcceptedOnce'
  BY <1>1, <1>2, <1>3 DEF AcceptedIsKept, AcceptedOnce
<1>9. ResponseReachesItsWaiter'
  <2>1. \A w \in Waiter : channel[w] # NoOne => channel[w] \in Resolver
    BY <1>1, Zenon DEF WindowConsistent, BrokerTypeOK
  <2> QED
    BY <1>1, <1>2, <1>3, <2>1 DEF ResponseReachesItsWaiter
<1>10. WaiterReachable'
  BY <1>1, <1>2, Zenon DEF WaiterReachable, OwnsSlot
<1> QED
  BY <1>1, <1>4, <1>5, <1>6, <1>7, <1>8, <1>9, <1>10, Zenon DEF BrokerInv, OneResponseEach

\* A waiter that registers first takes the slot, with a generation nobody had.
LEMMA RegisterWaitingInv ==
    ASSUME BrokerInv, NEW w \in Waiter, RegisterWaiting(w)
    PROVE  BrokerInv'
<1> DEFINE i == waits_on[w]
<1>1. /\ IsFiniteSet(OccupiedIds) /\ WaitingSlots /\ TicketsApart /\ StagedSlots /\ AcceptedIsKept
      /\ AcceptedOnce /\ ResponseReachesItsWaiter /\ WaiterReachable /\ WindowConsistent /\ BrokerTypeOK
  BY Zenon DEF BrokerInv, OneResponseEach, WindowConsistent
<1>2. /\ wstep[w] = "idle" /\ i \notin resolved /\ slot[i] = "None" /\ i \in Id
      /\ slot' = [slot EXCEPT ![i] = "Waiting"]
      /\ generation' = [generation EXCEPT ![i] = next_generation]
      /\ sender' = [sender EXCEPT ![i] = w]
      /\ next_generation' = next_generation + 1
      /\ ticket' = [ticket EXCEPT ![w] = next_generation]
      /\ wstep' = [wstep EXCEPT ![w] = "waiting"]
  BY <1>1, Zenon DEF RegisterWaiting, BrokerTypeOK
<1>3. /\ staged' = staged /\ resolved' = resolved /\ resolved_order' = resolved_order
      /\ forgotten' = forgotten /\ waits_on' = waits_on /\ channel' = channel
      /\ about' = about /\ outcome' = outcome
  BY Zenon DEF RegisterWaiting, windowVars
<1> HIDE DEF i
<1>4. /\ \A j \in Id : slot'[j] = IF j = i THEN "Waiting" ELSE slot[j]
      /\ \A j \in Id : generation'[j] = IF j = i THEN next_generation ELSE generation[j]
      /\ \A j \in Id : sender'[j] = IF j = i THEN w ELSE sender[j]
      /\ \A v \in Waiter : ticket'[v] = IF v = w THEN next_generation ELSE ticket[v]
      /\ \A v \in Waiter : wstep'[v] = IF v = w THEN "waiting" ELSE wstep[v]
  BY <1>1, <1>2, Zenon DEF BrokerTypeOK
<1>5. BrokerTypeOK'
  BY <1>1, <1>2, <1>3 DEF BrokerTypeOK, WaiterStep
<1>6. /\ OccupiedIds' = OccupiedIds \cup {i} /\ StagedIds' = StagedIds
      /\ \A r : Accepted(r)' = Accepted(r)
  BY <1>2, <1>3, <1>4 DEF OccupiedIds, StagedIds, Accepted
<1>7. IsFiniteSet(OccupiedIds')
  BY <1>1, <1>6, FS_AddElement
<1>8. WindowConsistent'
  BY <1>1, <1>2, <1>3, <1>4, <1>5, <1>6 DEF WindowConsistent, retained_maximum
<1>9. next_generation \in Nat /\ (\A v \in Waiter : ticket[v] \in Nat) /\ next_generation # 0
  BY <1>1, <1>2 DEF BrokerTypeOK, TicketsApart
<1>10. TicketsApart'
  BY <1>1, <1>2, <1>4, <1>9 DEF TicketsApart
<1>11. WaitingSlots'
  <2> SUFFICES ASSUME NEW j \in Id, slot'[j] = "Waiting"
               PROVE  /\ sender'[j] \in Waiter /\ waits_on[sender'[j]] = j
                      /\ ticket'[sender'[j]] = generation'[j] /\ generation'[j] # 0
    BY <1>3, Zenon DEF WaitingSlots
  <2>1. CASE j = i
    BY <1>4, <1>9, <2>1, Zenon DEF i
  <2>2. CASE j # i
    <3>1. /\ sender[j] \in Waiter /\ waits_on[sender[j]] = j
          /\ ticket[sender[j]] = generation[j] /\ generation[j] # 0
      BY <1>1, <1>4, <2>2, Zenon DEF WaitingSlots
    <3> QED
      BY <1>4, <2>2, <3>1 DEF i
  <2> QED
    BY <2>1, <2>2, Zenon
<1>12. StagedSlots' /\ AcceptedIsKept' /\ AcceptedOnce'
  <2>1. StagedSlots'
    BY <1>1, <1>3, <1>4 DEF StagedSlots
  <2>2. \A r \in Resolver : about[r] \in Id
    BY <1>1, Zenon DEF BrokerTypeOK
  <2>3. AcceptedIsKept'
    BY <1>1, <1>2, <1>3, <1>4, <1>6, <2>2 DEF AcceptedIsKept
  <2> QED
    BY <1>1, <1>3, <1>6, <2>1, <2>3, Zenon DEF AcceptedOnce
<1>13. ResponseReachesItsWaiter'
  BY <1>1, <1>3, <1>6, Zenon DEF ResponseReachesItsWaiter
<1>14. WaiterReachable'
  <2> SUFFICES ASSUME NEW v \in Waiter, wstep'[v] = "waiting"
               PROVE  OwnsSlot(v)' \/ channel'[v] # NoOne
    BY Zenon DEF WaiterReachable
  <2>1. waits_on[v] \in Id
    BY <1>1 DEF BrokerTypeOK
  <2>2. CASE v = w
    BY <1>3, <1>4, <2>1, <2>2 DEF OwnsSlot, i
  <2>3. CASE v # w
    BY <1>1, <1>2, <1>3, <1>4, <2>1, <2>3 DEF WaiterReachable, OwnsSlot
  <2> QED
    BY <2>2, <2>3, Zenon
<1> QED
  BY <1>7, <1>8, <1>10, <1>11, <1>12, <1>13, <1>14 DEF BrokerInv, OneResponseEach

\* A guard that drops removes its own slot and no other: generations are not reused.
LEMMA DropGuardInv ==
    ASSUME BrokerInv, NEW w \in Waiter, drop_guard(w)
    PROVE  BrokerInv'
<1> DEFINE i == waits_on[w]
<1>1. /\ IsFiniteSet(OccupiedIds) /\ WaitingSlots /\ TicketsApart /\ StagedSlots /\ AcceptedIsKept
      /\ AcceptedOnce /\ ResponseReachesItsWaiter /\ WaiterReachable /\ WindowConsistent /\ BrokerTypeOK
  BY Zenon DEF BrokerInv, OneResponseEach, WindowConsistent
<1>2. /\ wstep[w] \in {"received", "closed"} /\ i \in Id
      /\ slot' = IF slot[i] = "Waiting" /\ generation[i] = ticket[w]
                 THEN [slot EXCEPT ![i] = "None"] ELSE slot
      /\ wstep' = [wstep EXCEPT ![w] = IF wstep[w] = "received" THEN "returned" ELSE "dropped"]
  BY <1>1, Zenon DEF drop_guard, BrokerTypeOK
<1>3. /\ generation' = generation /\ sender' = sender /\ staged' = staged
      /\ resolved' = resolved /\ resolved_order' = resolved_order /\ forgotten' = forgotten
      /\ next_generation' = next_generation /\ waits_on' = waits_on /\ ticket' = ticket
      /\ channel' = channel /\ about' = about /\ outcome' = outcome
  BY Zenon DEF drop_guard, windowVars
<1>4. BrokerTypeOK'
  BY <1>1, <1>2, <1>3, Zenon DEF BrokerTypeOK, WaiterStep
<1>5. \A v \in Waiter : wstep'[v] = "waiting" => wstep[v] = "waiting" /\ v # w
  BY <1>1, <1>2 DEF BrokerTypeOK
<1> HIDE DEF i
<1>6. CASE ~(slot[i] = "Waiting" /\ generation[i] = ticket[w])
  BY <1>2, <1>3, <1>4, <1>5, <1>6, QuietBrokerInv DEF slotVars, windowVars
<1>7. CASE slot[i] = "Waiting" /\ generation[i] = ticket[w]
  <2>1. sender[i] = w
    <3>1. sender[i] \in Waiter /\ ticket[sender[i]] = generation[i] /\ generation[i] # 0
      BY <1>1, <1>2, <1>7 DEF WaitingSlots
    <3> QED
      BY <1>1, <1>7, <3>1 DEF TicketsApart
  <2>2. slot' = [slot EXCEPT ![i] = "None"]
    BY <1>2, <1>7
  <2>3. /\ IsFiniteSet(OccupiedIds') /\ Cardinality(StagedIds') <= retained_maximum
        /\ \A j \in Id : slot'[j] = IF j = i THEN "None" ELSE slot[j]
    BY <1>2, <2>2, SlotFreed, Zenon
  <2>4. \A r : Accepted(r)' = Accepted(r)
    BY <1>3, Zenon DEF Accepted
  <2>5. WindowConsistent'
    <3>1. resolved \subseteq Id
      BY <1>1, Zenon DEF BrokerTypeOK
    <3> QED
      BY <1>1, <1>3, <1>4, <2>3, <3>1 DEF WindowConsistent, retained_maximum
  <2>6. WaitingSlots' /\ TicketsApart'
    BY <1>1, <1>3, <2>3 DEF WaitingSlots, TicketsApart
  <2>7. StagedSlots' /\ AcceptedIsKept' /\ AcceptedOnce'
    <3>1. \A r \in Resolver : about[r] \in Id
      BY <1>1, Zenon DEF BrokerTypeOK
    <3>2. StagedSlots'
      BY <1>1, <1>3, <2>3 DEF StagedSlots
    <3>3. AcceptedIsKept'
      BY <1>1, <1>3, <1>7, <2>3, <2>4, <3>1 DEF AcceptedIsKept
    <3> QED
      BY <1>1, <1>3, <2>4, <3>2, <3>3 DEF AcceptedOnce
  <2>8. ResponseReachesItsWaiter'
    BY <1>1, <1>3, <2>4 DEF ResponseReachesItsWaiter
  <2>9. WaiterReachable'
    <3>1. \A v \in Waiter : waits_on[v] \in Id
      BY <1>1, Zenon DEF BrokerTypeOK
    <3> QED
      BY <1>1, <1>3, <1>5, <2>1, <2>3, <3>1 DEF WaiterReachable, OwnsSlot
  <2> QED
    BY <2>3, <2>5, <2>6, <2>7, <2>8, <2>9 DEF BrokerInv, OneResponseEach
<1> QED
  BY <1>6, <1>7, Zenon

\* A waiter that finds an early response takes it, and the interaction is resolved.
LEMMA RegisterReadyInv ==
    ASSUME BrokerInv, NEW w \in Waiter, RegisterReady(w)
    PROVE  BrokerInv'
<1> DEFINE i == waits_on[w]
           r == staged[i]
<1>1. /\ IsFiniteSet(OccupiedIds) /\ WaitingSlots /\ TicketsApart /\ StagedSlots /\ AcceptedIsKept
      /\ AcceptedOnce /\ ResponseReachesItsWaiter /\ WaiterReachable /\ WindowConsistent /\ BrokerTypeOK
  BY Zenon DEF BrokerInv, OneResponseEach, WindowConsistent
<1>2. /\ wstep[w] = "idle" /\ i \in Id /\ i \notin resolved /\ slot[i] = "Staged"
      /\ slot' = [slot EXCEPT ![i] = "None"]
      /\ mark_resolved(i)
      /\ channel' = [channel EXCEPT ![w] = r]
      /\ wstep' = [wstep EXCEPT ![w] = "returned"]
  BY <1>1, Zenon DEF RegisterReady, BrokerTypeOK
<1>3. /\ generation' = generation /\ sender' = sender /\ staged' = staged
      /\ next_generation' = next_generation /\ waits_on' = waits_on /\ ticket' = ticket
      /\ about' = about /\ outcome' = outcome
  BY Zenon DEF RegisterReady
<1>4. waits_on[w] = i
  BY Zenon
<1>5. /\ r \in Resolver /\ about[r] = i /\ outcome[r] = "Staged"
      /\ \A v \in Waiter : channel[v] # r
  BY <1>1, <1>2 DEF StagedSlots
<1>6. \A j \in Id : j # i /\ slot[j] = "Staged" => staged[j] # r
  BY <1>1, <1>5 DEF StagedSlots
<1> HIDE DEF i, r
<1>7. /\ IsFiniteSet(OccupiedIds') /\ Cardinality(StagedIds') <= retained_maximum
      /\ \A j \in Id : slot'[j] = IF j = i THEN "None" ELSE slot[j]
  BY <1>2, SlotFreed, Zenon
<1>8. /\ resolved' \in SUBSET Id /\ forgotten' \in SUBSET Id /\ resolved_order' \in Seq(Id)
      /\ Lists(resolved_order', resolved', retained_maximum)
      /\ resolved' \subseteq resolved \cup {i}
      /\ forgotten \subseteq forgotten'
      /\ resolved \cup {i} \subseteq resolved' \cup forgotten'
  BY <1>2, MarkResolved, Zenon
<1>9. /\ \A v \in Waiter : channel'[v] = IF v = w THEN r ELSE channel[v]
      /\ \A v \in Waiter : wstep'[v] = "waiting" => wstep[v] = "waiting" /\ v # w
      /\ \A q : Accepted(q)' = Accepted(q)
      /\ \A q \in Resolver : about[q] \in Id
      /\ \A v \in Waiter : waits_on[v] \in Id
  BY <1>1, <1>2, <1>3 DEF BrokerTypeOK, Accepted
<1>10. BrokerTypeOK'
  BY <1>1, <1>2, <1>3, <1>5, <1>8 DEF BrokerTypeOK, WaiterStep
<1>11. WindowConsistent'
  BY <1>1, <1>7, <1>8, <1>10 DEF WindowConsistent, retained_maximum
<1>12. WaitingSlots' /\ TicketsApart'
  BY <1>1, <1>3, <1>7 DEF WaitingSlots, TicketsApart
<1>13. StagedSlots'
  BY <1>1, <1>3, <1>6, <1>7, <1>9 DEF StagedSlots
<1>14. AcceptedIsKept'
  BY <1>1, <1>3, <1>7, <1>8, <1>9, Zenon DEF AcceptedIsKept
<1>15. AcceptedOnce'
  BY <1>1, <1>3, <1>8, <1>9, Zenon DEF AcceptedOnce
<1>16. ResponseReachesItsWaiter'
  <2>1. Accepted(r)
    BY <1>5, Zenon DEF Accepted
  <2> QED
    BY <1>1, <1>3, <1>4, <1>5, <1>9, <2>1 DEF ResponseReachesItsWaiter
<1>17. WaiterReachable'
  BY <1>1, <1>2, <1>3, <1>7, <1>9 DEF WaiterReachable, OwnsSlot
<1> QED
  BY <1>7, <1>11, <1>12, <1>13, <1>14, <1>15, <1>16, <1>17, Zenon DEF BrokerInv, OneResponseEach

\* A response for a waiting slot goes to the waiter of that slot, or finds it gone.
LEMMA ResolveDeliverInv ==
    ASSUME BrokerInv, NEW r \in Resolver, ResolveDeliver(r)
    PROVE  BrokerInv'
<1> DEFINE i == about[r]
           w == sender[i]
<1>1. /\ IsFiniteSet(OccupiedIds) /\ WaitingSlots /\ TicketsApart /\ StagedSlots /\ AcceptedIsKept
      /\ AcceptedOnce /\ ResponseReachesItsWaiter /\ WaiterReachable /\ WindowConsistent /\ BrokerTypeOK
  BY Zenon DEF BrokerInv, OneResponseEach, WindowConsistent
<1>2. /\ outcome[r] = "calling" /\ i \in Id /\ i \notin resolved /\ slot[i] = "Waiting"
      /\ slot' = [slot EXCEPT ![i] = "None"]
  BY <1>1, Zenon DEF ResolveDeliver, BrokerTypeOK
<1>3. \/ /\ wstep[w] = "waiting" /\ channel' = [channel EXCEPT ![w] = r]
         /\ mark_resolved(i) /\ outcome' = [outcome EXCEPT ![r] = "Delivered"]
      \/ /\ wstep[w] # "waiting" /\ outcome' = [outcome EXCEPT ![r] = "Expired"]
         /\ UNCHANGED <<channel, windowVars>>
  BY Zenon DEF ResolveDeliver, Returns
<1>4. /\ generation' = generation /\ sender' = sender /\ staged' = staged
      /\ next_generation' = next_generation /\ waits_on' = waits_on /\ ticket' = ticket
      /\ about' = about /\ wstep' = wstep
  BY Zenon DEF ResolveDeliver
<1>5. about[r] = i /\ sender[i] = w
  BY Zenon
<1>6. w \in Waiter /\ waits_on[w] = i
  BY <1>1, <1>2 DEF WaitingSlots
<1> HIDE DEF i, w
<1>7. /\ IsFiniteSet(OccupiedIds') /\ Cardinality(StagedIds') <= retained_maximum
      /\ \A j \in Id : slot'[j] = IF j = i THEN "None" ELSE slot[j]
  BY <1>2, SlotFreed, Zenon
<1>8. /\ \A q \in Resolver : about[q] \in Id
      /\ \A v \in Waiter : waits_on[v] \in Id
      /\ \A v \in Waiter : channel[v] # NoOne => channel[v] \in Resolver
      /\ r # NoOne
  BY <1>1, BrokerAssumption, Zenon DEF BrokerTypeOK
<1>9. ~Accepted(r) /\ \A v \in Waiter : channel[v] # r
  BY <1>1, <1>2, <1>8 DEF Accepted, ResponseReachesItsWaiter
<1>10. WaitingSlots' /\ TicketsApart'
  BY <1>1, <1>4, <1>7 DEF WaitingSlots, TicketsApart
<1>11. CASE wstep[w] = "waiting"
  <2>1. /\ channel' = [channel EXCEPT ![w] = r] /\ mark_resolved(i)
        /\ outcome' = [outcome EXCEPT ![r] = "Delivered"]
    BY <1>3, <1>11
  <2>2. /\ resolved' \in SUBSET Id /\ forgotten' \in SUBSET Id /\ resolved_order' \in Seq(Id)
        /\ Lists(resolved_order', resolved', retained_maximum)
        /\ resolved' \subseteq resolved \cup {i}
        /\ forgotten \subseteq forgotten'
        /\ resolved \cup {i} \subseteq resolved' \cup forgotten'
    BY <1>2, <2>1, MarkResolved
  <2>3. /\ \A v \in Waiter : channel'[v] = IF v = w THEN r ELSE channel[v]
        /\ \A q \in Resolver : Accepted(q)' <=> Accepted(q) \/ q = r
        /\ \A q \in Resolver : q # r => outcome'[q] = outcome[q]
    BY <1>1, <2>1 DEF BrokerTypeOK, Accepted
  <2>4. BrokerTypeOK'
    BY <1>1, <1>2, <1>4, <2>1, <2>2, Zenon DEF BrokerTypeOK, Resolution
  <2>5. WindowConsistent'
    BY <1>1, <1>7, <2>2, <2>4, Zenon DEF WindowConsistent, retained_maximum
  <2>6. StagedSlots'
    BY <1>1, <1>2, <1>4, <1>7, <2>3 DEF StagedSlots
  <2>7. AcceptedIsKept'
    BY <1>1, <1>2, <1>4, <1>5, <1>7, <1>8, <2>2, <2>3 DEF AcceptedIsKept
  <2>8. \A q \in Resolver : Accepted(q) /\ about[q] = i => i \in forgotten
    BY <1>1, <1>2 DEF AcceptedIsKept
  <2>9. AcceptedOnce'
    BY <1>1, <1>4, <1>5, <2>2, <2>3, <2>8 DEF AcceptedOnce
  <2>10. ResponseReachesItsWaiter'
    BY <1>1, <1>4, <1>5, <1>6, <1>8, <1>9, <2>3 DEF ResponseReachesItsWaiter
  <2>11. WaiterReachable'
    BY <1>1, <1>4, <1>5, <1>6, <1>7, <1>8, <2>3 DEF WaiterReachable, OwnsSlot
  <2> QED
    BY <1>7, <1>10, <2>5, <2>6, <2>7, <2>9, <2>10, <2>11 DEF BrokerInv, OneResponseEach
<1>12. CASE wstep[w] # "waiting"
  <2>1. /\ channel' = channel /\ resolved' = resolved /\ resolved_order' = resolved_order
        /\ forgotten' = forgotten /\ outcome' = [outcome EXCEPT ![r] = "Expired"]
    BY <1>3, <1>12 DEF windowVars
  <2>2. /\ \A q \in Resolver : Accepted(q)' <=> Accepted(q)
        /\ \A q \in Resolver : q # r => outcome'[q] = outcome[q]
    BY <1>1, <1>9, <2>1 DEF BrokerTypeOK, Accepted
  <2>3. BrokerTypeOK'
    BY <1>1, <1>2, <1>4, <2>1 DEF BrokerTypeOK, Resolution
  <2>4. WindowConsistent'
    <3>1. resolved \subseteq Id
      BY <1>1 DEF BrokerTypeOK
    <3> QED
      BY <1>1, <1>7, <2>1, <2>3, <3>1 DEF WindowConsistent, retained_maximum
  <2>5. StagedSlots'
    BY <1>1, <1>2, <1>4, <1>7, <2>1, <2>2 DEF StagedSlots
  <2>6. AcceptedIsKept' /\ AcceptedOnce'
    <3>1. AcceptedIsKept'
      BY <1>1, <1>2, <1>4, <1>7, <1>8, <2>1, <2>2 DEF AcceptedIsKept
    <3> QED
      BY <1>1, <1>4, <2>1, <2>2, <3>1, Zenon DEF AcceptedOnce
  <2>7. ResponseReachesItsWaiter'
    BY <1>1, <1>4, <1>8, <2>1, <2>2, Zenon DEF ResponseReachesItsWaiter
  <2>8. WaiterReachable'
    BY <1>1, <1>4, <1>5, <1>7, <1>8, <1>12, <2>1 DEF WaiterReachable, OwnsSlot
  <2> QED
    BY <1>7, <1>10, <2>4, <2>5, <2>6, <2>7, <2>8, Zenon DEF BrokerInv, OneResponseEach
<1> QED
  BY <1>11, <1>12, Zenon

\* An early response is kept while fewer slots than the limit are taken.
LEMMA ResolveStageInv ==
    ASSUME BrokerInv, NEW r \in Resolver, ResolveStage(r)
    PROVE  BrokerInv'
<1> DEFINE i == about[r]
<1>1. /\ IsFiniteSet(OccupiedIds) /\ WaitingSlots /\ TicketsApart /\ StagedSlots /\ AcceptedIsKept
      /\ AcceptedOnce /\ ResponseReachesItsWaiter /\ WaiterReachable /\ WindowConsistent /\ BrokerTypeOK
  BY Zenon DEF BrokerInv, OneResponseEach, WindowConsistent
<1>2. /\ outcome[r] = "calling" /\ i \in Id /\ i \notin resolved /\ slot[i] = "None"
      /\ Cardinality(OccupiedIds) < retained_maximum
      /\ slot' = [slot EXCEPT ![i] = "Staged"]
      /\ staged' = [staged EXCEPT ![i] = r]
      /\ outcome' = [outcome EXCEPT ![r] = "Staged"]
  BY <1>1 DEF ResolveStage, Returns, BrokerTypeOK
<1>3. /\ generation' = generation /\ sender' = sender /\ resolved' = resolved
      /\ resolved_order' = resolved_order /\ forgotten' = forgotten
      /\ next_generation' = next_generation /\ waits_on' = waits_on /\ ticket' = ticket
      /\ about' = about /\ wstep' = wstep /\ channel' = channel
  BY Zenon DEF ResolveStage, windowVars
<1>4. about[r] = i
  BY Zenon
<1> HIDE DEF i
<1>5. /\ \A q \in Resolver : about[q] \in Id
      /\ \A v \in Waiter : waits_on[v] \in Id
      /\ \A v \in Waiter : channel[v] # NoOne => channel[v] \in Resolver
      /\ r # NoOne /\ resolved \subseteq Id
  BY <1>1, BrokerAssumption DEF BrokerTypeOK
<1>6. ~Accepted(r) /\ \A v \in Waiter : channel[v] # r
  BY <1>1, <1>2, <1>5 DEF Accepted, ResponseReachesItsWaiter
<1>7. /\ \A j \in Id : slot'[j] = IF j = i THEN "Staged" ELSE slot[j]
      /\ \A j \in Id : staged'[j] = IF j = i THEN r ELSE staged[j]
      /\ \A q \in Resolver : outcome'[q] = IF q = r THEN "Staged" ELSE outcome[q]
  BY <1>1, <1>2 DEF BrokerTypeOK
<1>8. \A q \in Resolver : Accepted(q)' <=> Accepted(q) \/ q = r
  BY <1>7 DEF Accepted
<1>9. OccupiedIds' = OccupiedIds \cup {i} /\ StagedIds' \in SUBSET OccupiedIds'
  BY <1>2, <1>7 DEF OccupiedIds, StagedIds
<1>10. IsFiniteSet(OccupiedIds') /\ Cardinality(StagedIds') <= retained_maximum
  <2>1. i \notin OccupiedIds
    BY <1>2, Zenon DEF OccupiedIds
  <2>2. IsFiniteSet(OccupiedIds') /\ Cardinality(OccupiedIds') = Cardinality(OccupiedIds) + 1
    BY <1>1, <1>9, <2>1, FS_AddElement, Zenon
  <2>3. IsFiniteSet(StagedIds') /\ Cardinality(StagedIds') <= Cardinality(OccupiedIds')
    BY <1>9, <2>2, FS_Subset
  <2>4. /\ Cardinality(StagedIds') \in Nat /\ Cardinality(OccupiedIds') \in Nat
        /\ Cardinality(OccupiedIds) \in Nat /\ retained_maximum \in Nat
    BY <1>1, <2>2, <2>3, FS_CardinalityType, MaximumType
  <2> QED
    BY <1>2, <2>2, <2>3, <2>4
<1>11. BrokerTypeOK'
  BY <1>1, <1>2, <1>3 DEF BrokerTypeOK, Resolution
<1>12. WindowConsistent'
  BY <1>1, <1>2, <1>3, <1>5, <1>7, <1>10, <1>11 DEF WindowConsistent, retained_maximum
<1>13. WaitingSlots' /\ TicketsApart'
  BY <1>1, <1>3, <1>7 DEF WaitingSlots, TicketsApart
<1>14. StagedSlots'
  BY <1>1, <1>3, <1>4, <1>6, <1>7 DEF StagedSlots
<1>15. AcceptedIsKept'
  BY <1>1, <1>2, <1>3, <1>4, <1>5, <1>7, <1>8 DEF AcceptedIsKept
<1>16. AcceptedOnce'
  <2>1. \A q \in Resolver : Accepted(q) /\ about[q] = i => i \in forgotten
    BY <1>1, <1>2 DEF AcceptedIsKept
  <2> QED
    BY <1>1, <1>3, <1>4, <1>8, <2>1 DEF AcceptedOnce
<1>17. ResponseReachesItsWaiter'
  BY <1>1, <1>3, <1>5, <1>8 DEF ResponseReachesItsWaiter
<1>18. WaiterReachable'
  BY <1>1, <1>2, <1>3, <1>5, <1>7 DEF WaiterReachable, OwnsSlot
<1> QED
  BY <1>10, <1>12, <1>13, <1>14, <1>15, <1>16, <1>17, <1>18 DEF BrokerInv, OneResponseEach

-----------------------------------------------------------------------------
\* Every step of a wait, of a response, or of neither keeps the invariant.
LEMMA NextBrokerInv ==
    ASSUME BrokerInv, [BrokerNext]_brokerVars
    PROVE  BrokerInv'
<1>0. BrokerTypeOK
  BY Zenon DEF BrokerInv, OneResponseEach, WindowConsistent
<1>1. ASSUME NEW w \in Waiter, RegisterDuplicate(w) \/ receive(w) \/ abandon(w)
      PROVE  BrokerInv'
  <2>1. /\ UNCHANGED <<slotVars, windowVars, next_generation, waits_on, ticket, channel, about, outcome>>
        /\ \E to \in {"defaulted", "received", "closed"} : wstep' = [wstep EXCEPT ![w] = to]
    BY <1>1 DEF RegisterDuplicate, receive, abandon
  <2>2. BrokerTypeOK' /\ \A v \in Waiter : wstep'[v] = "waiting" => wstep[v] = "waiting"
    BY <1>0, <2>1 DEF BrokerTypeOK, WaiterStep, slotVars, windowVars
  <2> QED
    BY <2>1, <2>2, QuietBrokerInv
<1>2. ASSUME NEW r \in Resolver, ResolveDuplicate(r) \/ ResolveCapacity(r)
      PROVE  BrokerInv'
  <2>1. /\ outcome[r] = "calling"
        /\ UNCHANGED <<slotVars, windowVars, next_generation, waits_on, wstep, ticket, channel, about>>
        /\ \E to \in {"AlreadyResolved", "CapacityExceeded"} : outcome' = [outcome EXCEPT ![r] = to]
    BY <1>2 DEF ResolveDuplicate, ResolveCapacity, Returns
  <2>2. BrokerTypeOK' /\ \A q \in Resolver : outcome'[q] = outcome[q] \/ (~Accepted(q) /\ ~Accepted(q)')
    BY <1>0, <2>1 DEF BrokerTypeOK, Resolution, slotVars, windowVars, Accepted
  <2> QED
    BY <2>1, <2>2, QuietBrokerInv
<1>3. CASE UNCHANGED brokerVars
  <2>1. /\ UNCHANGED <<slotVars, windowVars, next_generation, waits_on, ticket, channel, about>>
        /\ wstep' = wstep /\ outcome' = outcome
    BY <1>3 DEF brokerVars
  <2>2. BrokerTypeOK'
    BY <1>0, <2>1 DEF BrokerTypeOK, slotVars, windowVars
  <2> QED
    BY <2>1, <2>2, QuietBrokerInv, Zenon
<1>4. CASE \E w \in Waiter : WaiterNext(w)
  BY <1>1, <1>4, RegisterReadyInv, RegisterWaitingInv, DropGuardInv DEF WaiterNext, register
<1>5. CASE \E r \in Resolver : resolve(r)
  BY <1>2, <1>5, ResolveDeliverInv, ResolveStageInv DEF resolve
<1> QED
  BY <1>3, <1>4, <1>5, Zenon DEF BrokerNext

\* `resolve` accepts one response for an interaction while it is remembered, the
\* response reaches one waiter of that interaction, no waiter is cut off by the
\* guard of another, and what is remembered stays within the limit
\* (register, resolve and WaitingGuard::drop in interactions.rs).
THEOREM BrokerCorrect ==
    BrokerSpec => []OneResponseEach
<1>1. BrokerInit => BrokerInv
  BY InitBrokerInv, Zenon
<1>2. BrokerInv /\ [BrokerNext]_brokerVars => BrokerInv'
  BY NextBrokerInv
<1>3. BrokerInv => OneResponseEach
  BY Zenon DEF BrokerInv
<1> QED
  BY <1>1, <1>2, <1>3, PTL DEF BrokerSpec

=============================================================================
