------------------------- MODULE EventJournalProofs -------------------------
(***************************************************************************)
(* Theorems about module EventJournal, for every choice of its limits.     *)
(*                                                                         *)
(* The inductive invariant JournalInv joins the type invariant, the        *)
(* agreement of maps and order deques (Bounded), the tail property and the *)
(* fact that the history of what is not retained is empty.                 *)
(***************************************************************************)
EXTENDS EventJournal, OrderDequeProofs

-----------------------------------------------------------------------------
\* An envelope InvocationJournal::append accepts is the next one of the
\* history, and pushing it keeps the retained events the tail of the history.
LEMMA PushKeepsTail ==
    ASSUME NEW events \in Seq(Event), NEW through \in Nat, NEW history \in Seq(Event),
           NEW e \in Envelope,
           RetainedTail(events, through, history),
           Len(events) <= max_events_per_invocation,
           InvocationOutcome(events, through, e) = "Appended"
    PROVE  /\ PushedEvents(events, e) \in Seq(Event)
           /\ Len(PushedEvents(events, e)) <= max_events_per_invocation
           /\ PushedThrough(events, through, e) \in Nat
           /\ PushedThrough(events, through, e) >= through
           /\ RetainedTail(PushedEvents(events, e), PushedThrough(events, through, e),
                           Append(history, ToEvent(e)))
<1> DEFINE new == ToEvent(e)
<1> DEFINE pushed == Append(events, new)
<1> DEFINE grown == Append(history, new)
<1>1. /\ Len(events) \in Nat /\ Len(history) \in Nat
      /\ Len(history) = through + Len(events)
      /\ \A k \in 1..Len(events) :
            events[k] = history[through + k] /\ events[k].sequence = through + k
  BY LenProperties, Zenon DEF RetainedTail
<1>2. new \in Event /\ new.sequence = e.sequence
  BY DomainAssumption DEF ToEvent, Envelope, Event
<1>3. expected(events, through) = Len(history) + 1
  <2>1. CASE events = <<>>
    BY <2>1, <1>1 DEF expected
  <2>2. CASE events # <<>>
    <3>1. Len(events) \in 1..Len(events)
      BY <2>2, <1>1, EmptySeq
    <3>2. Last(events).sequence = through + Len(events)
      BY <3>1, <1>1, Zenon DEF Last
    <3> QED  BY <2>2, <3>2, <1>1, Zenon DEF expected
  <2> QED  BY <2>1, <2>2, Zenon
<1>4. e.sequence = Len(history) + 1
  <2>1. e.sequence \in Nat
    BY DomainAssumption DEF Envelope
  <2>2. ASSUME e.sequence < Len(history) + 1
        PROVE  InvocationOutcome(events, through, e) \in {"AlreadyPresent", "SequenceConflict"}
    BY <2>2, <1>3, Zenon DEF InvocationOutcome
  <2>3. ASSUME e.sequence > Len(history) + 1
        PROVE  InvocationOutcome(events, through, e) = "SequenceGap"
    BY <2>1, <2>3, <1>1, <1>3, Zenon DEF InvocationOutcome
  <2> QED  BY <2>1, <2>2, <2>3, <1>1
<1>5. /\ pushed \in Seq(Event) /\ Len(pushed) = Len(events) + 1
      /\ \A k \in 1..Len(events) : pushed[k] = events[k]
      /\ pushed[Len(events) + 1] = new
      /\ grown \in Seq(Event) /\ Len(grown) = Len(history) + 1
      /\ \A k \in 1..Len(history) : grown[k] = history[k]
      /\ grown[Len(history) + 1] = new
  BY <1>2, AppendProperties
<1> HIDE DEF new, pushed, grown
<1>6. ASSUME NEW k \in 1..Len(pushed)
      PROVE  pushed[k] = grown[through + k] /\ pushed[k].sequence = through + k
  <2>1. CASE k \in 1..Len(events)
    <3>1. through + k \in 1..Len(history)
      BY <2>1, <1>1
    <3> QED  BY <2>1, <3>1, <1>1, <1>5, Zenon
  <2>2. CASE k = Len(events) + 1
    BY <2>2, <1>1, <1>2, <1>4, <1>5
  <2> QED  BY <2>1, <2>2, <1>1, <1>5
<1>7. CASE Len(pushed) <= max_events_per_invocation
  <2>1. PushedEvents(events, e) = pushed /\ PushedThrough(events, through, e) = through
    BY <1>7, <1>1, <1>5, LimitsAssumption DEF PushedEvents, PushedThrough, Trimmed, pushed, new
  <2>2. RetainedTail(pushed, through, grown)
    BY <1>1, <1>5, <1>6 DEF RetainedTail
  <2> QED  BY <1>5, <1>7, <2>1, <2>2 DEF grown, new
<1>8. CASE Len(pushed) > max_events_per_invocation
  <2> DEFINE kept == Tail(pushed)
  <2>1. PushedEvents(events, e) = kept
    BY <1>8, Zenon DEF PushedEvents, Trimmed, pushed, new
  <2>2. PushedThrough(events, through, e) = Head(pushed).sequence
    BY <1>8, Zenon DEF PushedThrough, pushed, new
  <2>3. 1 \in 1..Len(pushed) /\ Head(pushed) = pushed[1]
    BY <1>1, <1>5
  <2>4. PushedThrough(events, through, e) = through + 1
    BY <2>2, <2>3, <1>6, Zenon
  <2>5. /\ kept \in Seq(Event) /\ Len(kept) = Len(events)
        /\ \A k \in 1..Len(events) : kept[k] = pushed[k + 1]
    BY <1>1, <1>5, HeadTailProperties, EmptySeq
  <2> HIDE DEF kept
  <2>6. RetainedTail(kept, through + 1, grown)
    <3>1. Len(grown) = (through + 1) + Len(kept)
      BY <1>1, <1>5, <2>5
    <3>2. ASSUME NEW k \in 1..Len(kept)
          PROVE  kept[k] = grown[(through + 1) + k] /\ kept[k].sequence = (through + 1) + k
      <4>1. k + 1 \in 1..Len(pushed) /\ through + (k + 1) = (through + 1) + k
        BY <1>1, <1>5, <2>5
      <4>2. kept[k] = pushed[k + 1]
        BY <2>5, Zenon
      <4>3. /\ pushed[k + 1] = grown[through + (k + 1)]
            /\ pushed[k + 1].sequence = through + (k + 1)
        BY <4>1, <1>6, Zenon
      <4> QED  BY <4>1, <4>2, <4>3, Zenon
    <3> QED  BY <3>1, <3>2, Zenon DEF RetainedTail
  <2> QED  BY <2>1, <2>4, <2>5, <2>6 DEF grown, new
<1> QED
  BY <1>7, <1>8, <1>1, <1>5, LimitsAssumption

-----------------------------------------------------------------------------
\* The invariant of one runtime's journal `rj` whose history is `h`.
RuntimeInv(rj, h) ==
    /\ rj \in RuntimeJournal
    /\ h \in [InvocationId -> Seq(Event)]
    /\ RuntimeBounded(rj)
    /\ \A i \in InvocationId : RetainedTail(rj.events[i], rj.evicted_through[i], h[i])
    /\ \A i \in InvocationId \ rj.invocations :
            rj.events[i] = <<>> /\ rj.evicted_through[i] = 0

\* The history of the invocations that are still retained.
Retained(rj, h) == [i \in InvocationId |-> IF i \in rj.invocations THEN h[i] ELSE <<>>]

\* An empty journal with an empty history satisfies the invariant of a runtime.
LEMMA NewRuntimeInv ==
    RuntimeInv(NewRuntimeJournal, [i \in InvocationId |-> <<>>])
<1>1. NewRuntimeJournal \in RuntimeJournal
  BY DEF NewRuntimeJournal, RuntimeJournal
<1>2. Lists(<<>>, {}, max_invocations_per_runtime)
  BY LimitsAssumption DEF Lists, Distinct
<1>3. RuntimeBounded(NewRuntimeJournal)
  BY <1>2, LimitsAssumption DEF RuntimeBounded, NewRuntimeJournal
<1>4. RetainedTail(<<>>, 0, <<>>)
  BY DEF RetainedTail
<1> QED
  BY <1>1, <1>3, <1>4 DEF RuntimeInv, NewRuntimeJournal

\* What is not retained has an empty history.
LEMMA RetainedHistory ==
    ASSUME NEW rj, NEW h, RuntimeInv(rj, h)
    PROVE  Retained(rj, h) = h
<1>1. h \in [InvocationId -> Seq(Event)]
  BY Zenon DEF RuntimeInv
<1>2. \A x \in InvocationId \ rj.invocations : h[x] = <<>>
  <2> TAKE x \in InvocationId \ rj.invocations
  <2>1. /\ rj.events[x] = <<>> /\ rj.evicted_through[x] = 0
        /\ RetainedTail(rj.events[x], rj.evicted_through[x], h[x])
    BY Zenon DEF RuntimeInv
  <2>2. h[x] \in Seq(Event) /\ Len(h[x]) = 0
    BY <2>1, <1>1 DEF RetainedTail
  <2> QED  BY <2>2, EmptySeq
<1> QED
  BY <1>1, <1>2 DEF Retained

\* Creating an invocation keeps the runtime's journal consistent, never evicts
\* the invocation it creates, and drops exactly the histories it evicts.
LEMMA InsertKeepsInv ==
    ASSUME NEW rj, NEW h, RuntimeInv(rj, h), NEW i \in InvocationId,
           i \notin rj.invocations, i \notin rj.evicted_invocations
    PROVE  /\ RuntimeInv(InsertInvocation(rj, i), Retained(InsertInvocation(rj, i), h))
           /\ i \in InsertInvocation(rj, i).invocations
<1> DEFINE order == Append(rj.invocation_order, i)
<1> DEFINE expired == Popped(order, max_invocations_per_runtime)
<1> DEFINE tombs == IF expired \subseteq rj.evicted_invocations
                    THEN rj.evicted_order
                    ELSE Append(rj.evicted_order, Head(order))
<1> DEFINE new == InsertInvocation(rj, i)
<1>1. /\ rj \in RuntimeJournal
      /\ rj.invocations \in SUBSET InvocationId
      /\ rj.evicted_invocations \in SUBSET InvocationId
      /\ rj.invocation_order \in Seq(InvocationId)
      /\ rj.evicted_order \in Seq(InvocationId)
      /\ rj.events \in [InvocationId -> Seq(Event)]
      /\ rj.evicted_through \in [InvocationId -> Nat]
      /\ h \in [InvocationId -> Seq(Event)]
  <2>1. rj \in RuntimeJournal /\ h \in [InvocationId -> Seq(Event)]
    BY Zenon DEF RuntimeInv
  <2> QED  BY <2>1, Zenon DEF RuntimeJournal
<1>2. /\ Lists(rj.invocation_order, rj.invocations, max_invocations_per_runtime)
      /\ Lists(rj.evicted_order, rj.evicted_invocations, max_invocations_per_runtime)
      /\ rj.invocations \cap rj.evicted_invocations = {}
      /\ \A x \in InvocationId : Len(rj.events[x]) <= max_events_per_invocation
  BY Zenon DEF RuntimeInv, RuntimeBounded
<1>3. /\ new.invocations = (rj.invocations \cup {i}) \ expired
      /\ new.events = [x \in InvocationId |->
                          IF x \in expired \cup {i} THEN <<>> ELSE rj.events[x]]
      /\ new.evicted_through = [x \in InvocationId |->
                          IF x \in expired \cup {i} THEN 0 ELSE rj.evicted_through[x]]
      /\ new.invocation_order = Trimmed(order, max_invocations_per_runtime)
      /\ new.evicted_invocations = (rj.evicted_invocations \cup expired)
                                      \ Popped(tombs, max_invocations_per_runtime)
      /\ new.evicted_order = Trimmed(tombs, max_invocations_per_runtime)
      /\ new = [invocations |-> new.invocations, events |-> new.events,
                evicted_through |-> new.evicted_through,
                invocation_order |-> new.invocation_order,
                evicted_invocations |-> new.evicted_invocations,
                evicted_order |-> new.evicted_order]
  BY Zenon DEF InsertInvocation
<1> HIDE DEF new
<1>4. /\ new.invocation_order \in Seq(InvocationId)
      /\ Lists(new.invocation_order, new.invocations, max_invocations_per_runtime)
      /\ i \notin expired
      /\ expired \subseteq rj.invocations
  <2>2. max_invocations_per_runtime \in Nat \ {0}
    BY LimitsAssumption, Zenon
  <2>3. /\ Trimmed(order, max_invocations_per_runtime) \in Seq(InvocationId)
        /\ Lists(Trimmed(order, max_invocations_per_runtime),
                 (rj.invocations \cup {i}) \ Popped(order, max_invocations_per_runtime),
                 max_invocations_per_runtime)
        /\ i \notin Popped(order, max_invocations_per_runtime)
        /\ Popped(order, max_invocations_per_runtime) \subseteq rj.invocations
    <3>1. /\ rj.invocation_order \in Seq(InvocationId)
          /\ rj.invocations \in SUBSET InvocationId
          /\ Lists(rj.invocation_order, rj.invocations, max_invocations_per_runtime)
      BY <1>1, <1>2
    <3>2. max_invocations_per_runtime \in Nat /\ max_invocations_per_runtime # 0
      BY <2>2, Zenon
    <3> QED  BY <3>1, <3>2, PushLists, Zenon DEF order
  <2> QED  BY <2>3, <1>3, Zenon
<1>5. expired = {} \/ expired = {Head(order)}
  BY Zenon DEF Popped
<1> HIDE DEF order, expired
<1>6. /\ new.evicted_order \in Seq(InvocationId)
      /\ Lists(new.evicted_order, new.evicted_invocations, max_invocations_per_runtime)
      /\ new.evicted_invocations \subseteq rj.evicted_invocations \cup expired
  <2>1. CASE expired = {}
    <3>1. tombs = rj.evicted_order
      BY <2>1, Zenon
    <3> HIDE DEF tombs
    <3>2. ~(Len(rj.evicted_order) > max_invocations_per_runtime)
      BY <1>1, <1>2, LenProperties, LimitsAssumption DEF Lists
    <3>3. /\ Trimmed(tombs, max_invocations_per_runtime) = rj.evicted_order
          /\ Popped(tombs, max_invocations_per_runtime) = {}
      BY <3>1, <3>2, Zenon DEF Trimmed, Popped
    <3>4. new.evicted_order = rj.evicted_order
      BY <1>3, <3>3, Zenon
    <3>5. new.evicted_invocations = rj.evicted_invocations
      BY <1>3, <3>3, <2>1, Zenon
    <3> QED  BY <1>1, <1>2, <3>4, <3>5
  <2>2. CASE expired = {Head(order)}
    <3>1. Head(order) \in rj.invocations /\ Head(order) \notin rj.evicted_invocations
      BY <2>2, <1>2, <1>4, Zenon
    <3>2. tombs = Append(rj.evicted_order, Head(order))
      BY <2>2, <3>1
    <3> HIDE DEF tombs
    <3>3. /\ Trimmed(tombs, max_invocations_per_runtime) \in Seq(InvocationId)
          /\ Lists(Trimmed(tombs, max_invocations_per_runtime),
                   (rj.evicted_invocations \cup {Head(order)})
                       \ Popped(tombs, max_invocations_per_runtime),
                   max_invocations_per_runtime)
      <4>1. max_invocations_per_runtime \in Nat \ {0} /\ Head(order) \in InvocationId
        BY <3>1, <1>1, LimitsAssumption
      <4>2. /\ rj.evicted_order \in Seq(InvocationId)
            /\ rj.evicted_invocations \in SUBSET InvocationId
            /\ Lists(rj.evicted_order, rj.evicted_invocations, max_invocations_per_runtime)
        BY <1>1, <1>2
      <4>3. max_invocations_per_runtime \in Nat /\ max_invocations_per_runtime # 0
        BY <4>1, Zenon
      <4> QED  BY <4>1, <4>2, <4>3, <3>1, <3>2, PushLists, Zenon
    <3> QED  BY <3>3, <2>2, <1>3, Zenon
  <2> QED  BY <2>1, <2>2, <1>5
<1> HIDE DEF tombs
<1>7. new \in RuntimeJournal
  <2>1. new.invocations \in SUBSET InvocationId
    BY <1>1, <1>3
  <2>2. new.evicted_invocations \in SUBSET InvocationId
    BY <1>1, <1>4, <1>6
  <2>3. new.events \in [InvocationId -> Seq(Event)]
    BY <1>1, <1>3
  <2>4. new.evicted_through \in [InvocationId -> Nat]
    BY <1>1, <1>3
  <2>5. new.invocation_order \in Seq(InvocationId) /\ new.evicted_order \in Seq(InvocationId)
    BY <1>4, <1>6
  <2>6. new = [invocations |-> new.invocations, events |-> new.events,
               evicted_through |-> new.evicted_through,
               invocation_order |-> new.invocation_order,
               evicted_invocations |-> new.evicted_invocations,
               evicted_order |-> new.evicted_order]
    BY <1>3, Zenon
  <2> QED  BY <2>1, <2>2, <2>3, <2>4, <2>5, <2>6 DEF RuntimeJournal
<1>8. RuntimeBounded(new)
  <2>1. new.invocations \cap new.evicted_invocations = {}
    BY <1>2, <1>3, <1>6
  <2>2. \A x \in InvocationId : Len(new.events[x]) <= max_events_per_invocation
    <3> TAKE x \in InvocationId
    <3>1. new.events[x] = <<>> \/ new.events[x] = rj.events[x]
      BY <1>3, Zenon
    <3> QED  BY <3>1, <1>2, LimitsAssumption
  <2> QED  BY <2>1, <2>2, <1>4, <1>6 DEF RuntimeBounded
<1>9. \A x \in InvocationId \ new.invocations :
          new.events[x] = <<>> /\ new.evicted_through[x] = 0
  <2> TAKE x \in InvocationId \ new.invocations
  <2>1. CASE x \in expired
    BY <2>1, <1>3
  <2>2. CASE x \notin expired
    <3>1. x \notin rj.invocations /\ x # i
      BY <2>2, <1>3, Zenon
    <3>2. rj.events[x] = <<>> /\ rj.evicted_through[x] = 0
      BY <3>1, Zenon DEF RuntimeInv
    <3> QED  BY <3>1, <3>2, <2>2, <1>3
  <2> QED  BY <2>1, <2>2, Zenon
<1>10. Retained(new, h) \in [InvocationId -> Seq(Event)]
  BY <1>1 DEF Retained
<1>11. \A x \in InvocationId :
          RetainedTail(new.events[x], new.evicted_through[x], Retained(new, h)[x])
  <2> TAKE x \in InvocationId
  <2>1. RetainedTail(rj.events[x], rj.evicted_through[x], h[x])
    BY Zenon DEF RuntimeInv
  <2>2. CASE x \notin new.invocations
    BY <2>2, <1>9 DEF RetainedTail, Retained
  <2>3. CASE x = i
    <3>1. rj.events[x] = <<>> /\ rj.evicted_through[x] = 0
      BY <2>3, Zenon DEF RuntimeInv
    <3>2. h[x] = <<>>
      <4>1. h[x] \in Seq(Event) /\ Len(h[x]) = 0
        BY <3>1, <2>1, <1>1 DEF RetainedTail
      <4> QED  BY <4>1, EmptySeq, Zenon
    <3>3. new.events[x] = <<>> /\ new.evicted_through[x] = 0
      BY <2>3, <1>3, Zenon
    <3> QED  BY <3>2, <3>3 DEF RetainedTail, Retained
  <2>4. CASE x \in new.invocations /\ x # i
    <3>1. new.events[x] = rj.events[x] /\ new.evicted_through[x] = rj.evicted_through[x]
      BY <2>4, <1>3
    <3>2. Retained(new, h)[x] = h[x]
      BY <2>4 DEF Retained
    <3> QED  BY <3>1, <3>2, <2>1
  <2> QED  BY <2>2, <2>3, <2>4, Zenon
<1>12. RuntimeInv(new, Retained(new, h))
  BY <1>7, <1>8, <1>9, <1>10, <1>11 DEF RuntimeInv
<1>13. i \in new.invocations
  BY <1>3, <1>4
<1> QED
  BY <1>12, <1>13, Zenon DEF new

-----------------------------------------------------------------------------
\* The history of a runtime after RuntimeJournal::append.
HistoryAfter(rj, h, e) ==
    [i \in InvocationId |->
        IF i \notin RuntimeAppend(rj, e).invocations THEN <<>>
        ELSE IF RuntimeOutcome(rj, e) = "Appended" /\ i = e.invocation_id
        THEN Append(h[i], ToEvent(e))
        ELSE h[i]]

\* RuntimeJournal::append keeps a runtime's journal consistent, whatever the
\* envelope, and never finds the invocation it just looked up missing.
LEMMA AppendKeepsInv ==
    ASSUME NEW rj, NEW h, RuntimeInv(rj, h), NEW e \in Envelope
    PROVE  /\ RuntimeInv(RuntimeAppend(rj, e), HistoryAfter(rj, h, e))
           /\ RuntimeOutcome(rj, e) \in Outcome \ {"StateInvariant"}
<1> DEFINE i == e.invocation_id
<1> DEFINE at == WithInvocation(rj, e)
<1> DEFINE now == RuntimeAppend(rj, e)
<1> DEFINE hat == Retained(at, h)
<1> DEFINE hnow == HistoryAfter(rj, h, e)
<1>1. i \in InvocationId
  BY Zenon DEF Envelope
<1>2. h \in [InvocationId -> Seq(Event)] /\ rj \in RuntimeJournal
  BY Zenon DEF RuntimeInv
<1>3. Retained(rj, h) = h
  BY RetainedHistory, Zenon
<1>4. /\ RuntimeInv(at, hat)
      /\ \/ i \in at.invocations
         \/ i \in rj.evicted_invocations
         \/ i \notin rj.invocations /\ e.sequence # 1
  <2>1. CASE i \notin rj.evicted_invocations \cup rj.invocations /\ e.sequence = 1
    <3>1. at = InsertInvocation(rj, i)
      BY <2>1, Zenon DEF WithInvocation
    <3> HIDE DEF at, i
    <3> QED  BY <2>1, <3>1, <1>1, InsertKeepsInv
  <2>2. CASE ~(i \notin rj.evicted_invocations \cup rj.invocations /\ e.sequence = 1)
    <3>1. at = rj
      BY <2>2, Zenon DEF WithInvocation
    <3> HIDE DEF at, i
    <3> QED  BY <2>2, <3>1, <1>3
  <2> QED  BY <2>1, <2>2
<1> HIDE DEF at, now, hat, hnow, i
<1>5. RuntimeOutcome(rj, e) \in Outcome \ {"StateInvariant"}
  <2>1. InvocationOutcome(at.events[i], at.evicted_through[i], e)
            \in {"AlreadyPresent", "SequenceConflict", "SequenceGap", "Appended"}
    BY Zenon DEF InvocationOutcome
  <2>2. RuntimeOutcome(rj, e) \in {"AlreadyPresent", "SequenceConflict", "SequenceGap", "Appended"}
    BY <2>1, <1>4, Zenon DEF RuntimeOutcome, at, i
  <2> QED  BY <2>2, Zenon DEF Outcome, AppendError
<1>6. CASE RuntimeOutcome(rj, e) # "Appended"
  <2>1. now = at
    BY <1>6, Zenon DEF now, at, RuntimeAppend
  <2>2. hnow = hat
    BY <1>6, <2>1, Zenon DEF hnow, hat, HistoryAfter, Retained, now
  <2> QED
    BY <2>1, <2>2, <1>4, <1>5 DEF now, hnow
<1>7. CASE RuntimeOutcome(rj, e) = "Appended"
  <2>1. /\ i \in at.invocations
        /\ InvocationOutcome(at.events[i], at.evicted_through[i], e) = "Appended"
    BY <1>7, Zenon DEF RuntimeOutcome, at, i
  <2> DEFINE pushed == PushedEvents(at.events[i], e)
  <2> DEFINE through == PushedThrough(at.events[i], at.evicted_through[i], e)
  <2>2. now = [at EXCEPT !.events[i] = pushed, !.evicted_through[i] = through]
    BY <1>7, Zenon DEF now, at, i, RuntimeAppend
  <2>3. /\ at \in RuntimeJournal
        /\ hat \in [InvocationId -> Seq(Event)]
        /\ RuntimeBounded(at)
        /\ \A x \in InvocationId : RetainedTail(at.events[x], at.evicted_through[x], hat[x])
        /\ \A x \in InvocationId \ at.invocations :
              at.events[x] = <<>> /\ at.evicted_through[x] = 0
    BY <1>4, Zenon DEF RuntimeInv
  <2>4. /\ at.events \in [InvocationId -> Seq(Event)]
        /\ at.evicted_through \in [InvocationId -> Nat]
        /\ Len(at.events[i]) <= max_events_per_invocation
    BY <2>3, <1>1, Zenon DEF RuntimeJournal, RuntimeBounded
  <2>5. /\ pushed \in Seq(Event) /\ through \in Nat
        /\ Len(pushed) <= max_events_per_invocation
        /\ RetainedTail(pushed, through, Append(hat[i], ToEvent(e)))
    <3>1. /\ at.events[i] \in Seq(Event) /\ at.evicted_through[i] \in Nat
          /\ hat[i] \in Seq(Event)
          /\ RetainedTail(at.events[i], at.evicted_through[i], hat[i])
      BY <1>1, <2>3, <2>4
    <3> QED  BY <3>1, <2>1, <2>4, PushKeepsTail
  <2> HIDE DEF pushed, through
  <2>6. /\ now \in RuntimeJournal
        /\ now.invocations = at.invocations
        /\ now.invocation_order = at.invocation_order
        /\ now.evicted_invocations = at.evicted_invocations
        /\ now.evicted_order = at.evicted_order
        /\ now.events = [at.events EXCEPT ![i] = pushed]
        /\ now.evicted_through = [at.evicted_through EXCEPT ![i] = through]
    BY <1>1, <2>2, <2>3, <2>5, Zenon DEF RuntimeJournal
  <2>7. RuntimeBounded(now)
    <3>1. \A x \in InvocationId : Len(now.events[x]) <= max_events_per_invocation
      <4> TAKE x \in InvocationId
      <4>1. now.events[x] = IF x = i THEN pushed ELSE at.events[x]
        BY <2>4, <2>6, Zenon
      <4>2. Len(at.events[x]) <= max_events_per_invocation
        BY <2>3, Zenon DEF RuntimeBounded
      <4> QED  BY <4>1, <4>2, <2>5
    <3> QED  BY <3>1, <2>3, <2>6 DEF RuntimeBounded
  <2>8. hnow = [x \in InvocationId |-> IF x = i THEN Append(hat[i], ToEvent(e)) ELSE hat[x]]
    <3>1. hnow = [x \in InvocationId |->
                    IF x \notin now.invocations THEN <<>>
                    ELSE IF x = i THEN Append(h[x], ToEvent(e)) ELSE h[x]]
      BY <1>7, Zenon DEF hnow, HistoryAfter, now, i
    <3>2. hat = [x \in InvocationId |-> IF x \in at.invocations THEN h[x] ELSE <<>>]
      BY Zenon DEF hat, Retained
    <3> QED  BY <3>1, <3>2, <2>1, <2>6, <1>1
  <2>9. hnow \in [InvocationId -> Seq(Event)]
    <3>1. Append(hat[i], ToEvent(e)) \in Seq(Event)
      <4>1. ToEvent(e) \in Event
        BY DomainAssumption DEF ToEvent, Envelope, Event
      <4> QED  BY <4>1, <1>1, <2>3, AppendProperties
    <3> QED  BY <3>1, <2>3, <2>8, Zenon
  <2>10. \A x \in InvocationId : RetainedTail(now.events[x], now.evicted_through[x], hnow[x])
    <3> TAKE x \in InvocationId
    <3>1. CASE x = i
      <4>1. /\ now.events[x] = pushed /\ now.evicted_through[x] = through
            /\ hnow[x] = Append(hat[i], ToEvent(e))
        BY <3>1, <1>1, <2>4, <2>6, <2>8, Zenon
      <4> QED  BY <4>1, <2>5, Zenon
    <3>2. CASE x # i
      <4>1. /\ now.events[x] = at.events[x] /\ now.evicted_through[x] = at.evicted_through[x]
            /\ hnow[x] = hat[x]
        BY <3>2, <2>4, <2>6, <2>8
      <4> QED  BY <4>1, <2>3, Zenon
    <3> QED  BY <3>1, <3>2, Zenon
  <2>11. \A x \in InvocationId \ now.invocations :
            now.events[x] = <<>> /\ now.evicted_through[x] = 0
    BY <2>1, <2>3, <2>4, <2>6
  <2> QED
    BY <2>6, <2>7, <2>9, <2>10, <2>11, <1>5 DEF RuntimeInv, now, hnow
<1> QED
  BY <1>6, <1>7, Zenon

-----------------------------------------------------------------------------
JournalInv ==
    /\ runtimes \in SUBSET RuntimeId
    /\ runtime_order \in Seq(RuntimeId)
    /\ outcome \in Outcome \ {"StateInvariant"}
    /\ Lists(runtime_order, runtimes, max_runtimes)
    /\ journal \in [RuntimeId -> RuntimeJournal]
    /\ accepted \in [RuntimeId -> [InvocationId -> Seq(Event)]]
    /\ \A r \in RuntimeId : RuntimeInv(journal[r], accepted[r])
    /\ \A r \in RuntimeId \ runtimes : journal[r] = NewRuntimeJournal

NoHistory == [i \in InvocationId |-> <<>>]

\* The empty journal satisfies the invariant.
LEMMA InitInv == Init => JournalInv
<1> SUFFICES ASSUME Init PROVE JournalInv
  BY Zenon
<1>1. Lists(<<>>, {}, max_runtimes)
  BY LimitsAssumption DEF Lists, Distinct
<1>2. NewRuntimeJournal \in RuntimeJournal
  BY NewRuntimeInv, Zenon DEF RuntimeInv
<1>3. \A r \in RuntimeId : RuntimeInv(journal[r], accepted[r])
  BY NewRuntimeInv, Zenon DEF Init
<1> QED
  BY <1>1, <1>2, <1>3 DEF Init, JournalInv, Outcome, AppendError

\* `append` keeps it, with the evictions it makes on both levels.
LEMMA AppendInv ==
    ASSUME JournalInv, NEW e \in Envelope, AppendEnvelope(e)
    PROVE  JournalInv'
<1> DEFINE r == e.runtime_id
<1> DEFINE jw == JournalWith(r)
<1> DEFINE hw == [x \in RuntimeId |->
                    IF x \in RuntimesWith(r) /\ x \in runtimes THEN accepted[x] ELSE NoHistory]
<1>1. r \in RuntimeId
  BY Zenon DEF Envelope
<1>2. /\ runtimes \in SUBSET RuntimeId
      /\ runtime_order \in Seq(RuntimeId)
      /\ Lists(runtime_order, runtimes, max_runtimes)
      /\ journal \in [RuntimeId -> RuntimeJournal]
      /\ accepted \in [RuntimeId -> [InvocationId -> Seq(Event)]]
      /\ \A x \in RuntimeId : RuntimeInv(journal[x], accepted[x])
      /\ \A x \in RuntimeId \ runtimes : journal[x] = NewRuntimeJournal
  BY Zenon DEF JournalInv
<1>3. /\ RuntimeOrderWith(r) \in Seq(RuntimeId)
      /\ Lists(RuntimeOrderWith(r), RuntimesWith(r), max_runtimes)
      /\ r \in RuntimesWith(r)
      /\ RuntimesWith(r) \subseteq runtimes \cup {r}
  <2>1. CASE r \in runtimes
    BY <2>1, <1>2, Zenon DEF RuntimeOrderWith, RuntimesWith
  <2>2. CASE r \notin runtimes
    <3>1. max_runtimes \in Nat /\ max_runtimes # 0
      BY LimitsAssumption, Zenon
    <3> HIDE DEF r
    <3>2. /\ Trimmed(Append(runtime_order, r), max_runtimes) \in Seq(RuntimeId)
          /\ Lists(Trimmed(Append(runtime_order, r), max_runtimes),
                   (runtimes \cup {r}) \ Popped(Append(runtime_order, r), max_runtimes),
                   max_runtimes)
          /\ r \notin Popped(Append(runtime_order, r), max_runtimes)
      BY <3>1, <2>2, <1>1, <1>2, PushLists
    <3> QED  BY <3>2, <2>2, Zenon DEF RuntimeOrderWith, RuntimesWith
  <2> QED  BY <2>1, <2>2, Zenon
<1>4. /\ runtimes' = RuntimesWith(r)
      /\ runtime_order' = RuntimeOrderWith(r)
      /\ journal' = [jw EXCEPT ![r] = RuntimeAppend(jw[r], e)]
      /\ outcome' = RuntimeOutcome(jw[r], e)
      /\ accepted' = Recorded(e)
  BY <1>3, Zenon DEF AppendEnvelope
<1>5. jw = [x \in RuntimeId |->
              IF x \in RuntimesWith(r) /\ x \in runtimes THEN journal[x] ELSE NewRuntimeJournal]
  BY Zenon DEF JournalWith
<1> HIDE DEF r, jw, hw
<1>6. \A x \in RuntimeId : RuntimeInv(jw[x], hw[x])
  BY <1>2, <1>5, NewRuntimeInv, Zenon DEF hw, NoHistory
<1>7. /\ RuntimeInv(RuntimeAppend(jw[r], e), HistoryAfter(jw[r], hw[r], e))
      /\ RuntimeOutcome(jw[r], e) \in Outcome \ {"StateInvariant"}
  <2>1. RuntimeInv(jw[r], hw[r])
    BY <1>1, <1>6, Zenon
  <2> QED  BY <2>1, AppendKeepsInv, Zenon
<1>8. \A x \in RuntimeId : journal'[x] = IF x = r THEN RuntimeAppend(jw[r], e) ELSE jw[x]
  BY <1>1, <1>4, <1>5, Zenon
<1>9. hw[r] = accepted[r]
  <2>1. CASE r \in runtimes
    BY <2>1, <1>1, <1>3, Zenon DEF hw
  <2>2. CASE r \notin runtimes
    <3>1. RuntimeInv(journal[r], accepted[r]) /\ journal[r] = NewRuntimeJournal
      BY <2>2, <1>1, <1>2, Zenon
    <3>2. Retained(NewRuntimeJournal, accepted[r]) = accepted[r]
      BY <3>1, RetainedHistory, Zenon
    <3>3. Retained(NewRuntimeJournal, accepted[r]) = NoHistory
      BY Zenon DEF Retained, NewRuntimeJournal, NoHistory
    <3>4. hw[r] = NoHistory
      BY <2>2, <1>1, Zenon DEF hw
    <3> QED  BY <3>2, <3>3, <3>4, Zenon
  <2> QED  BY <2>1, <2>2, Zenon
<1>10. accepted'[r] = HistoryAfter(jw[r], hw[r], e)
  <2>1. accepted'[r] = [i \in InvocationId |->
            IF r \notin runtimes' \/ i \notin journal'[r].invocations THEN <<>>
            ELSE IF outcome' = "Appended" /\ i = e.invocation_id
            THEN Append(accepted[r][i], ToEvent(e))
            ELSE accepted[r][i]]
    BY <1>1, <1>4, Zenon DEF Recorded, r
  <2> QED  BY <2>1, <1>1, <1>3, <1>4, <1>8, <1>9 DEF HistoryAfter
<1>11. ASSUME NEW x \in RuntimeId, x # r
       PROVE  accepted'[x] = hw[x]
  <2>1. accepted'[x] = [i \in InvocationId |->
            IF x \notin runtimes' \/ i \notin journal'[x].invocations THEN <<>>
            ELSE accepted[x][i]]
    BY <1>4, <1>11, Zenon DEF Recorded, r
  <2>2. CASE x \notin runtimes'
    BY <2>1, <2>2, <1>4, Zenon DEF hw, NoHistory
  <2>3. CASE x \in runtimes'
    <3>1. x \in runtimes /\ journal'[x] = journal[x] /\ hw[x] = accepted[x]
      BY <2>3, <1>3, <1>4, <1>5, <1>8, <1>11 DEF hw
    <3>2. accepted'[x] = Retained(journal[x], accepted[x])
      BY <2>1, <2>3, <3>1 DEF Retained
    <3> QED  BY <3>1, <3>2, <1>2, RetainedHistory, Zenon
  <2> QED  BY <2>2, <2>3, Zenon
<1>12. \A x \in RuntimeId : RuntimeInv(journal'[x], accepted'[x])
  <2> TAKE x \in RuntimeId
  <2>1. CASE x = r
    BY <2>1, <1>7, <1>8, <1>10
  <2>2. CASE x # r
    BY <2>2, <1>6, <1>8, <1>11
  <2> QED  BY <2>1, <2>2, Zenon
<1>13. \A x \in RuntimeId \ runtimes' : journal'[x] = NewRuntimeJournal
  BY <1>3, <1>4, <1>5, <1>8
<1>14. journal' \in [RuntimeId -> RuntimeJournal]
  <2>1. \A x \in RuntimeId : journal'[x] \in RuntimeJournal
    BY <1>12, Zenon DEF RuntimeInv
  <2>2. journal' = [x \in RuntimeId |-> journal'[x]]
    BY <1>4, <1>5
  <2> QED  BY <2>1, <2>2, Zenon
<1>15. accepted' \in [RuntimeId -> [InvocationId -> Seq(Event)]]
  <2>1. \A x \in RuntimeId : accepted'[x] \in [InvocationId -> Seq(Event)]
    BY <1>12, Zenon DEF RuntimeInv
  <2>2. accepted' = [x \in RuntimeId |-> accepted'[x]]
    BY <1>4, Zenon DEF Recorded
  <2> QED  BY <2>1, <2>2
<1>16. runtimes' \in SUBSET RuntimeId
  BY <1>1, <1>2, <1>3, <1>4
<1> QED
  BY <1>3, <1>4, <1>7, <1>12, <1>13, <1>14, <1>15, <1>16 DEF JournalInv

\* `remove_runtime` keeps it and forgets the history of the runtime.
LEMMA RemoveInv ==
    ASSUME JournalInv, NEW r \in RuntimeId, remove_runtime(r)
    PROVE  JournalInv'
<1>1. /\ runtimes \in SUBSET RuntimeId
      /\ runtime_order \in Seq(RuntimeId)
      /\ Lists(runtime_order, runtimes, max_runtimes)
      /\ journal \in [RuntimeId -> RuntimeJournal]
      /\ accepted \in [RuntimeId -> [InvocationId -> Seq(Event)]]
      /\ \A x \in RuntimeId : RuntimeInv(journal[x], accepted[x])
      /\ \A x \in RuntimeId \ runtimes : journal[x] = NewRuntimeJournal
  BY Zenon DEF JournalInv
<1>2. /\ runtimes' = runtimes \ {r}
      /\ runtime_order' = Without(runtime_order, r)
      /\ journal' = [journal EXCEPT ![r] = NewRuntimeJournal]
      /\ outcome' = "Removed"
      /\ accepted' = [accepted EXCEPT ![r] = [i \in InvocationId |-> <<>>]]
  BY Zenon DEF remove_runtime
<1>3. /\ Without(runtime_order, r) \in Seq(RuntimeId)
      /\ Lists(Without(runtime_order, r), runtimes \ {r}, max_runtimes)
  <2>1. max_runtimes \in Nat
    BY LimitsAssumption, Zenon
  <2> QED  BY <2>1, <1>1, WithoutLists, Zenon
<1>4. \A x \in RuntimeId : RuntimeInv(journal'[x], accepted'[x])
  <2> TAKE x \in RuntimeId
  <2>1. CASE x = r
    <3>1. journal'[x] = NewRuntimeJournal /\ accepted'[x] = [i \in InvocationId |-> <<>>]
      BY <2>1, <1>1, <1>2, Zenon
    <3> QED  BY <3>1, NewRuntimeInv, Zenon
  <2>2. CASE x # r
    <3>1. journal'[x] = journal[x] /\ accepted'[x] = accepted[x]
      BY <2>2, <1>1, <1>2, Zenon
    <3> QED  BY <3>1, <1>1, Zenon
  <2> QED  BY <2>1, <2>2, Zenon
<1>5. \A x \in RuntimeId \ runtimes' : journal'[x] = NewRuntimeJournal
  BY <1>1, <1>2, Zenon
<1>6. NewRuntimeJournal \in RuntimeJournal
  BY NewRuntimeInv, Zenon DEF RuntimeInv
<1>7. journal' \in [RuntimeId -> RuntimeJournal]
  BY <1>1, <1>2, <1>6, Zenon
<1>8. accepted' \in [RuntimeId -> [InvocationId -> Seq(Event)]]
  BY <1>1, <1>2
<1>9. outcome' \in Outcome \ {"StateInvariant"}
  BY <1>2, Zenon DEF Outcome
<1> QED
  BY <1>1, <1>2, <1>3, <1>4, <1>5, <1>7, <1>8, <1>9, Zenon DEF JournalInv

\* An envelope `append` refuses at once changes nothing.
LEMMA UnsupportedInv ==
    ASSUME JournalInv, NEW e \in Envelope, AppendUnsupported(e)
    PROVE  JournalInv'
  BY Zenon DEF JournalInv, AppendUnsupported, Outcome, AppendError

\* Nor does a step of something else.
LEMMA StutterInv == JournalInv /\ UNCHANGED journalVars => JournalInv'
  BY Zenon DEF JournalInv, journalVars

\* Every step keeps the invariant.
LEMMA NextInv == JournalInv /\ [Next]_journalVars => JournalInv'
<1> SUFFICES ASSUME JournalInv, [Next]_journalVars PROVE JournalInv'
  BY Zenon
<1>1. CASE \E e \in Envelope : append(e)
  <2>1. PICK e \in Envelope : append(e)
    BY <1>1, Zenon
  <2>2. CASE AppendUnsupported(e)
    BY <2>2, UnsupportedInv, Zenon
  <2>3. CASE AppendEnvelope(e)
    BY <2>3, AppendInv, Zenon
  <2> QED  BY <2>1, <2>2, <2>3, Zenon DEF append
<1>2. CASE \E r \in RuntimeId : remove_runtime(r)
  BY <1>2, RemoveInv, Zenon
<1>3. CASE UNCHANGED journalVars
  BY <1>3, StutterInv, Zenon
<1> QED
  BY <1>1, <1>2, <1>3, Zenon DEF Next

\* JournalInv is an inductive invariant of the journal.
THEOREM JournalInvariant == Spec => []JournalInv
<1> QED
  BY InitInv, NextInv, PTL DEF Spec

\* The maps, deques and histories of the journal keep their types.
THEOREM TypeCorrect == Spec => []TypeOK
<1>1. JournalInv => TypeOK
  BY DEF JournalInv, TypeOK
<1> QED
  BY <1>1, JournalInvariant, PTL

\* Every map of the journal and its order deque agree and stay within their
\* limits, whatever is appended or removed.
THEOREM BoundsHold == Spec => []Bounded
<1>1. JournalInv => Bounded
  BY DEF JournalInv, RuntimeInv, Bounded
<1> QED
  BY <1>1, JournalInvariant, PTL

\* What the journal retains is a gap-free tail of what it accepted.
THEOREM TailRetained == Spec => []RetainedIsAcceptedTail
<1>1. JournalInv => RetainedIsAcceptedTail
  <2> SUFFICES ASSUME JournalInv, NEW r \in runtimes, NEW i \in journal[r].invocations
               PROVE  RetainedTail(journal[r].events[i], journal[r].evicted_through[i],
                                   accepted[r][i])
    BY Zenon DEF RetainedIsAcceptedTail
  <2>1. r \in RuntimeId /\ journal \in [RuntimeId -> RuntimeJournal]
    BY Zenon DEF JournalInv
  <2>2. i \in InvocationId
    BY <2>1, Zenon DEF RuntimeJournal
  <2>3. RuntimeInv(journal[r], accepted[r])
    BY <2>1, Zenon DEF JournalInv
  <2> QED  BY <2>2, <2>3, Zenon DEF RuntimeInv
<1> QED
  BY <1>1, JournalInvariant, PTL

\* Neither `StateInvariant` return of append can be taken.
THEOREM StateInvariantUnreachable == Spec => []NeverStateInvariant
<1>1. JournalInv => NeverStateInvariant
  BY Zenon DEF JournalInv, NeverStateInvariant
<1> QED
  BY <1>1, JournalInvariant, PTL

=============================================================================
