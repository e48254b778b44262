----------------------- MODULE RetainedRuntimeProofs ------------------------
(***************************************************************************)
(* A retained runtime keeps one owner of its process, one provider session *)
(* and an honest health report, for any number of calls, messages,         *)
(* interruptions and disposals, and implements TurnOwnership.              *)
(***************************************************************************)
EXTENDS RetainedRuntime, OrderDequeProofs, FiniteSetTheorems

\* Every invocation id fits into the window of recent ids.
IdsFit ==
    /\ IsFiniteSet(InvocationId)
    /\ Cardinality(InvocationId) <= RECENT_INVOCATION_CAPACITY

\* The runtime tells turns apart by their invocation id: either no two calls
\* have the same, or the window forgets none, so that the second is refused.
\* (With an id that is used again after it left the window, the completion of
\* the older turn would settle the newer one.)
IdsTellTurnsApart ==
    \/ \A c, e \in Call : invocation[c] = invocation[e] => c = e
    \/ IdsFit

-----------------------------------------------------------------------------
Running == {"launching", "executing", "executed"}

\* The window lists the ids of admitted calls, and no two of them share one.
AdmittedApart ==
    /\ Lists(recent_order, recent, RECENT_INVOCATION_CAPACITY)
    /\ \A c, e \in Call : Admitted(c) /\ Admitted(e) /\ invocation[c] = invocation[e] => c = e
    /\ IdsFit => \A c \in Call : Admitted(c) => invocation[c] \in recent

\* The active call is admitted and not settled.
ActiveUnsettled ==
    active # Nobody => Holding(active) \/ pc[active] \in {"delivering", "delivered"}

\* The health report, as in StatusFollowsOwner, and its reason.
StatusKept ==
    /\ active = Nobody <=> status \in {"Ready", "Degraded", "Stopped"}
    /\ \A d \in Disposer : dstep[d] # "idle" => disposed
    /\ \A d \in Disposer : dstep[d] \notin {"idle", "marked"} => status \in {"Stopping", "Stopped"}

\* A disposal that passed the lock waits for the last call that can hold the
\* process, and one that confirmed its end found it released.
TargetIsLast ==
    \A d \in Disposer :
        /\ dstep[d] \notin {"idle", "marked"} => \A c \in Call : Holding(c) => target[d] = c
        /\ dstep[d] = "confirming" => target[d] \in Call
        /\ dstep[d] \in {"confirmed", "disposed"} => \A c \in Call : ~Holding(c)

\* What a call announced is the session of the runtime; while its turn runs, it is
\* the session the turn resumes, or its own when there was none.
SessionKept ==
    \A c \in Call :
        /\ ~Admitted(c) => announced[c] = Nobody
        /\ pc[c] \notin Running => announced[c] \in {Nobody, session}
        /\ pc[c] \in Running =>
            /\ resumed[c] = session
            /\ announced[c] \in {Nobody, IF session = Nobody THEN c ELSE session}

\* A message on its way holds the lock, and its addressee is the active call.
SenderHoldsLock ==
    \A s \in Sender :
        /\ mstep[s] = "sending" => holder = s /\ active = addressee[s]
        /\ took[s] # Nobody => took[s] = addressee[s]

RuntimeInv ==
    /\ TypeOK /\ AdmittedApart /\ ActiveUnsettled /\ OneOwner
    /\ StatusKept /\ TargetIsLast /\ SessionKept /\ SenderHoldsLock

\* A fresh runtime satisfies the invariant.
LEMMA InitRuntimeInv == Init => RuntimeInv
<1> SUFFICES ASSUME Init PROVE RuntimeInv
  BY Zenon
<1> USE RuntimeAssumption DEF Init, Holding, Released, Admitted, HoldingSteps, ReleasedSteps
<1>1. TypeOK
  <2>1. disposed \in BOOLEAN
    BY Zenon
  <2> QED
    BY <2>1 DEF TypeOK
<1>2. AdmittedApart
  BY DEF AdmittedApart, Lists, Distinct
<1>3. ActiveUnsettled /\ OneOwner /\ StatusKept /\ TargetIsLast
  BY Zenon DEF ActiveUnsettled, OneOwner, StatusKept, TargetIsLast
<1>4. SessionKept /\ SenderHoldsLock
  BY Zenon DEF SessionKept, SenderHoldsLock, Running
<1> QED
  BY <1>1, <1>2, <1>3, <1>4, Zenon DEF RuntimeInv

-----------------------------------------------------------------------------
PcSteps == {"starting", "admitting", "requesting", "awaiting", "rejected"}
           \cup HoldingSteps \cup ReleasedSteps

\* A step in which one call goes on, stays on its side of admission and of the
\* record of its session, and does not take the process.
LEMMA MoveInv ==
    ASSUME RuntimeInv, NEW c \in Call, NEW step \in PcSteps, Goto(c, step), TypeOK',
           UNCHANGED <<entryVars, holder, resumed, announced, mstep, took, dstep, target>>,
           Admitted(c) <=> step \in HoldingSteps \cup ReleasedSteps,
           step \in HoldingSteps => Holding(c),
           pc[c] \in Running <=> step \in Running,
           active = c => step \in HoldingSteps \cup {"delivering", "delivered"}
    PROVE  RuntimeInv'
<1>1. /\ TypeOK /\ AdmittedApart /\ ActiveUnsettled /\ OneOwner
      /\ StatusKept /\ TargetIsLast /\ SessionKept /\ SenderHoldsLock
  BY Zenon DEF RuntimeInv
<1>2. /\ disposed' = disposed /\ status' = status /\ session' = session /\ active' = active
      /\ recent' = recent /\ recent_order' = recent_order /\ holder' = holder
      /\ resumed' = resumed /\ announced' = announced /\ mstep' = mstep /\ took' = took
      /\ dstep' = dstep /\ target' = target
  BY Zenon DEF entryVars
<1>3. /\ \A e \in Call : Admitted(e)' <=> Admitted(e)
      /\ \A e \in Call : Holding(e)' => Holding(e)
      /\ \A e \in Call : pc'[e] \in Running <=> pc[e] \in Running
      /\ \A e \in Call : pc'[e] = IF e = c THEN step ELSE pc[e]
  BY <1>1 DEF Goto, TypeOK, Admitted, Holding, Released
<1>4. AdmittedApart'
  BY <1>1, <1>2, <1>3, Zenon DEF AdmittedApart, IdsFit
<1>5. ActiveUnsettled'
  BY <1>1, <1>2, <1>3 DEF ActiveUnsettled, Holding, TypeOK
<1>6. OneOwner' /\ StatusKept'
  BY <1>1, <1>2, <1>3, Zenon DEF OneOwner, StatusKept
<1>7. TargetIsLast'
  BY <1>1, <1>2, <1>3, Zenon DEF TargetIsLast
<1>8. SessionKept'
  BY <1>1, <1>2, <1>3, Zenon DEF SessionKept
<1>9. SenderHoldsLock'
  BY <1>1, <1>2, Zenon DEF SenderHoldsLock
<1> QED
  BY <1>4, <1>5, <1>6, <1>7, <1>8, <1>9, Zenon DEF RuntimeInv

-----------------------------------------------------------------------------
\* Every step keeps the types.
LEMMA CallTypes ==
    ASSUME TypeOK, AdmittedApart, NEW c \in Call, start_turn(c)
    PROVE  TypeOK'
<1> USE RuntimeAssumption DEF TypeOK, entryVars, Goto, HoldingSteps, ReleasedSteps
<1>1. CASE Validate(c)
  BY <1>1 DEF Validate
<1>2. CASE Refuse(c)
  BY <1>2, Zenon DEF Refuse
<1>3. CASE RequestHandoff(c)
  BY <1>3, Zenon DEF RequestHandoff
<1>4. CASE HandoffDecision(c)
  BY <1>4 DEF HandoffDecision
<1>5. CASE AwaitReleased(c)
  BY <1>5, Zenon DEF AwaitReleased
<1>6. CASE Admit(c)
  <2> DEFINE pushed == Append(recent_order, invocation[c])
  <2>1. Trimmed(pushed, RECENT_INVOCATION_CAPACITY) \in Seq(InvocationId)
    <3> HIDE DEF TypeOK
    <3>1. /\ recent_order \in Seq(InvocationId) /\ invocation[c] \in InvocationId
          /\ RECENT_INVOCATION_CAPACITY \in Nat /\ RECENT_INVOCATION_CAPACITY # 0
          /\ Lists(recent_order, recent, RECENT_INVOCATION_CAPACITY)
      BY Zenon DEF TypeOK, AdmittedApart
    <3>2. invocation[c] \notin recent
      BY <1>6, Zenon DEF Admit
    <3> QED
      BY <3>1, <3>2, PushLists, Zenon
  <2> HIDE DEF pushed
  <2>2. (recent \cup {invocation[c]}) \ Popped(pushed, RECENT_INVOCATION_CAPACITY) \in SUBSET InvocationId
    OBVIOUS
  <2> QED
    BY <1>6, <2>1, <2>2, Zenon DEF Admit, pushed
<1> QED
  BY <1>1, <1>2, <1>3, <1>4, <1>5, <1>6, Zenon DEF start_turn

\* The steps of the invocation task keep the types.
LEMMA TaskTypes ==
    ASSUME TypeOK, NEW c \in Call, TaskStep(c) \/ Announce(c)
    PROVE  TypeOK'
<1> USE RuntimeAssumption DEF TypeOK, entryVars, Goto, HoldingSteps, ReleasedSteps
<1>1. CASE Launch(c)
  BY <1>1 DEF Launch
<1>2. CASE Execute(c)
  BY <1>2 DEF Execute
<1>3. CASE Record(c)
  BY <1>3, Zenon DEF Record
<1>4. CASE Release(c)
  BY <1>4, Zenon DEF Release
<1>5. CASE Deliver(c)
  BY <1>5 DEF Deliver
<1>6. CASE Settle(c)
  BY <1>6, Zenon DEF Settle, StatusAfter
<1>7. CASE Complete(c)
  BY <1>7, Zenon DEF Complete
<1>8. CASE Announce(c)
  BY <1>8 DEF Announce
<1> QED
  BY <1>1, <1>2, <1>3, <1>4, <1>5, <1>6, <1>7, <1>8, Zenon DEF TaskStep

\* So do interruptions, messages and disposals.
LEMMA OtherTypes ==
    ASSUME TypeOK,
           \/ \E i \in Interrupter : Interrupt(i) \/ ConfirmInterrupt(i)
           \/ \E s \in Sender : Send(s) \/ SendEnd(s)
           \/ \E d \in Disposer : dispose(d)
    PROVE  TypeOK'
<1> USE RuntimeAssumption DEF TypeOK, entryVars, callVars
<1>1. ASSUME NEW i \in Interrupter, Interrupt(i) PROVE TypeOK'
  BY <1>1 DEF Interrupt
<1>2. ASSUME NEW i \in Interrupter, ConfirmInterrupt(i) PROVE TypeOK'
  BY <1>2, Zenon DEF ConfirmInterrupt
<1>3. ASSUME NEW s \in Sender, Send(s) PROVE TypeOK'
  BY <1>3, Zenon DEF Send
<1>4. ASSUME NEW s \in Sender, SendEnd(s) PROVE TypeOK'
  BY <1>4 DEF SendEnd
<1>5. ASSUME NEW d \in Disposer, MarkDisposed(d) PROVE TypeOK'
  BY <1>5, Zenon DEF MarkDisposed
<1>6. ASSUME NEW d \in Disposer, CancelActive(d) PROVE TypeOK'
  BY <1>6 DEF CancelActive
<1>7. ASSUME NEW d \in Disposer, ConfirmEnd(d) PROVE TypeOK'
  BY <1>7, Zenon DEF ConfirmEnd
<1>8. ASSUME NEW d \in Disposer, Cleanup(d) PROVE TypeOK'
  BY <1>8 DEF Cleanup
<1> QED
  BY <1>1, <1>2, <1>3, <1>4, <1>5, <1>6, <1>7, <1>8, Zenon DEF dispose

-----------------------------------------------------------------------------
\* A window with a place for every id forgets none.
LEMMA PushFits ==
    ASSUME NEW S, IsFiniteSet(S), NEW order \in Seq(S), NEW keys, NEW maximum \in Nat,
           Cardinality(S) <= maximum, Lists(order, keys, maximum), NEW x \in S, x \notin keys
    PROVE  Popped(Append(order, x), maximum) = {}
<1> DEFINE pushed == Append(order, x)
<1>1. /\ pushed \in Seq(S) /\ Len(pushed) = Len(order) + 1 /\ Len(order) \in Nat
      /\ \A k \in 1..Len(order) : pushed[k] = order[k]
      /\ pushed[Len(order) + 1] = x
  BY AppendProperties, LenProperties
<1> HIDE DEF pushed
<1>2. \A j, k \in 1..Len(pushed) : pushed[j] = pushed[k] => j = k
  BY <1>1 DEF Lists, Distinct
<1>3. pushed \in [1..Len(pushed) -> S] /\ DOMAIN pushed = 1..Len(pushed)
  BY <1>1, LenProperties, Zenon
<1>4. pushed \in Injection(1..Len(pushed), S)
  BY <1>2, <1>3, Zenon DEF Injection, IsInjective
<1>5. Cardinality(1..Len(pushed)) <= Cardinality(S)
  BY <1>4, FS_Injection, Zenon
<1>6. Cardinality(1..Len(pushed)) = Len(pushed)
  BY <1>1, FS_Interval
<1>7. Len(pushed) <= maximum
  BY <1>1, <1>5, <1>6, FS_CardinalityType
<1> QED
  BY <1>1, <1>7 DEF Popped, pushed

\* Nobody holds the process when a call is admitted.
LEMMA AdmitFree ==
    ASSUME RuntimeInv, NEW c \in Call, ~Occupied(c)
    PROVE  \A e \in Call : ~Holding(e)
<1>1. TypeOK /\ OneOwner
  BY Zenon DEF RuntimeInv
<1>2. ASSUME NEW e \in Call, Holding(e) PROVE FALSE
  <2>1. active = e /\ active # Nobody
    BY <1>1, <1>2, RuntimeAssumption DEF OneOwner
  <2>2. Released(e)
    BY <2>1, Zenon DEF Occupied, HandedOff
  <2> QED
    BY <1>2, <2>2, Zenon DEF Holding, Released, HoldingSteps, ReleasedSteps
<1> QED
  BY <1>2, Zenon

\* Admission: the id is new, the process is free, and the turn resumes the session.
LEMMA AdmitInv ==
    ASSUME RuntimeInv, IdsTellTurnsApart, NEW c \in Call, Admit(c), TypeOK'
    PROVE  RuntimeInv'
<1> DEFINE pushed == Append(recent_order, invocation[c])
<1>1. /\ TypeOK /\ AdmittedApart /\ ActiveUnsettled /\ OneOwner
      /\ StatusKept /\ TargetIsLast /\ SessionKept /\ SenderHoldsLock
  BY Zenon DEF RuntimeInv
<1>2. /\ pc[c] = "admitting" /\ holder = Nobody /\ ~disposed /\ invocation[c] \notin recent
      /\ ~Occupied(c)
  BY Zenon DEF Admit, Entering
<1>3. /\ disposed' = disposed /\ status' = "Busy" /\ session' = session /\ active' = c
      /\ recent' = (recent \cup {invocation[c]}) \ Popped(pushed, RECENT_INVOCATION_CAPACITY)
      /\ recent_order' = Trimmed(pushed, RECENT_INVOCATION_CAPACITY)
      /\ holder' = holder /\ resumed' = [resumed EXCEPT ![c] = session]
      /\ announced' = announced /\ mstep' = mstep /\ took' = took
      /\ dstep' = dstep /\ target' = target /\ pc' = [pc EXCEPT ![c] = "launching"]
  BY Zenon DEF Admit, Goto
<1> HIDE DEF pushed
<1>4. \A e \in Call : pc'[e] = IF e = c THEN "launching" ELSE pc[e]
  BY <1>1, <1>3 DEF TypeOK
<1>5. \A e \in Call : ~Holding(e)
  BY <1>2, AdmitFree, Zenon
<1>6. /\ ~Admitted(c) /\ \A e \in Call : Admitted(e)' <=> e = c \/ Admitted(e)
      /\ \A e \in Call : Holding(e)' <=> e = c
      /\ \A e \in Call : pc'[e] \in Running <=> e = c
  BY <1>2, <1>4, <1>5, Zenon DEF Admitted, Holding, Released, HoldingSteps, ReleasedSteps, Running
<1>7. AdmittedApart'
  <2>1. /\ recent_order \in Seq(InvocationId) /\ invocation[c] \in InvocationId
        /\ RECENT_INVOCATION_CAPACITY \in Nat /\ RECENT_INVOCATION_CAPACITY # 0
        /\ Lists(recent_order, recent, RECENT_INVOCATION_CAPACITY)
    BY <1>1, RuntimeAssumption DEF TypeOK, AdmittedApart
  <2>2. Lists(recent_order, recent, RECENT_INVOCATION_CAPACITY)'
    BY <1>2, <1>3, <2>1, PushLists, Zenon DEF pushed
  <2>3. ASSUME IdsFit PROVE recent' = recent \cup {invocation[c]}
    <3>1. Popped(pushed, RECENT_INVOCATION_CAPACITY) = {}
      BY <1>2, <2>1, <2>3, PushFits DEF IdsFit, pushed
    <3> QED
      BY <1>3, <3>1, Zenon
  <2>4. ASSUME NEW e \in Call, Admitted(e), invocation[c] = invocation[e] PROVE c = e
    <3>1. CASE IdsFit
      BY <1>1, <1>2, <2>4, <3>1 DEF AdmittedApart
    <3> QED
      BY <2>4, <3>1 DEF IdsTellTurnsApart
  <2>5. IdsFit => \A e \in Call : Admitted(e)' => invocation[e] \in recent'
    BY <1>1, <1>6, <2>3, Zenon DEF AdmittedApart
  <2>6. \A e, g \in Call : Admitted(e)' /\ Admitted(g)' /\ invocation[e] = invocation[g] => e = g
    BY <1>1, <1>6, <2>4, Zenon DEF AdmittedApart
  <2> QED
    BY <2>2, <2>5, <2>6, Zenon DEF AdmittedApart, IdsFit
<1>8. ActiveUnsettled' /\ OneOwner'
  BY <1>3, <1>6, Zenon DEF ActiveUnsettled, OneOwner
<1>9. StatusKept' /\ TargetIsLast'
  BY <1>1, <1>2, <1>3, RuntimeAssumption DEF StatusKept, TargetIsLast
<1>10. SessionKept'
  <2>1. resumed'[c] = session /\ announced' = announced /\ announced[c] = Nobody
    BY <1>1, <1>3, <1>6, Zenon DEF SessionKept, TypeOK
  <2>2. ASSUME NEW e \in Call, e # c
        PROVE  /\ ~Admitted(e)' => announced[e] = Nobody
               /\ pc'[e] \notin Running /\ announced[e] \in {Nobody, session}
    <3>1. (Admitted(e)' <=> Admitted(e)) /\ pc'[e] \notin Running
      BY <1>6, <2>2, Zenon
    <3>2. pc[e] \notin Running
      BY <1>4, <2>2, <3>1, Zenon
    <3> QED
      BY <1>1, <3>1, <3>2, Zenon DEF SessionKept
  <2>3. Admitted(c)' /\ pc'[c] \in Running
    BY <1>6, Zenon
  <2> QED
    BY <1>3, <2>1, <2>2, <2>3 DEF SessionKept
<1>11. SenderHoldsLock'
  BY <1>1, <1>2, <1>3, RuntimeAssumption, Zenon DEF SenderHoldsLock
<1> QED
  BY <1>7, <1>8, <1>9, <1>10, <1>11 DEF RuntimeInv

\* start_turn: refusals, the wait for a hand-off, and admission.
LEMMA CallInv ==
    ASSUME RuntimeInv, IdsTellTurnsApart, NEW c \in Call, start_turn(c)
    PROVE  RuntimeInv'
<1>1. TypeOK /\ AdmittedApart /\ ActiveUnsettled
  BY Zenon DEF RuntimeInv
<1>2. TypeOK'
  BY <1>1, CallTypes, Zenon
<1>3. CASE Admit(c)
  BY <1>2, <1>3, AdmitInv, Zenon
<1>4. ASSUME NEW step \in {"admitting", "requesting", "awaiting", "rejected"}, Goto(c, step),
             pc[c] \in {"starting", "admitting", "requesting", "awaiting"},
             UNCHANGED <<entryVars, holder, resumed, announced, mstep, took, dstep, target>>
      PROVE  RuntimeInv'
  <2> USE DEF PcSteps, HoldingSteps, ReleasedSteps, Running
  <2>1. step \in PcSteps /\ step \notin HoldingSteps \cup ReleasedSteps
    BY <1>4, Zenon
  <2>2. ~Admitted(c) /\ pc[c] \notin Running /\ step \notin Running
    BY <1>4, Zenon DEF Admitted, Holding, Released
  <2>3. active # c
    BY <1>1, <1>4, RuntimeAssumption, Zenon DEF ActiveUnsettled, Holding
  <2> QED
    BY <1>2, <1>4, <2>1, <2>2, <2>3, MoveInv
<1>5. CASE Validate(c)
  BY <1>4, <1>5, Zenon DEF Validate
<1>6. CASE Refuse(c)
  BY <1>4, <1>6, Zenon DEF Refuse, Entering
<1>7. CASE RequestHandoff(c)
  BY <1>4, <1>7, Zenon DEF RequestHandoff, Entering
<1>8. CASE HandoffDecision(c)
  BY <1>4, <1>8, Zenon DEF HandoffDecision
<1>9. CASE AwaitReleased(c)
  BY <1>4, <1>9, Zenon DEF AwaitReleased
<1> QED
  BY <1>3, <1>5, <1>6, <1>7, <1>8, <1>9 DEF start_turn

-----------------------------------------------------------------------------
\* The executor announces the session it resumed, or one named after a first turn.
LEMMA AnnounceInv ==
    ASSUME RuntimeInv, NEW c \in Call, Announce(c), TypeOK'
    PROVE  RuntimeInv'
<1>1. /\ TypeOK /\ AdmittedApart /\ ActiveUnsettled /\ OneOwner
      /\ StatusKept /\ TargetIsLast /\ SessionKept /\ SenderHoldsLock
  BY Zenon DEF RuntimeInv
<1>2. /\ pc[c] = "executing"
      /\ announced' = [announced EXCEPT ![c] = IF resumed[c] = Nobody THEN c ELSE resumed[c]]
  BY Zenon DEF Announce
<1>3. /\ disposed' = disposed /\ status' = status /\ session' = session /\ active' = active
      /\ recent' = recent /\ recent_order' = recent_order /\ holder' = holder
      /\ resumed' = resumed /\ pc' = pc /\ mstep' = mstep /\ took' = took
      /\ dstep' = dstep /\ target' = target
  BY Zenon DEF Announce, entryVars
<1>4. \A e \in Call : (Admitted(e)' <=> Admitted(e)) /\ (Holding(e)' <=> Holding(e))
  BY <1>3, Zenon DEF Admitted, Holding, Released
<1>5. AdmittedApart' /\ ActiveUnsettled' /\ OneOwner' /\ StatusKept' /\ TargetIsLast'
  BY <1>1, <1>3, <1>4, Zenon
     DEF AdmittedApart, IdsFit, ActiveUnsettled, Holding, OneOwner, StatusKept, TargetIsLast
<1>6. SessionKept'
  <2>1. /\ Admitted(c) /\ pc[c] \in Running /\ resumed[c] = session
    BY <1>1, <1>2, Zenon DEF SessionKept, Admitted, Holding, HoldingSteps, Running
  <2> QED
    BY <1>1, <1>2, <1>3, <1>4, <2>1 DEF SessionKept, TypeOK
<1>7. SenderHoldsLock'
  BY <1>1, <1>3, Zenon DEF SenderHoldsLock
<1> QED
  BY <1>5, <1>6, <1>7, Zenon DEF RuntimeInv

\* The end of the executor: the session of the turn becomes the one of the runtime.
LEMMA RecordInv ==
    ASSUME RuntimeInv, NEW c \in Call, Record(c), TypeOK'
    PROVE  RuntimeInv'
<1>1. /\ TypeOK /\ AdmittedApart /\ ActiveUnsettled /\ OneOwner
      /\ StatusKept /\ TargetIsLast /\ SessionKept /\ SenderHoldsLock
  BY Zenon DEF RuntimeInv
<1>2. /\ pc[c] = "executed" /\ pc' = [pc EXCEPT ![c] = "recorded"]
      /\ session' = IF Owns(c) /\ announced[c] # Nobody THEN announced[c] ELSE session
  BY Zenon DEF Record, Goto
<1>3. /\ disposed' = disposed /\ status' = status /\ active' = active
      /\ recent' = recent /\ recent_order' = recent_order /\ holder' = holder
      /\ resumed' = resumed /\ announced' = announced /\ mstep' = mstep /\ took' = took
      /\ dstep' = dstep /\ target' = target
  BY Zenon DEF Record
<1>4. /\ \A e \in Call : pc'[e] = IF e = c THEN "recorded" ELSE pc[e]
      /\ \A e \in Call : (Admitted(e)' <=> Admitted(e)) /\ (Holding(e)' <=> Holding(e))
  BY <1>1, <1>2 DEF TypeOK, Admitted, Holding, Released, HoldingSteps, ReleasedSteps
<1>5. active = c /\ Owns(c)
  BY <1>1, <1>2, RuntimeAssumption, Zenon DEF OneOwner, Holding, HoldingSteps, Owns
<1>6. AdmittedApart' /\ ActiveUnsettled' /\ OneOwner' /\ StatusKept' /\ TargetIsLast'
  <2>1. ActiveUnsettled'
    BY <1>3, <1>4, <1>5, Zenon DEF ActiveUnsettled, Holding, HoldingSteps
  <2> QED
    BY <1>1, <1>3, <1>4, <2>1, Zenon DEF AdmittedApart, IdsFit, OneOwner, StatusKept, TargetIsLast
<1>7. SessionKept'
  <2>1. \A e \in Call : pc[e] \in Running => e = c
    BY <1>1, <1>5, Zenon DEF OneOwner, Holding, HoldingSteps, Running
  <2>2. \A e \in Call : pc'[e] \notin Running
    BY <1>4, <2>1, Zenon DEF Running
  <2>3. /\ announced[c] \in {Nobody, IF session = Nobody THEN c ELSE session}
        /\ \A e \in Call \ {c} : announced[e] \in {Nobody, session}
        /\ \A e \in Call : ~Admitted(e) => announced[e] = Nobody
    BY <1>1, <1>2, <2>1, Zenon DEF SessionKept, Running
  <2> QED
    BY <1>2, <1>3, <1>4, <1>5, <2>2, <2>3, Zenon DEF SessionKept
<1>8. SenderHoldsLock'
  BY <1>1, <1>3, Zenon DEF SenderHoldsLock
<1> QED
  BY <1>6, <1>7, <1>8, Zenon DEF RuntimeInv

\* The settlement of a turn, which leaves a successor alone.
LEMMA SettleInv ==
    ASSUME RuntimeInv, NEW c \in Call, Settle(c), TypeOK'
    PROVE  RuntimeInv'
<1>1. /\ TypeOK /\ AdmittedApart /\ ActiveUnsettled /\ OneOwner
      /\ StatusKept /\ TargetIsLast /\ SessionKept /\ SenderHoldsLock
  BY Zenon DEF RuntimeInv
<1>2. /\ pc[c] = "delivered" /\ holder = Nobody /\ pc' = [pc EXCEPT ![c] = "settled"]
      /\ IF Owns(c) THEN active' = Nobody /\ status' = StatusAfter(c)
                    ELSE active' = active /\ status' = status
  BY Zenon DEF Settle, Goto
<1>3. /\ disposed' = disposed /\ session' = session
      /\ recent' = recent /\ recent_order' = recent_order /\ holder' = holder
      /\ resumed' = resumed /\ announced' = announced /\ mstep' = mstep /\ took' = took
      /\ dstep' = dstep /\ target' = target
  BY Zenon DEF Settle
<1>4. /\ \A e \in Call : pc'[e] = IF e = c THEN "settled" ELSE pc[e]
      /\ \A e \in Call : (Admitted(e)' <=> Admitted(e)) /\ (Holding(e)' <=> Holding(e))
      /\ \A e \in Call : pc'[e] \in Running <=> pc[e] \in Running
      /\ ~Holding(c) /\ Admitted(c)
  BY <1>1, <1>2 DEF TypeOK, Admitted, Holding, Released, HoldingSteps, ReleasedSteps, Running
<1>5. Owns(c) <=> active = c
  <2>1. ASSUME Owns(c) PROVE active = c
    <3>1. active \in Call /\ Admitted(active) /\ invocation[active] = invocation[c]
      BY <1>1, <2>1, Zenon DEF Owns, TypeOK, ActiveUnsettled, Admitted, Released, ReleasedSteps
    <3> QED
      BY <1>1, <1>4, <3>1, Zenon DEF AdmittedApart
  <2> QED
    BY <2>1, RuntimeAssumption, Zenon DEF Owns
<1>6. AdmittedApart' /\ TargetIsLast' /\ SessionKept'
  BY <1>1, <1>3, <1>4, Zenon DEF AdmittedApart, IdsFit, TargetIsLast, SessionKept
<1>7. ActiveUnsettled' /\ OneOwner'
  <2>1. CASE active = c
    <3>1. \A e \in Call : ~Holding(e)
      BY <1>1, <1>4, <2>1, Zenon DEF OneOwner
    <3> QED
      BY <1>2, <1>4, <1>5, <2>1, <3>1, Zenon DEF ActiveUnsettled, OneOwner
  <2>2. CASE active # c
    BY <1>1, <1>2, <1>4, <1>5, <2>2 DEF ActiveUnsettled, OneOwner, Holding, TypeOK
  <2> QED
    BY <2>1, <2>2, Zenon
<1>8. StatusKept'
  <2>1. CASE active = c
    <3>1. /\ active' = Nobody /\ status' = StatusAfter(c)
          /\ StatusAfter(c) \in {"Ready", "Degraded", "Stopped"}
          /\ disposed => StatusAfter(c) = "Stopped"
      BY <1>2, <1>5, <2>1, Zenon DEF StatusAfter
    <3> QED
      BY <1>1, <1>3, <3>1, Zenon DEF StatusKept
  <2>2. CASE active # c
    BY <1>1, <1>2, <1>3, <1>5, <2>2 DEF StatusKept
  <2> QED
    BY <2>1, <2>2, Zenon
<1>9. SenderHoldsLock'
  BY <1>1, <1>2, <1>3, RuntimeAssumption DEF SenderHoldsLock
<1> QED
  BY <1>6, <1>7, <1>8, <1>9, Zenon DEF RuntimeInv

\* The steps of the invocation task.
LEMMA TaskInv ==
    ASSUME RuntimeInv, NEW c \in Call, TaskStep(c) \/ Announce(c)
    PROVE  RuntimeInv'
<1>1. TypeOK /\ ActiveUnsettled
  BY Zenon DEF RuntimeInv
<1>2. TypeOK'
  BY <1>1, TaskTypes, Zenon
<1> USE DEF PcSteps, HoldingSteps, ReleasedSteps, Running, Holding, Released, Admitted, ActiveUnsettled
<1>3. CASE Launch(c)
  <2>1. PICK step \in {"executing", "executed"} : Goto(c, step)
    BY <1>3, Zenon DEF Launch
  <2>2. /\ UNCHANGED <<entryVars, holder, resumed, announced, mstep, took, dstep, target>>
        /\ pc[c] = "launching"
    BY <1>3, Zenon DEF Launch
  <2> QED
    BY <1>2, <2>1, <2>2, MoveInv
<1>4. CASE Execute(c)
  <2>1. /\ UNCHANGED <<entryVars, holder, resumed, announced, mstep, took, dstep, target>>
        /\ pc[c] = "executing" /\ Goto(c, "executed")
    BY <1>4, Zenon DEF Execute
  <2> QED
    BY <1>2, <2>1, MoveInv, Zenon
<1>5. CASE Release(c)
  <2>1. /\ UNCHANGED <<entryVars, holder, resumed, announced, mstep, took, dstep, target>>
        /\ pc[c] = "recorded" /\ Goto(c, "delivering")
    BY <1>5, Zenon DEF Release
  <2> QED
    BY <1>2, <2>1, MoveInv, Zenon
<1>6. CASE Deliver(c)
  <2>1. /\ UNCHANGED <<entryVars, holder, resumed, announced, mstep, took, dstep, target>>
        /\ pc[c] = "delivering" /\ Goto(c, "delivered")
    BY <1>6, Zenon DEF Deliver
  <2> QED
    BY <1>2, <2>1, MoveInv, Zenon
<1>7. CASE Complete(c)
  <2>1. /\ UNCHANGED <<entryVars, holder, resumed, announced, mstep, took, dstep, target>>
        /\ pc[c] = "settled" /\ Goto(c, "ended")
    BY <1>7, Zenon DEF Complete
  <2>2. active # c
    BY <1>1, <2>1, RuntimeAssumption, Zenon
  <2> QED
    BY <1>2, <2>1, <2>2, MoveInv
<1> QED
  BY <1>2, <1>3, <1>4, <1>5, <1>6, <1>7, AnnounceInv, RecordInv, SettleInv DEF TaskStep

-----------------------------------------------------------------------------
\* Steps of interrupters, senders and disposers move no call.
LEMMA CallsStay ==
    ASSUME RuntimeInv, UNCHANGED <<callVars, session, active, recent, recent_order>>
    PROVE  /\ AdmittedApart' /\ ActiveUnsettled' /\ OneOwner' /\ SessionKept'
           /\ \A e \in Call : Holding(e)' <=> Holding(e)
<1>1. AdmittedApart /\ ActiveUnsettled /\ OneOwner /\ SessionKept
  BY Zenon DEF RuntimeInv
<1>2. /\ pc' = pc /\ announced' = announced /\ resumed' = resumed /\ session' = session
      /\ active' = active /\ recent' = recent /\ recent_order' = recent_order
  BY Zenon DEF callVars
<1>3. \A e \in Call : (Admitted(e)' <=> Admitted(e)) /\ (Holding(e)' <=> Holding(e))
  BY <1>2, Zenon DEF Admitted, Holding, Released
<1> QED
  BY <1>1, <1>2, <1>3, Zenon DEF AdmittedApart, IdsFit, ActiveUnsettled, Holding, OneOwner, SessionKept

\* An interruption changes neither the turns nor what the runtime has on record.
LEMMA InterruptInv ==
    ASSUME RuntimeInv, NEW i \in Interrupter, Interrupt(i) \/ ConfirmInterrupt(i), TypeOK'
    PROVE  RuntimeInv'
<1>1. StatusKept /\ TargetIsLast /\ SenderHoldsLock
  BY Zenon DEF RuntimeInv
<1>2. /\ UNCHANGED <<callVars, session, active, recent, recent_order>>
      /\ disposed' = disposed /\ status' = status /\ active' = active /\ holder' = holder
      /\ mstep' = mstep /\ took' = took /\ dstep' = dstep /\ target' = target
  BY Zenon DEF Interrupt, ConfirmInterrupt, entryVars
<1>3. StatusKept' /\ SenderHoldsLock'
  BY <1>1, <1>2, Zenon DEF StatusKept, SenderHoldsLock
<1>4. TargetIsLast'
  BY <1>1, <1>2, CallsStay, Zenon DEF TargetIsLast
<1> QED
  BY <1>2, <1>3, <1>4, CallsStay, Zenon DEF RuntimeInv

\* A message: the lock is held from the look at the active turn to the end of the write.
LEMMA SendInv ==
    ASSUME RuntimeInv, NEW s \in Sender, Send(s) \/ SendEnd(s), TypeOK'
    PROVE  RuntimeInv'
<1>1. /\ TypeOK /\ AdmittedApart /\ ActiveUnsettled /\ OneOwner
      /\ StatusKept /\ TargetIsLast /\ SenderHoldsLock
  BY Zenon DEF RuntimeInv
<1>2. /\ UNCHANGED <<callVars, session, active, recent, recent_order>>
      /\ disposed' = disposed /\ status' = status /\ active' = active
      /\ dstep' = dstep /\ target' = target
  BY Zenon DEF Send, SendEnd, entryVars
<1>3. StatusKept'
  BY <1>1, <1>2, Zenon DEF StatusKept
<1>4. TargetIsLast'
  BY <1>1, <1>2, CallsStay, Zenon DEF TargetIsLast
<1>5. SenderHoldsLock'
  <2>1. CASE Send(s)
    <3>1. /\ Admitted(addressee[s]) /\ holder = Nobody /\ took' = took
          /\ \/ /\ Owns(addressee[s]) /\ mstep' = [mstep EXCEPT ![s] = "sending"] /\ holder' = s
             \/ mstep' = [mstep EXCEPT ![s] = "refused"] /\ holder' = holder
      BY <2>1, Zenon DEF Send
    <3>2. addressee[s] \in Call
      BY RuntimeAssumption, Zenon
    <3>3. Owns(addressee[s]) => active = addressee[s]
      <4> SUFFICES ASSUME Owns(addressee[s]) PROVE active = addressee[s]
        BY Zenon
      <4>1. active \in Call /\ Admitted(active) /\ invocation[active] = invocation[addressee[s]]
        BY <1>1, Zenon DEF Owns, TypeOK, ActiveUnsettled, Admitted, Released, ReleasedSteps
      <4> QED
        BY <1>1, <3>1, <3>2, <4>1, Zenon DEF AdmittedApart
    <3>4. \A t \in Sender : mstep[t] # "sending"
      BY <1>1, <3>1, RuntimeAssumption, Zenon DEF SenderHoldsLock
    <3>5. mstep \in [Sender -> {"idle", "sending", "delivered", "refused"}]
      BY <1>1, Zenon DEF TypeOK
    <3>6. SenderHoldsLock
      BY <1>1, Zenon
    <3> QED
      BY <1>2, <3>1, <3>3, <3>4, <3>5, <3>6 DEF SenderHoldsLock
  <2>2. CASE SendEnd(s)
    <3>1. /\ mstep[s] = "sending" /\ holder' = IF holder = s THEN Nobody ELSE holder
          /\ \/ \E v \in Call : /\ pc[v] = "executing" /\ took' = [took EXCEPT ![s] = v]
                                /\ mstep' = [mstep EXCEPT ![s] = "delivered"]
             \/ mstep' = [mstep EXCEPT ![s] = "refused"] /\ took' = took
      BY <2>2, Zenon DEF SendEnd
    <3>2. active = addressee[s] /\ \A t \in Sender \ {s} : mstep[t] # "sending"
      BY <1>1, <3>1, Zenon DEF SenderHoldsLock
    <3>3. \A v \in Call : pc[v] = "executing" => v = addressee[s]
      BY <1>1, <3>2, Zenon DEF OneOwner, Holding, HoldingSteps
    <3>4. /\ mstep \in [Sender -> {"idle", "sending", "delivered", "refused"}]
          /\ took \in [Sender -> Call \cup {Nobody}]
      BY <1>1, Zenon DEF TypeOK
    <3>5. SenderHoldsLock
      BY <1>1, Zenon
    <3> QED
      BY <1>2, <3>1, <3>2, <3>3, <3>4, <3>5, Zenon DEF SenderHoldsLock
  <2> QED
    BY <2>1, <2>2, Zenon
<1> QED
  BY <1>2, <1>3, <1>4, <1>5, CallsStay DEF RuntimeInv

\* A disposal: the mark, the status, the wait for the last call and its confirmation.
LEMMA DisposeInv ==
    ASSUME RuntimeInv, NEW d \in Disposer, dispose(d), TypeOK'
    PROVE  RuntimeInv'
<1>1. /\ TypeOK /\ OneOwner /\ StatusKept /\ TargetIsLast /\ SenderHoldsLock
  BY Zenon DEF RuntimeInv
<1>2. /\ UNCHANGED <<callVars, session, active, recent, recent_order>>
      /\ active' = active /\ pc' = pc
      /\ mstep' = mstep /\ took' = took /\ holder' = holder
  BY Zenon DEF dispose, MarkDisposed, CancelActive, ConfirmEnd, Cleanup, entryVars, callVars
<1>3. /\ AdmittedApart' /\ ActiveUnsettled' /\ OneOwner' /\ SessionKept'
      /\ \A e \in Call : Holding(e)' <=> Holding(e)
  BY <1>2, CallsStay, Zenon
<1>4. SenderHoldsLock'
  BY <1>1, <1>2, Zenon DEF SenderHoldsLock
<1>5. StatusKept'
  <2>1. CASE MarkDisposed(d)
    BY <1>1, <1>2, <2>1 DEF MarkDisposed, StatusKept, TypeOK
  <2>2. CASE CancelActive(d)
    BY <1>1, <1>2, <2>2, Zenon DEF CancelActive, StatusKept, TypeOK
  <2>3. CASE ConfirmEnd(d) \/ Cleanup(d)
    BY <1>1, <1>2, <2>3, Zenon DEF ConfirmEnd, Cleanup, StatusKept, TypeOK, entryVars
  <2> QED
    BY <2>1, <2>2, <2>3, Zenon DEF dispose
<1>6. TargetIsLast'
  <2>1. CASE MarkDisposed(d)
    BY <1>1, <1>3, <2>1 DEF MarkDisposed, TargetIsLast, TypeOK
  <2>2. CASE CancelActive(d)
    <3>1. \A c \in Call : Holding(c) => active = c
      BY <1>1, Zenon DEF OneOwner
    <3>2. active = Nobody => \A c \in Call : ~Holding(c)
      BY <3>1, RuntimeAssumption, Zenon
    <3>3. active \in Call \cup {Nobody}
      BY <1>1, Zenon DEF TypeOK
    <3>4. /\ target' = [target EXCEPT ![d] = active]
          /\ dstep' = [dstep EXCEPT ![d] = IF active # Nobody THEN "confirming" ELSE "confirmed"]
      BY <2>2, Zenon DEF CancelActive
    <3>5. /\ \A x \in Disposer : target'[x] = IF x = d THEN active ELSE target[x]
          /\ \A x \in Disposer \ {d} : dstep'[x] = dstep[x]
          /\ dstep'[d] = IF active # Nobody THEN "confirming" ELSE "confirmed"
      BY <1>1, <3>4 DEF TypeOK
    <3> QED
      BY <1>1, <1>3, <3>1, <3>2, <3>3, <3>5, Zenon DEF TargetIsLast
  <2>3. CASE ConfirmEnd(d)
    <3>1. /\ target' = target /\ dstep[d] = "confirming"
          /\ dstep' = [dstep EXCEPT ![d] = IF pc[target[d]] = "ended" THEN "confirmed" ELSE "unconfirmed"]
      BY <2>3, Zenon DEF ConfirmEnd
    <3>2. pc[target[d]] = "ended" => \A c \in Call : ~Holding(c)
      BY <1>1, <3>1, Zenon DEF TargetIsLast, Holding, HoldingSteps
    <3>3. /\ \A x \in Disposer \ {d} : dstep'[x] = dstep[x]
          /\ dstep'[d] = IF pc[target[d]] = "ended" THEN "confirmed" ELSE "unconfirmed"
      BY <1>1, <3>1 DEF TypeOK
    <3> QED
      BY <1>1, <1>3, <3>1, <3>2, <3>3 DEF TargetIsLast
  <2>4. CASE Cleanup(d)
    BY <1>1, <1>3, <2>4 DEF Cleanup, TargetIsLast, TypeOK
  <2> QED
    BY <2>1, <2>2, <2>3, <2>4, Zenon DEF dispose
<1> QED
  BY <1>3, <1>4, <1>5, <1>6, Zenon DEF RuntimeInv

\* Every step keeps the invariant.
LEMMA NextRuntimeInv ==
    ASSUME IdsTellTurnsApart, RuntimeInv, [Next]_<<vars, kind>>
    PROVE  RuntimeInv'
<1>1. CASE Next
  <2>1. ASSUME NEW c \in Call, start_turn(c) \/ TaskStep(c) \/ Announce(c) PROVE RuntimeInv'
    BY <2>1, CallInv, TaskInv, Zenon
  <2>2. ASSUME \/ \E i \in Interrupter : Interrupt(i) \/ ConfirmInterrupt(i)
               \/ \E s \in Sender : Send(s) \/ SendEnd(s)
               \/ \E d \in Disposer : dispose(d)
        PROVE  RuntimeInv'
    <3>1. TypeOK'
      BY <2>2, OtherTypes, Zenon DEF RuntimeInv
    <3> QED
      BY <2>2, <3>1, InterruptInv, SendInv, DisposeInv, Zenon
  <2> QED
    BY <1>1, <2>1, <2>2, Zenon DEF Next
<1>2. CASE UNCHANGED <<vars, kind>>
  <2>1. /\ UNCHANGED <<callVars, session, active, recent, recent_order>>
        /\ disposed' = disposed /\ status' = status /\ active' = active /\ holder' = holder
        /\ mstep' = mstep /\ took' = took /\ dstep' = dstep /\ target' = target
    BY <1>2, Zenon DEF vars, entryVars
  <2>2. TypeOK'
    BY <1>2, Zenon DEF RuntimeInv, TypeOK, vars, entryVars, callVars
  <2>3. StatusKept' /\ SenderHoldsLock'
    BY <2>1, Zenon DEF RuntimeInv, StatusKept, SenderHoldsLock
  <2>4. TargetIsLast'
    BY <2>1, CallsStay, Zenon DEF RuntimeInv, TargetIsLast
  <2> QED
    BY <2>1, <2>2, <2>3, <2>4, CallsStay, Zenon DEF RuntimeInv
<1> QED
  BY <1>1, <1>2, Zenon

-----------------------------------------------------------------------------
\* The invariant implies what the runtime promises.
LEMMA InvIsKept == RuntimeInv => ConversationIsKept
<1> SUFFICES ASSUME RuntimeInv PROVE ConversationIsKept
  BY Zenon
<1>1. /\ TypeOK /\ ActiveUnsettled /\ OneOwner
      /\ StatusKept /\ TargetIsLast /\ SessionKept /\ SenderHoldsLock
  BY Zenon DEF RuntimeInv
<1>2. OneConversation
  <2> SUFFICES ASSUME NEW c \in Call, NEW e \in Call, announced[c] # Nobody, announced[e] # Nobody, c # e
               PROVE  announced[c] = announced[e]
    BY Zenon DEF OneConversation
  <2>1. pc[c] \notin Running \/ pc[e] \notin Running
    BY <1>1, Zenon DEF OneOwner, Holding, HoldingSteps, Running
  <2>2. session # Nobody
    BY <1>1, <2>1, Zenon DEF SessionKept
  <2>3. announced[c] = session /\ announced[e] = session
    BY <1>1, <2>2, Zenon DEF SessionKept
  <2> QED
    BY <2>3, Zenon
<1>3. DisposedIsQuiet
  BY <1>1, Zenon DEF DisposedIsQuiet, TargetIsLast
<1>4. StatusFollowsOwner
  BY <1>1, RuntimeAssumption DEF StatusFollowsOwner, StatusKept, OneOwner, TypeOK
<1>5. MessageReachesAddressee
  BY <1>1, Zenon DEF MessageReachesAddressee, SenderHoldsLock
<1> QED
  BY <1>1, <1>2, <1>3, <1>4, <1>5, Zenon DEF ConversationIsKept

\* However calls, hand-offs, messages, interruptions and disposals interleave,
\* RuntimeEntry keeps the conversation, provided ids tell turns apart.
THEOREM ConversationKept ==
    ASSUME IdsTellTurnsApart
    PROVE  Spec => []ConversationIsKept
<1>1. Init => RuntimeInv
  BY InitRuntimeInv, Zenon
<1>2. RuntimeInv /\ [Next]_<<vars, kind>> => RuntimeInv'
  BY NextRuntimeInv, Zenon
<1>3. RuntimeInv => ConversationIsKept
  BY InvIsKept, Zenon
<1> QED
  BY <1>1, <1>2, <1>3, PTL DEF Spec

-----------------------------------------------------------------------------
\* The owner of the process is the call that holds it.
LEMMA OwnerIs ==
    ASSUME TypeOK, OneOwner
    PROVE  /\ \A c \in Call : Holding(c) => ProcessOwner = c
           /\ (\A c \in Call : ~Holding(c)) => ProcessOwner = Nobody
<1>1. ASSUME NEW c \in Call, Holding(c) PROVE ProcessOwner = c
  <2>1. ProcessOwner \in Call /\ Holding(ProcessOwner)
    BY <1>1, Zenon DEF ProcessOwner
  <2> QED
    BY <1>1, <2>1, Zenon DEF OneOwner
<1> QED
  BY <1>1, Zenon DEF ProcessOwner

\* A step that neither takes nor releases the process is no step of its owners.
LEMMA SameOwner ==
    ASSUME RuntimeInv, RuntimeInv', \A c \in Call : Holding(c)' <=> Holding(c),
           \A c \in Call : Released(c)' <=> Released(c)
    PROVE  ProcessOwner' = ProcessOwner /\ PastOwners' = PastOwners
<1>1. TypeOK /\ OneOwner /\ TypeOK' /\ OneOwner'
  BY Zenon DEF RuntimeInv
<1>2. PastOwners' = PastOwners
  BY Zenon DEF PastOwners
<1>3. CASE \E c \in Call : Holding(c)
  <2>1. PICK c \in Call : Holding(c)
    BY <1>3, Zenon
  <2>2. Holding(c)'
    BY <2>1, Zenon
  <2>3. ProcessOwner = c
    BY <1>1, <2>1, OwnerIs, Zenon
  <2>4. ProcessOwner' = c
    BY <2>2, Zenon DEF ProcessOwner, OneOwner, RuntimeInv
  <2> QED
    BY <1>2, <2>3, <2>4, Zenon
<1>4. CASE \A c \in Call : ~Holding(c)
  BY <1>2, <1>4, Zenon DEF ProcessOwner
<1> QED
  BY <1>3, <1>4, Zenon

\* A step of a call is an abstract grant (Admit), an abstract return of the
\* process (Release), or no abstract step.
LEMMA CallRefines ==
    ASSUME RuntimeInv, RuntimeInv', NEW c \in Call,
           start_turn(c) \/ TaskStep(c) \/ Announce(c)
    PROVE  [Ownership!Next]_Ownership!ownershipVars
<1>1. /\ TypeOK /\ OneOwner /\ StatusKept /\ TypeOK' /\ OneOwner'
  BY Zenon DEF RuntimeInv
<1>2. dstep' = dstep /\ OwnershipStopped' = OwnershipStopped
  <2>1. dstep' = dstep
    BY Zenon DEF start_turn, TaskStep, Validate, Refuse, RequestHandoff, HandoffDecision, AwaitReleased, Admit,
           Launch, Execute, Record, Release, Deliver, Settle, Complete, Announce
  <2> QED
    BY <2>1, Zenon DEF OwnershipStopped
<1> USE DEF HoldingSteps, ReleasedSteps
<1>3. CASE Admit(c)
  <2>1. /\ pc[c] = "admitting" /\ ~disposed /\ ~Occupied(c) /\ pc' = [pc EXCEPT ![c] = "launching"]
    BY <1>3, Zenon DEF Admit, Entering, Goto
  <2>2. \A e \in Call : ~Holding(e)
    BY <2>1, AdmitFree, Zenon
  <2>3. /\ \A e \in Call : pc'[e] = IF e = c THEN "launching" ELSE pc[e]
    BY <1>1, <2>1 DEF TypeOK
  <2>4. PastOwners' = PastOwners /\ c \notin PastOwners
    BY <2>1, <2>3 DEF PastOwners, Released
  <2>5. ProcessOwner = Nobody
    BY <1>1, <2>2, OwnerIs, Zenon
  <2>6. ProcessOwner' = c
    <3>1. \A e \in Call : Holding(e)' <=> e = c
      BY <2>2, <2>3, Zenon DEF Holding
    <3> QED
      BY <3>1, Zenon DEF ProcessOwner
  <2>7. ~OwnershipStopped
    BY <1>1, <2>1, Zenon DEF OwnershipStopped, StatusKept
  <2>8. Ownership!Grant(c)
    BY <1>2, <2>4, <2>5, <2>6, <2>7 DEF Ownership!Grant
  <2> QED
    BY <2>8, Zenon DEF Ownership!Next
<1>4. CASE Release(c)
  <2>1. pc[c] = "recorded" /\ pc' = [pc EXCEPT ![c] = "delivering"]
    BY <1>4, Zenon DEF Release, Goto
  <2>2. \A e \in Call : pc'[e] = IF e = c THEN "delivering" ELSE pc[e]
    BY <1>1, <2>1 DEF TypeOK
  <2>3. \A e \in Call : ~Holding(e)'
    BY <1>1, <2>1, <2>2 DEF Holding, OneOwner
  <2>4. ProcessOwner = c /\ ProcessOwner' = Nobody
    BY <1>1, <2>1, <2>3, OwnerIs, Zenon DEF Holding, ProcessOwner
  <2>5. PastOwners' = PastOwners \cup {c}
    BY <2>1, <2>2, Zenon DEF PastOwners, Released
  <2>6. Ownership!GiveUp(c)
    BY <1>2, <2>4, <2>5, Zenon DEF Ownership!GiveUp
  <2> QED
    BY <2>6, Zenon DEF Ownership!Next
<1>5. CASE ~Admit(c) /\ ~Release(c)
  <2>1. /\ \A e \in Call : Holding(e)' <=> Holding(e)
        /\ \A e \in Call : Released(e)' <=> Released(e)
    <3> DEFINE Early == {"starting", "admitting", "requesting", "awaiting", "rejected"}
    <3>0. pc \in [Call -> Early \cup HoldingSteps \cup ReleasedSteps]
      BY <1>1, Zenon DEF TypeOK
    <3>1. CASE start_turn(c)
      <4>1. pc[c] \in Early /\ \E step \in Early : pc' = [pc EXCEPT ![c] = step]
        <5> USE DEF Goto, Entering
        <5>1. CASE Validate(c)
          BY <5>1, Zenon DEF Validate
        <5>2. CASE Refuse(c) \/ RequestHandoff(c)
          BY <5>2, Zenon DEF Refuse, RequestHandoff
        <5>3. CASE HandoffDecision(c)
          BY <5>3, Zenon DEF HandoffDecision
        <5>4. CASE AwaitReleased(c)
          BY <5>4, Zenon DEF AwaitReleased
        <5> QED
          BY <1>5, <3>1, <5>1, <5>2, <5>3, <5>4 DEF start_turn
      <4> QED
        BY <3>0, <4>1, Zenon DEF Holding, Released
    <3>2. CASE TaskStep(c)
      <4>1. \/ Holding(c) /\ \E step \in HoldingSteps : pc' = [pc EXCEPT ![c] = step]
            \/ Released(c) /\ \E step \in ReleasedSteps : pc' = [pc EXCEPT ![c] = step]
        <5> USE DEF Goto, Holding, Released
        <5>1. CASE Launch(c) \/ Execute(c)
          BY <5>1, Zenon DEF Launch, Execute
        <5>2. CASE Record(c)
          BY <5>2, Zenon DEF Record
        <5>3. CASE Deliver(c) \/ Settle(c) \/ Complete(c)
          BY <5>3, Zenon DEF Deliver, Settle, Complete
        <5> QED
          BY <1>5, <3>2, <5>1, <5>2, <5>3, Zenon DEF TaskStep
      <4> QED
        BY <3>0, <4>1, Zenon DEF Holding, Released
    <3>3. CASE Announce(c)
      BY <3>3, Zenon DEF Announce, Holding, Released
    <3> QED
      BY <3>1, <3>2, <3>3, Zenon
  <2>2. ProcessOwner' = ProcessOwner /\ PastOwners' = PastOwners
    BY <2>1, SameOwner, Zenon
  <2> QED
    BY <1>2, <2>2, Zenon DEF Ownership!ownershipVars
<1> QED
  BY <1>3, <1>4, <1>5, Zenon

\* Every step of the runtime is a step of its abstract ownership, or none.
LEMMA NextRefines ==
    ASSUME RuntimeInv, RuntimeInv', [Next]_<<vars, kind>>
    PROVE  [Ownership!Next]_Ownership!ownershipVars
<1>1. CASE \E c \in Call : start_turn(c) \/ TaskStep(c) \/ Announce(c)
  BY <1>1, CallRefines, Zenon
<1>2. ASSUME pc' = pc PROVE ProcessOwner' = ProcessOwner /\ PastOwners' = PastOwners
  BY <1>2, SameOwner, Zenon DEF Holding, Released
<1>3. CASE \E d \in Disposer : dispose(d)
  <2>1. PICK d \in Disposer : dispose(d)
    BY <1>3, Zenon
  <2>2. pc' = pc
    BY <2>1, Zenon DEF dispose, MarkDisposed, CancelActive, ConfirmEnd, Cleanup, callVars
  <2>3. OwnershipStopped' \/ (~OwnershipStopped' /\ ~OwnershipStopped)
    <3>1. dstep \in [Disposer -> {"idle", "marked", "confirming", "confirmed", "unconfirmed",
                                  "disposed", "failed"}]
      BY Zenon DEF RuntimeInv, TypeOK
    <3> QED
      BY <2>1, <3>1, Zenon DEF dispose, MarkDisposed, CancelActive, ConfirmEnd, Cleanup, OwnershipStopped
  <2>4. OwnershipStopped' = TRUE \/ OwnershipStopped' = OwnershipStopped
    BY <2>3, Zenon DEF OwnershipStopped
  <2>5. Ownership!Stop \/ UNCHANGED Ownership!ownershipVars
    BY <1>2, <2>2, <2>4, Zenon DEF Ownership!Stop, Ownership!ownershipVars
  <2> QED
    BY <2>5, Zenon DEF Ownership!Next
<1>4. CASE pc' = pc /\ dstep' = dstep
  BY <1>2, <1>4, Zenon DEF OwnershipStopped, Ownership!ownershipVars
<1>5. CASE \/ \E i \in Interrupter : Interrupt(i) \/ ConfirmInterrupt(i)
           \/ \E s \in Sender : Send(s) \/ SendEnd(s)
           \/ UNCHANGED <<vars, kind>>
  <2>1. pc' = pc /\ dstep' = dstep
    BY <1>5, Zenon DEF Interrupt, ConfirmInterrupt, Send, SendEnd, callVars, vars
  <2> QED
    BY <1>4, <2>1, Zenon
<1> QED
  BY <1>1, <1>3, <1>5, Zenon DEF Next

\* RuntimeEntry implements TurnOwnership: the process has one owner at a time, no
\* call gets it back, and none gets it once a disposal has passed the state lock.
THEOREM OwnershipImplemented ==
    ASSUME IdsTellTurnsApart
    PROVE  Spec => ImplementsOwnership
<1>1. Init => RuntimeInv
  BY InitRuntimeInv, Zenon
<1>2. RuntimeInv /\ [Next]_<<vars, kind>> => RuntimeInv'
  BY NextRuntimeInv, Zenon
<1>3. Init => Ownership!Init
  BY Zenon DEF Init, Ownership!Init, ProcessOwner, PastOwners, OwnershipStopped, Holding, Released,
         HoldingSteps, ReleasedSteps
<1>4. RuntimeInv /\ RuntimeInv' /\ [Next]_<<vars, kind>> => [Ownership!Next]_Ownership!ownershipVars
  BY NextRefines, Zenon
<1> QED
  BY <1>1, <1>2, <1>3, <1>4, PTL DEF Spec, ImplementsOwnership, Ownership!Spec

=============================================================================
