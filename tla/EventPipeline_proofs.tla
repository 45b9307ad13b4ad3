------------------------- MODULE EventPipeline_proofs -------------------------
(***************************************************************************)
(* What the outbox, the stream and its consumers guarantee for any number  *)
(* of events, dispatchers and consumers, any batch and any retry limit,    *)
(* whatever fails: the pipeline implements the abstract event delivery.    *)
(***************************************************************************)
EXTENDS EventPipeline, FiniteSetTheorems, WellFoundedInduction, TLAPS

-----------------------------------------------------------------------------
(* Smallest and greatest elements, which the CHOOSEs of the batches name.  *)

Less == OpToRel(<, Nat)

\* A set of naturals that is not empty has a smallest element.
LEMMA SmallestExists ==
    ASSUME NEW T \in SUBSET Nat, T # {}
    PROVE  \E n \in T : \A m \in T : n <= m
  <1>1. IsWellFoundedOn(Less, Nat)
    BY NatLessThanWellFounded DEF Less
  <1>2. PICK n \in T : \A m \in T : <<m, n>> \notin Less
    BY <1>1, WFMin
  <1>3. \A a, b \in Nat : a < b => <<a, b>> \in Less
    BY DEF Less, OpToRel
  <1>4. ASSUME NEW m \in T PROVE n <= m
    <2>1. m \in Nat /\ n \in Nat
      OBVIOUS
    <2>2. ~ (m < n)
      BY <1>2, <1>3, <2>1, Zenon
    <2>3. QED
      BY <2>1, <2>2
  <1>5. QED
    BY <1>4

\* A set of naturals that has a bound and is not empty has a greatest element.
LEMMA GreatestExists ==
    ASSUME NEW N \in Nat, NEW T \in SUBSET (0..N), T # {}
    PROVE  \E n \in T : \A m \in T : n >= m
  <1> DEFINE U == {u \in Nat : \E t \in T : u = N - t}
  <1>1. U \in SUBSET Nat /\ U # {}
    <2>1. PICK t \in T : TRUE
      OBVIOUS
    <2>2. N - t \in Nat
      OBVIOUS
    <2>3. QED
      BY <2>1, <2>2
  <1>2. PICK u \in U : \A v \in U : u <= v
    BY <1>1, SmallestExists
  <1>3. PICK n \in T : u = N - n
    BY <1>2
  <1>4. \A m \in T : n >= m
    BY <1>2, <1>3
  <1>5. QED
    BY <1>4

-----------------------------------------------------------------------------
(* The outbox.                                                             *)

\* What is about to be marked is in the stream.
MarkPublished ==
    \A d \in Dispatchers : work[d].pc = "mark" => Published(Current(d))

\* Only recorded events are in work or in the stream.
WorkRecorded ==
    /\ \A d \in Dispatchers : \A e \in work[d].batch : outbox[e].state # "absent"
    /\ \A i \in 1..Len(stream) : outbox[stream[i]].state # "absent"

\* An event in work is leased to whoever works on it, or its lease lapsed.
LeaseHeld ==
    /\ \A d \in Dispatchers : \A e \in work[d].batch :
          outbox[e].state = "pending" => outbox[e].lock = d \/ e \in lapsed
    /\ \A e \in Events : outbox[e].expired => e \in lapsed

OutboxInv ==
    /\ OutboxTypeOK
    /\ DispatchedWasPublished
    /\ LeaseExcludes
    /\ MarkPublished
    /\ WorkRecorded
    /\ LeaseHeld

OutboxRows == [state: {"absent", "pending", "dispatched"},
               lock: Dispatchers \cup {None}, expired: BOOLEAN, delayed: BOOLEAN]
Works == [pc: {"idle", "publish", "mark", "release"}, batch: SUBSET Events]

\* An empty outbox satisfies the invariant.
LEMMA OutboxInitInv == OutboxInit => OutboxInv
  <1> SUFFICES ASSUME OutboxInit PROVE OutboxInv
    OBVIOUS
  <1>1. OutboxTypeOK
    BY OutboxConstants DEF OutboxInit, OutboxTypeOK, NoRow, NoWork
  <1>2. QED
    BY <1>1 DEF OutboxInit, OutboxInv, DispatchedWasPublished, LeaseExcludes,
       MarkPublished, WorkRecorded, LeaseHeld, NoRow, NoWork

\* A dispatcher at work is at work on an event of its batch.
LEMMA CurrentInBatch ==
    ASSUME OutboxTypeOK, NEW d \in Dispatchers, work[d].pc # "idle"
    PROVE  Current(d) \in work[d].batch /\ Current(d) \in Events
  <1>1. work[d].batch \in SUBSET Events /\ work[d].batch # {}
    BY DEF OutboxTypeOK
  <1>2. work[d].batch \in SUBSET Nat
    BY <1>1, StreamConstants DEF Events
  <1>3. \E e \in work[d].batch : \A f \in work[d].batch : e <= f
    BY <1>1, <1>2, SmallestExists
  <1>4. QED
    BY <1>1, <1>3 DEF Current

\* The stream is only ever extended by recorded events.
Grows == stream' = stream \/ \E e \in Events : stream' = Append(stream, e)

\* What is in the stream stays in it, at its place.
LEMMA GrowsKeeps ==
    ASSUME stream \in Seq(Events), Grows
    PROVE  /\ stream' \in Seq(Events)
           /\ Len(stream) \in Nat /\ Len(stream') \in Nat
           /\ Len(stream') >= Len(stream)
           /\ \A i \in 1..Len(stream) : stream'[i] = stream[i]
           /\ \A e : Published(e) => Published(e)'
  <1>1. /\ stream' \in Seq(Events)
        /\ Len(stream) \in Nat /\ Len(stream') \in Nat
        /\ Len(stream') >= Len(stream)
        /\ \A i \in 1..Len(stream) : stream'[i] = stream[i]
    BY DEF Grows
  <1>2. \A e : Published(e) => Published(e)'
    BY <1>1 DEF Published
  <1>3. QED
    BY <1>1, <1>2

\* The four dispatcher steps that end work on an event drop it from the batch.
LEMMA NextEventType ==
    ASSUME OutboxTypeOK, NEW d \in Dispatchers, work[d].pc # "idle", NextEvent(d)
    PROVE  /\ work' \in [Dispatchers -> Works]
           /\ work'[d].batch = work[d].batch \ {Current(d)}
           /\ work'[d].pc # "mark"
           /\ \A x \in Dispatchers : x # d => work'[x] = work[x]
           /\ \A x \in Dispatchers : work'[x].pc = "idle" <=> work'[x].batch = {}
  <1> DEFINE rest == work[d].batch \ {Current(d)}
             w == [pc |-> IF rest = {} THEN "idle" ELSE "publish", batch |-> rest]
  <1>1. work \in [Dispatchers -> Works] /\ rest \in SUBSET Events
    BY DEF OutboxTypeOK, Works
  <1>2. w \in Works /\ w.batch = rest /\ w.pc # "mark" /\ (w.pc = "idle" <=> rest = {})
    BY <1>1 DEF Works
  <1>3. work' = [work EXCEPT ![d] = w]
    BY DEF NextEvent
  <1> HIDE DEF w, rest
  <1>4. work' \in [Dispatchers -> Works] /\ work'[d] = w
    BY <1>1, <1>2, <1>3
  <1>5. \A x \in Dispatchers : x # d => work'[x] = work[x]
    BY <1>1, <1>3
  <1>6. ASSUME NEW x \in Dispatchers
        PROVE  work'[x].pc = "idle" <=> work'[x].batch = {}
    BY <1>2, <1>4, <1>5 DEF OutboxTypeOK
  <1>7. QED
    BY <1>2, <1>4, <1>5, <1>6 DEF rest

\* The steps inside the work on an event only move the dispatcher on.
LEMMA DispatchAtType ==
    ASSUME OutboxTypeOK, NEW d \in Dispatchers, work[d].pc # "idle",
           NEW pc \in {"publish", "mark", "release"}, DispatchAt(d, pc)
    PROVE  /\ work' \in [Dispatchers -> Works]
           /\ work'[d].batch = work[d].batch /\ work'[d].pc = pc
           /\ \A x \in Dispatchers : x # d => work'[x] = work[x]
           /\ \A x \in Dispatchers : work'[x].pc = "idle" <=> work'[x].batch = {}
           /\ Current(d)' = Current(d)
  <1>1. work \in [Dispatchers -> Works] /\ work' = [work EXCEPT ![d].pc = pc]
    BY DEF OutboxTypeOK, Works, DispatchAt
  <1>2. /\ work' \in [Dispatchers -> Works]
        /\ work'[d].batch = work[d].batch /\ work'[d].pc = pc
        /\ \A x \in Dispatchers : x # d => work'[x] = work[x]
    BY <1>1 DEF Works
  <1>3. ASSUME NEW x \in Dispatchers
        PROVE  work'[x].pc = "idle" <=> work'[x].batch = {}
    BY <1>2 DEF OutboxTypeOK
  <1>4. Current(d)' = Current(d)
    BY <1>2 DEF Current
  <1>5. QED
    BY <1>2, <1>3, <1>4

\* Only dispatcher d moved, and it took no new event.
OnlyMoved(d) ==
    /\ work' \in [Dispatchers -> Works]
    /\ work'[d].batch \subseteq work[d].batch
    /\ \A x \in Dispatchers : x # d => work'[x] = work[x]
    /\ \A x \in Dispatchers : work'[x].pc = "idle" <=> work'[x].batch = {}

\* The work of the others stays as it is, what they mark included.
LEMMA MovedMarks ==
    ASSUME OutboxInv, NEW d \in Dispatchers, OnlyMoved(d), Grows,
           work'[d].pc = "mark" => Published(Current(d))'
    PROVE  MarkPublished'
  <1>1. ASSUME NEW x \in Dispatchers, x # d, work'[x].pc = "mark"
        PROVE  Published(Current(x))'
    <2>1. work[x].pc = "mark" /\ work'[x] = work[x]
      BY <1>1 DEF OnlyMoved
    <2>2. PICK e : e = Current(x)
      OBVIOUS
    <2>3. e = Current(x)'
      BY <2>1, <2>2 DEF Current
    <2>4. Published(e)
      BY <2>1, <2>2 DEF OutboxInv, MarkPublished
    <2>5. Published(e)'
      BY <2>4, GrowsKeeps DEF OutboxInv, OutboxTypeOK
    <2>6. QED
      BY <2>3, <2>5 DEF Published
  <1>2. QED
    BY <1>1 DEF MarkPublished

\* A step that leaves the rows alone.
LEMMA MoveKeepsOutbox ==
    ASSUME OutboxInv, NEW d \in Dispatchers, OnlyMoved(d),
           \/ UNCHANGED stream
           \/ Current(d) \in work[d].batch /\ stream' = Append(stream, Current(d)),
           UNCHANGED <<outbox, lapsed>>, faults' \in 0..MaxFaults,
           work'[d].pc = "mark" => Published(Current(d))'
    PROVE  OutboxInv'
  <1>1. stream \in Seq(Events) /\ work \in [Dispatchers -> Works]
    BY DEF OutboxInv, OutboxTypeOK, Works
  <1>2. Grows
    BY <1>1 DEF Grows, Works
  <1>3. MarkPublished'
    BY <1>2, MovedMarks
  <1>4. /\ stream' \in Seq(Events)
        /\ \A e : Published(e) => Published(e)'
        /\ \A i \in 1..Len(stream) : stream'[i] = stream[i]
    BY <1>1, <1>2, GrowsKeeps
  <1>5. OutboxTypeOK'
    BY <1>4 DEF OutboxInv, OutboxTypeOK, OnlyMoved, Works
  <1>6. DispatchedWasPublished'
    BY <1>4 DEF OutboxInv, DispatchedWasPublished
  <1>7. \A x \in Dispatchers : work'[x].batch \subseteq work[x].batch
    BY DEF OnlyMoved
  <1>8. LeaseExcludes' /\ LeaseHeld'
    BY <1>7 DEF OutboxInv, LeaseExcludes, LeaseHeld
  <1>9. WorkRecorded'
    <2>1. \A x \in Dispatchers : \A e \in work'[x].batch : outbox'[e].state # "absent"
      BY <1>7 DEF OutboxInv, WorkRecorded
    <2>2. \A i \in 1..Len(stream') : outbox'[stream'[i]].state # "absent"
      <3>1. CASE UNCHANGED stream
        BY <3>1 DEF OutboxInv, WorkRecorded
      <3>2. CASE Current(d) \in work[d].batch /\ stream' = Append(stream, Current(d))
        <4>1. outbox[Current(d)].state # "absent"
          BY <3>2 DEF OutboxInv, WorkRecorded
        <4>2. \A i \in 1..Len(stream') :
                 stream'[i] = Current(d)
                 \/ (i \in 1..Len(stream) /\ stream'[i] = stream[i])
          BY <1>1, <3>2
        <4>3. QED
          BY <4>1, <4>2 DEF OutboxInv, WorkRecorded
      <3>3. QED
        BY <3>1, <3>2
    <2>3. QED
      BY <2>1, <2>2 DEF WorkRecorded
  <1>10. QED
    BY <1>3, <1>5, <1>6, <1>8, <1>9 DEF OutboxInv

\* A fault is counted, and allowed.
LEMMA FaultType == ASSUME OutboxTypeOK, Fault PROVE faults' \in 0..MaxFaults
  BY OutboxConstants DEF OutboxTypeOK, Fault

\* The steps of a dispatcher that leave the rows alone.
LEMMA QuietDispatch ==
    ASSUME OutboxInv, NEW d \in Dispatchers,
           \/ publish(d) \/ publishThrows(d) \/ markTooLate(d) \/ markThrows(d)
           \/ releaseThrows(d) \/ dispatcherDies(d)
    PROVE  OutboxInv' /\ Grows /\ UNCHANGED outbox
  <1>1. OutboxTypeOK /\ work[d].pc # "idle" /\ UNCHANGED <<outbox, lapsed>>
    BY DEF OutboxInv, publish, publishThrows, markTooLate, markThrows,
       releaseThrows, dispatcherDies
  <1>2. Current(d) \in work[d].batch /\ Current(d) \in Events
    BY <1>1, CurrentInBatch
  <1>3. UNCHANGED stream \/ stream' = Append(stream, Current(d))
    BY DEF publish, publishThrows, markTooLate, markThrows, releaseThrows,
       dispatcherDies
  <1>4. faults' \in 0..MaxFaults
    BY <1>1, FaultType DEF OutboxTypeOK, publish, publishThrows, markTooLate,
       markThrows, releaseThrows, dispatcherDies
  <1>5. OnlyMoved(d) /\ (work'[d].pc = "mark" => Published(Current(d))')
    <2>1. CASE publish(d)
      <3>1. DispatchAt(d, "mark") /\ stream' = Append(stream, Current(d))
        BY <2>1 DEF publish
      <3>2. OnlyMoved(d) /\ Current(d)' = Current(d)
        BY <1>1, <3>1, DispatchAtType DEF OnlyMoved
      <3>3. stream \in Seq(Events)
        BY <1>1 DEF OutboxTypeOK
      <3>4. Len(stream') \in 1..Len(stream') /\ stream'[Len(stream')] = Current(d)
        BY <1>2, <3>1, <3>3
      <3>5. QED
        BY <3>2, <3>4 DEF Published
    <2>2. CASE publishThrows(d) \/ markTooLate(d) \/ markThrows(d)
      <3>1. DispatchAt(d, "release")
        BY <2>2 DEF publishThrows, markTooLate, markThrows
      <3>2. QED
        BY <1>1, <3>1, DispatchAtType DEF OnlyMoved
    <2>3. CASE releaseThrows(d)
      BY <1>1, <2>3, NextEventType DEF OnlyMoved, releaseThrows
    <2>4. CASE dispatcherDies(d)
      <3>1. work \in [Dispatchers -> Works] /\ NoWork \in Works
        BY <1>1 DEF OutboxTypeOK, Works, NoWork
      <3>2. /\ work' \in [Dispatchers -> Works] /\ work'[d] = NoWork
            /\ \A x \in Dispatchers : x # d => work'[x] = work[x]
        BY <2>4, <3>1 DEF dispatcherDies
      <3>3. NoWork.pc = "idle" /\ NoWork.batch = {}
        BY DEF NoWork
      <3>4. QED
        BY <1>1, <3>2, <3>3 DEF OnlyMoved, OutboxTypeOK
    <2>5. QED
      BY <2>1, <2>2, <2>3, <2>4
  <1>6. OutboxInv'
    BY <1>1, <1>2, <1>3, <1>4, <1>5, MoveKeepsOutbox
  <1>7. QED
    BY <1>1, <1>2, <1>3, <1>6 DEF Grows

\* The steps of the domain and of the clocks.
LEMMA RowKeepsOutbox ==
    ASSUME OutboxInv, NEW e \in Events,
           record(e) \/ leaseExpires(e) \/ delayEnds(e)
    PROVE  OutboxInv' /\ Grows
           /\ \A f \in Events : outbox[f].state # "absent" => outbox'[f].state # "absent"
  <1>1. /\ outbox \in [Events -> OutboxRows] /\ work \in [Dispatchers -> Works]
        /\ stream \in Seq(Events) /\ OutboxTypeOK
    BY DEF OutboxInv, OutboxTypeOK, OutboxRows, Works
  <1>2. UNCHANGED <<work, stream, faults>>
    BY DEF record, leaseExpires, delayEnds
  <1>3. /\ outbox' \in [Events -> OutboxRows]
        /\ \A f \in Events :
              /\ outbox'[f].lock = outbox[f].lock
              /\ outbox'[f].state = outbox[f].state
                 \/ (outbox[f].state = "absent" /\ outbox'[f].state = "pending")
              /\ outbox'[f].expired => outbox[f].expired \/ f \in lapsed'
        /\ lapsed \subseteq lapsed' /\ lapsed' \subseteq Events
    <2>1. CASE record(e)
      BY <1>1, <2>1 DEF record, OutboxRows, OutboxTypeOK
    <2>2. CASE leaseExpires(e)
      BY <1>1, <2>2 DEF leaseExpires, OutboxRows, OutboxTypeOK
    <2>3. CASE delayEnds(e)
      BY <1>1, <2>3 DEF delayEnds, OutboxRows, OutboxTypeOK
    <2>4. QED
      BY <2>1, <2>2, <2>3
  <1>4. \A d \in Dispatchers : work[d].batch \subseteq Events
    BY <1>1 DEF Works
  <1>5. OutboxTypeOK'
    BY <1>2, <1>3 DEF OutboxInv, OutboxTypeOK, OutboxRows
  <1>6. DispatchedWasPublished' /\ MarkPublished'
    BY <1>2, <1>3 DEF OutboxInv, DispatchedWasPublished, MarkPublished, Published,
       Current
  <1>7. LeaseExcludes'
    BY <1>2, <1>3 DEF OutboxInv, LeaseExcludes
  <1>8. WorkRecorded'
    <2>1. \A i \in 1..Len(stream) : stream[i] \in Events
      BY <1>1
    <2>2. QED
      BY <1>2, <1>3, <1>4, <2>1 DEF OutboxInv, WorkRecorded
  <1>9. LeaseHeld'
    <2>1. \A d \in Dispatchers : \A f \in work[d].batch : outbox[f].state # "absent"
      BY DEF OutboxInv, WorkRecorded
    <2>2. QED
      BY <1>2, <1>3, <1>4, <2>1 DEF OutboxInv, LeaseHeld
  <1>10. QED
    BY <1>2, <1>3, <1>5, <1>6, <1>7, <1>8, <1>9 DEF OutboxInv, Grows

\* A claim takes what is free, or what has lapsed.
LEMMA ClaimKeepsOutbox ==
    ASSUME OutboxInv, NEW d \in Dispatchers, claimOutbox(d)
    PROVE  OutboxInv' /\ Grows
           /\ \A e \in Events : outbox'[e].state = outbox[e].state
  <1> DEFINE w == [pc |-> "publish", batch |-> Batch]
  <1>1. /\ outbox \in [Events -> OutboxRows] /\ work \in [Dispatchers -> Works]
        /\ stream \in Seq(Events) /\ Batch \in SUBSET Events
    BY DEF OutboxInv, OutboxTypeOK, OutboxRows, Works, Batch
  <1>2. /\ UNCHANGED <<stream, faults, lapsed>> /\ Batch # {}
        /\ work[d].pc = "idle" /\ work' = [work EXCEPT ![d] = w]
    BY DEF claimOutbox
  <1>3. w \in Works /\ w.pc = "publish" /\ w.batch = Batch
    BY <1>1 DEF Works
  <1>4. \A e \in Batch : /\ outbox[e].state = "pending"
                         /\ outbox[e].lock = None \/ outbox[e].expired
    BY DEF Batch, Claimable
  <1> HIDE DEF w
  <1>5. /\ work' \in [Dispatchers -> Works] /\ work'[d] = w
        /\ \A x \in Dispatchers : x # d => work'[x] = work[x]
    BY <1>1, <1>2, <1>3
  <1>6. /\ outbox' \in [Events -> OutboxRows]
        /\ \A e \in Events :
              /\ outbox'[e].state = outbox[e].state
              /\ e \in Batch => outbox'[e].lock = d /\ outbox'[e].expired = FALSE
              /\ e \notin Batch => outbox'[e] = outbox[e]
    <2>1. \A e \in Events : outbox'[e] = IF e \in Batch
                               THEN [outbox[e] EXCEPT !.lock = d, !.expired = FALSE]
                               ELSE outbox[e]
      BY DEF claimOutbox
    <2>2. DOMAIN outbox' = Events
      BY DEF claimOutbox
    <2>3. ASSUME NEW e \in Events
          PROVE  /\ outbox'[e] \in OutboxRows
                 /\ outbox'[e].state = outbox[e].state
                 /\ e \in Batch => outbox'[e].lock = d /\ outbox'[e].expired = FALSE
                 /\ e \notin Batch => outbox'[e] = outbox[e]
      <3>1. outbox[e] \in OutboxRows
        BY <1>1
      <3>2. [outbox[e] EXCEPT !.lock = d, !.expired = FALSE] \in OutboxRows
        BY <3>1 DEF OutboxRows
      <3>3. QED
        BY <2>1, <3>1, <3>2 DEF OutboxRows
    <2>4. outbox' = [e \in Events |-> outbox'[e]]
      BY DEF claimOutbox
    <2>5. QED
      BY <2>3, <2>4
  <1>7. OutboxTypeOK'
    <2>1. \A x \in Dispatchers : work'[x].pc = "idle" <=> work'[x].batch = {}
      BY <1>2, <1>3, <1>5 DEF OutboxInv, OutboxTypeOK
    <2>2. QED
      BY <1>1, <1>2, <1>5, <1>6, <2>1 DEF OutboxInv, OutboxTypeOK, OutboxRows, Works
  <1>8. DispatchedWasPublished'
    BY <1>2, <1>6 DEF OutboxInv, DispatchedWasPublished, Published
  <1>9. MarkPublished'
    <2>1. ASSUME NEW x \in Dispatchers, work'[x].pc = "mark"
          PROVE  Published(Current(x))'
      <3>1. work'[x] = work[x] /\ work[x].pc = "mark"
        BY <1>3, <1>5, <2>1
      <3>2. Current(x)' = Current(x)
        BY <3>1 DEF Current
      <3>3. Published(Current(x))
        BY <3>1 DEF OutboxInv, MarkPublished
      <3>4. QED
        BY <1>2, <3>2, <3>3 DEF Published
    <2>2. QED
      BY <2>1 DEF MarkPublished
  <1>10. ASSUME NEW x \in Dispatchers, x # d, NEW e \in work[x].batch, e \in Batch
         PROVE  e \in lapsed
    <2>1. e \in Events /\ (outbox[e].lock = x \/ e \in lapsed)
      BY <1>1, <1>4, <1>10 DEF OutboxInv, LeaseHeld
    <2>2. outbox[e].expired => e \in lapsed
      BY <2>1 DEF OutboxInv, LeaseHeld
    <2>3. QED
      BY <1>4, <1>10, <2>1, <2>2, OutboxConstants
  <1>11. LeaseExcludes'
    <2>1. ASSUME NEW e \in Events, NEW x \in Dispatchers, NEW y \in Dispatchers,
                 x # y, e \in work'[x].batch, e \in work'[y].batch
          PROVE  e \in lapsed
      <3>1. CASE x = d
        BY <1>3, <1>5, <1>10, <2>1, <3>1
      <3>2. CASE y = d
        BY <1>3, <1>5, <1>10, <2>1, <3>2
      <3>3. CASE x # d /\ y # d
        BY <1>5, <2>1, <3>3 DEF OutboxInv, LeaseExcludes
      <3>4. QED
        BY <3>1, <3>2, <3>3
    <2>2. QED
      BY <1>2, <2>1 DEF LeaseExcludes
  <1>12. WorkRecorded'
    <2>1. \A i \in 1..Len(stream) : stream[i] \in Events
      BY <1>1
    <2>2. \A i \in 1..Len(stream') : outbox'[stream'[i]].state # "absent"
      BY <1>2, <1>6, <2>1 DEF OutboxInv, WorkRecorded
    <2>3. ASSUME NEW x \in Dispatchers, NEW e \in work'[x].batch
          PROVE  outbox'[e].state # "absent"
      <3>1. e \in Events /\ outbox[e].state # "absent"
        BY <1>1, <1>3, <1>4, <1>5 DEF OutboxInv, WorkRecorded, Works
      <3>2. QED
        BY <1>6, <3>1
    <2>4. QED
      BY <2>2, <2>3 DEF WorkRecorded
  <1>13. LeaseHeld'
    <2>1. ASSUME NEW x \in Dispatchers, NEW e \in work'[x].batch,
                 outbox'[e].state = "pending"
          PROVE  outbox'[e].lock = x \/ e \in lapsed'
      <3>1. e \in Events
        BY <1>5 DEF Works
      <3>2. CASE x = d
        BY <1>3, <1>5, <1>6, <3>1, <3>2
      <3>3. CASE x # d /\ e \in Batch
        BY <1>2, <1>5, <1>10, <3>3
      <3>4. CASE x # d /\ e \notin Batch
        BY <1>2, <1>5, <1>6, <2>1, <3>1, <3>4 DEF OutboxInv, LeaseHeld
      <3>5. QED
        BY <3>2, <3>3, <3>4
    <2>2. \A e \in Events : outbox'[e].expired => e \in lapsed'
      BY <1>2, <1>6 DEF OutboxInv, LeaseHeld
    <2>3. QED
      BY <2>1, <2>2 DEF LeaseHeld
  <1>14. QED
    BY <1>2, <1>6, <1>7, <1>8, <1>9, <1>11, <1>12, <1>13 DEF OutboxInv, Grows

\* A mark and a release end the work of d on one row, which they write.
LEMMA EndKeepsOutbox ==
    ASSUME OutboxInv, NEW d \in Dispatchers,
           markOutboxDispatched(d) \/ releaseOutbox(d)
    PROVE  OutboxInv' /\ Grows
           /\ \A f \in Events : outbox[f].state # "absent" => outbox'[f].state # "absent"
  <1> DEFINE e == Current(d)
  <1>1. /\ outbox \in [Events -> OutboxRows] /\ work \in [Dispatchers -> Works]
        /\ stream \in Seq(Events) /\ OutboxTypeOK
    BY DEF OutboxInv, OutboxTypeOK, OutboxRows, Works
  <1>2. /\ work[d].pc # "idle" /\ UNCHANGED <<stream, faults>> /\ NextEvent(d)
    BY DEF markOutboxDispatched, releaseOutbox
  <1>3. e \in work[d].batch /\ e \in Events
    BY <1>1, <1>2, CurrentInBatch
  <1>4. /\ OnlyMoved(d) /\ work'[d].pc # "mark"
        /\ work'[d].batch = work[d].batch \ {e}
    BY <1>1, <1>2, NextEventType DEF OnlyMoved
  <1>5. MarkPublished'
    BY <1>2, <1>4, MovedMarks DEF Grows
  <1> HIDE DEF e
  <1>6. ASSUME NEW x \in Dispatchers
        PROVE  /\ work'[x].batch \subseteq work[x].batch
               /\ x # d => work'[x] = work[x]
    BY <1>4 DEF OnlyMoved
  <1>7. \A i \in 1..Len(stream) : stream[i] \in Events
    BY <1>1
  <1>8. CASE markOutboxDispatched(d)
    <2>1. /\ outbox[e].state = "pending" /\ work[d].pc = "mark"
          /\ outbox' = [outbox EXCEPT ![e].state = "dispatched", ![e].lock = None]
          /\ UNCHANGED lapsed
      BY <1>8 DEF markOutboxDispatched, e
    <2>2. /\ outbox' \in [Events -> OutboxRows] /\ outbox'[e].state = "dispatched"
          /\ outbox'[e].expired = outbox[e].expired
          /\ \A f \in Events : f # e => outbox'[f] = outbox[f]
      BY <1>1, <1>3, <2>1 DEF OutboxRows
    <2>3. OutboxTypeOK'
      BY <1>1, <1>2, <1>4, <2>1, <2>2 DEF OutboxTypeOK, OutboxRows, OnlyMoved, Works
    <2>4. Published(e)
      BY <2>1 DEF OutboxInv, MarkPublished, e
    <2>5. DispatchedWasPublished'
      BY <1>2, <2>2, <2>4 DEF OutboxInv, DispatchedWasPublished, Published
    <2>6. LeaseExcludes'
      BY <1>6, <2>1 DEF OutboxInv, LeaseExcludes
    <2>7. WorkRecorded'
      BY <1>1, <1>2, <1>6, <1>7, <2>2 DEF OutboxInv, WorkRecorded, Works
    <2>8. LeaseHeld'
      BY <1>1, <1>6, <2>1, <2>2 DEF OutboxInv, LeaseHeld, Works
    <2>9. QED
      BY <1>2, <1>5, <2>2, <2>3, <2>5, <2>6, <2>7, <2>8 DEF OutboxInv, Grows
  <1>9. CASE releaseOutbox(d) /\ outbox[e].state # "pending"
    <2>1. UNCHANGED <<outbox, lapsed>>
      BY <1>9 DEF releaseOutbox, e
    <2>2. faults' \in 0..MaxFaults
      BY <1>1, <1>2 DEF OutboxTypeOK
    <2>3. QED
      BY <1>2, <1>4, <2>1, <2>2, MoveKeepsOutbox DEF Grows
  <1>10. CASE releaseOutbox(d) /\ outbox[e].state = "pending"
    <2>1. /\ outbox' = [outbox EXCEPT ![e] = Released(@)]
          /\ lapsed' = IF outbox[e].lock = d THEN lapsed ELSE lapsed \cup {e}
      BY <1>10 DEF releaseOutbox, e
    <2>2. /\ outbox' \in [Events -> OutboxRows]
          /\ outbox'[e].state = "pending" /\ outbox'[e].expired = FALSE
          /\ \A f \in Events : f # e => outbox'[f] = outbox[f]
      <3>1. outbox[e] \in OutboxRows
        BY <1>1, <1>3
      <3>2. /\ Released(outbox[e]) \in OutboxRows
            /\ Released(outbox[e]).state = outbox[e].state
            /\ Released(outbox[e]).expired = FALSE
        BY <3>1 DEF Released, OutboxRows
      <3>3. QED
        BY <1>1, <1>3, <1>10, <2>1, <3>2
    <2>3. lapsed \subseteq lapsed' /\ lapsed' \subseteq Events
      BY <1>1, <1>3, <2>1 DEF OutboxTypeOK
    <2>4. OutboxTypeOK'
      BY <1>1, <1>2, <1>4, <2>2, <2>3 DEF OutboxTypeOK, OutboxRows, OnlyMoved, Works
    <2>5. DispatchedWasPublished'
      BY <1>2, <2>2 DEF OutboxInv, DispatchedWasPublished, Published
    <2>6. LeaseExcludes'
      BY <1>6, <2>3 DEF OutboxInv, LeaseExcludes
    <2>7. WorkRecorded'
      BY <1>1, <1>2, <1>6, <1>7, <2>2 DEF OutboxInv, WorkRecorded, Works
    <2>8. LeaseHeld'
      <3>1. ASSUME NEW x \in Dispatchers, NEW f \in work'[x].batch,
                   outbox'[f].state = "pending"
            PROVE  outbox'[f].lock = x \/ f \in lapsed'
        <4>1. f \in work[x].batch /\ f \in Events
          BY <1>1, <1>6 DEF Works
        <4>2. CASE f = e
          <5>1. x # d
            BY <1>4, <4>2
          <5>2. outbox[e].lock = x \/ e \in lapsed
            BY <1>10, <4>1, <4>2 DEF OutboxInv, LeaseHeld
          <5>3. QED
            BY <2>1, <4>2, <5>1, <5>2
        <4>3. CASE f # e
          BY <2>2, <2>3, <3>1, <4>1, <4>3 DEF OutboxInv, LeaseHeld
        <4>4. QED
          BY <4>2, <4>3
      <3>2. \A f \in Events : outbox'[f].expired => f \in lapsed'
        BY <2>2, <2>3 DEF OutboxInv, LeaseHeld
      <3>3. QED
        BY <3>1, <3>2 DEF LeaseHeld
    <2>9. QED
      BY <1>2, <1>5, <1>10, <2>2, <2>4, <2>5, <2>6, <2>7, <2>8 DEF OutboxInv, Grows
  <1>11. QED
    BY <1>8, <1>9, <1>10

\* Every step of the outbox keeps its invariant, extends the stream if it
\* touches it, and takes no recorded event back.
LEMMA OutboxStepInv ==
    ASSUME OutboxInv, OutboxStep
    PROVE  OutboxInv' /\ Grows
           /\ \A f \in Events : outbox[f].state # "absent" => outbox'[f].state # "absent"
  <1>1. ASSUME NEW d \in Dispatchers, Dispatch(d) \/ OutboxFaults(d)
        PROVE  OutboxInv' /\ Grows
               /\ \A f \in Events : outbox[f].state # "absent" => outbox'[f].state # "absent"
    <2>1. CASE claimOutbox(d)
      BY <2>1, ClaimKeepsOutbox
    <2>2. CASE markOutboxDispatched(d) \/ releaseOutbox(d)
      BY <2>2, EndKeepsOutbox
    <2>3. CASE \/ publish(d) \/ publishThrows(d) \/ markTooLate(d) \/ markThrows(d)
               \/ releaseThrows(d) \/ dispatcherDies(d)
      BY <2>3, QuietDispatch
    <2>4. QED
      BY <1>1, <2>1, <2>2, <2>3 DEF Dispatch, OutboxFaults
  <1>2. QED
    BY <1>1, RowKeepsOutbox DEF OutboxStep

\* The consumers leave the outbox and the stream alone.
LEMMA OutboxStutterInv ==
    ASSUME OutboxInv, UNCHANGED <<outboxVars, stream>> PROVE OutboxInv'
  BY DEF OutboxInv, outboxVars, OutboxTypeOK, DispatchedWasPublished, LeaseExcludes,
     MarkPublished, WorkRecorded, LeaseHeld, Published, Current

-----------------------------------------------------------------------------
(* The consumer group.                                                     *)

Steps == {"idle", "count", "reserve", "ackDuplicate", "handle", "release",
          "retry", "quarantine", "ack"}
Jobs == [pc: Steps, batch: SUBSET Entries, attempt: 0..MaxAttempts,
         reserved: BOOLEAN]
Pendings == [owner: Consumers \cup {None}, idle: BOOLEAN]

\* The types, and that nothing beyond what was read is in anybody's hands.
GroupTypeOK ==
    /\ stream \in Seq(Events)
    /\ read \in 0..Len(stream) /\ read <= MaxEntries
    /\ pending \in [Entries -> Pendings]
    /\ attempts \in [Entries -> 0..MaxAttempts]
    /\ reserved \subseteq Events
    /\ dlq \in [Entries -> 0..2]
    /\ job \in [Consumers -> Jobs]
    /\ handled \in [Events -> 0..2]
    /\ settled \subseteq 1..read
    /\ stops \in 0..MaxStops
    /\ \A c \in Consumers : /\ job[c].batch \subseteq 1..read
                            /\ job[c].pc = "idle" <=> job[c].batch = {}
    /\ \A n \in Entries : /\ pending[n].owner # None => n <= read
                          /\ dlq[n] > 0 => n <= read

\* A consumer that holds its event's reservation.
Holds(c) == job[c].pc \in {"handle", "release"}

\* With an idempotency store: whoever may run the handler holds the only
\* reservation of the event, which has not taken effect; an event that has
\* taken effect stays reserved.
OnceInv ==
    /\ \A c \in Consumers : Holds(c) =>
          /\ job[c].reserved
          /\ EventOf(c) \in reserved
          /\ handled[EventOf(c)] = 0
    /\ \A c, x \in Consumers : c # x /\ Holds(c) /\ Holds(x) => EventOf(c) # EventOf(x)
    /\ \A e \in Events : handled[e] > 0 => e \in reserved

\* Without one: an entry is acknowledged by whoever handled or parked it.
LossInv ==
    /\ \A c \in Consumers :
          /\ job[c].pc \in {"idle", "count", "handle", "retry", "quarantine", "ack"}
          /\ job[c].reserved = FALSE
          /\ job[c].pc = "ack" => Entry(c) \in settled
    /\ AcknowledgedIsSettled

\* A delivery has counted itself, and the counter of an entry never falls
\* while the entry is pending.
TriedInv ==
    /\ \A c \in Consumers :
          /\ job[c].pc \notin {"idle", "count"} /\ pending[Entry(c)].owner # None
             => attempts[Entry(c)] >= job[c].attempt
          /\ job[c].pc = "quarantine" => job[c].attempt >= MaxAttempts
    /\ QuarantinedWasTried

GroupInv ==
    /\ GroupTypeOK
    /\ Deduplicates => OnceInv
    /\ ~Deduplicates => LossInv
    /\ TriedInv

\* An idle group satisfies the invariant.
LEMMA GroupInitInv == ConsumerInit => GroupInv
  <1> SUFFICES ASSUME ConsumerInit PROVE GroupInv
    OBVIOUS
  <1>1. NoJob \in Jobs /\ NotPending \in Pendings
    BY ConsumerConstants DEF NoJob, NotPending, Jobs, Pendings, Steps
  <1>2. GroupTypeOK
    BY <1>1, ConsumerConstants DEF ConsumerInit, GroupTypeOK, NoJob, NotPending
  <1>3. OnceInv /\ LossInv /\ TriedInv
    BY DEF ConsumerInit, OnceInv, LossInv, TriedInv, Holds, NoJob, NotPending,
       AcknowledgedIsSettled, QuarantinedWasTried
  <1>4. QED
    BY <1>2, <1>3 DEF GroupInv

\* A consumer at work is at work on an entry that was read.
LEMMA EntryInBatch ==
    ASSUME GroupTypeOK, NEW c \in Consumers, job[c].pc # "idle"
    PROVE  /\ Entry(c) \in job[c].batch /\ Entry(c) \in 1..read
           /\ Entry(c) \in Entries /\ Entry(c) \in 1..Len(stream)
           /\ EventOf(c) \in Events /\ EventOf(c) = stream[Entry(c)]
  <1>1. job[c].batch \in SUBSET Nat /\ job[c].batch # {}
    BY DEF GroupTypeOK
  <1>2. \E n \in job[c].batch : \A m \in job[c].batch : n <= m
    BY <1>1, SmallestExists
  <1>3. Entry(c) \in job[c].batch
    BY <1>2 DEF Entry, Lowest
  <1>4. Entry(c) \in 1..read
    BY <1>3 DEF GroupTypeOK
  <1>5. /\ read \in 0..Len(stream) /\ read <= MaxEntries
        /\ stream \in Seq(Events) /\ Len(stream) \in Nat
    BY DEF GroupTypeOK
  <1>6. Entry(c) \in Entries /\ Entry(c) \in 1..Len(stream)
    BY <1>4, <1>5, ConsumerConstants DEF Entries
  <1>7. QED
    BY <1>3, <1>4, <1>5, <1>6 DEF EventOf

\* Only consumer c moved, to job j.
MovedTo(c, j) ==
    /\ j \in Jobs
    /\ job' = [job EXCEPT ![c] = j]

\* A move inside the delivery of an entry.
LEMMA MoveStays ==
    ASSUME GroupTypeOK, NEW c \in Consumers, NEW j, MovedTo(c, j),
           j.batch = job[c].batch, UNCHANGED stream
    PROVE  /\ job' \in [Consumers -> Jobs] /\ job'[c] = j
           /\ Entry(c)' = Entry(c) /\ EventOf(c)' = EventOf(c)
           /\ \A x \in Consumers : x # c => job'[x] = job[x]
           /\ \A x \in Consumers : x # c =>
                 Entry(x)' = Entry(x) /\ EventOf(x)' = EventOf(x)
  <1>1. job \in [Consumers -> Jobs]
    BY DEF GroupTypeOK
  <1>2. /\ job' \in [Consumers -> Jobs] /\ job'[c] = j
        /\ \A x \in Consumers : x # c => job'[x] = job[x]
    BY <1>1 DEF MovedTo
  <1>3. \A x \in Consumers : job'[x].batch = job[x].batch
    BY <1>2
  <1>4. \A x \in Consumers : Entry(x)' = Entry(x)
    BY <1>3 DEF Entry
  <1>5. \A x \in Consumers : EventOf(x)' = EventOf(x)
    BY <1>4 DEF EventOf
  <1>6. QED
    BY <1>2, <1>4, <1>5

\* A move that ends the delivery of an entry, or takes a new batch.
LEMMA MoveTurns ==
    ASSUME GroupTypeOK, NEW c \in Consumers, NEW j, MovedTo(c, j), UNCHANGED stream
    PROVE  /\ job' \in [Consumers -> Jobs] /\ job'[c] = j
           /\ \A x \in Consumers : x # c => job'[x] = job[x]
           /\ \A x \in Consumers : x # c =>
                 Entry(x)' = Entry(x) /\ EventOf(x)' = EventOf(x)
  <1>1. job \in [Consumers -> Jobs]
    BY DEF GroupTypeOK
  <1>2. /\ job' \in [Consumers -> Jobs] /\ job'[c] = j
        /\ \A x \in Consumers : x # c => job'[x] = job[x]
    BY <1>1 DEF MovedTo
  <1>3. \A x \in Consumers : x # c => Entry(x)' = Entry(x)
    BY <1>2 DEF Entry
  <1>4. \A x \in Consumers : x # c => EventOf(x)' = EventOf(x)
    BY <1>3 DEF EventOf
  <1>5. QED
    BY <1>2, <1>3, <1>4

\* Consumer c moved on, to step pc of the same delivery, or out of it.
Others(c) ==
    /\ job' \in [Consumers -> Jobs]
    /\ \A x \in Consumers : x # c =>
          job'[x] = job[x] /\ Entry(x)' = Entry(x) /\ EventOf(x)' = EventOf(x)
Stays(c) ==
    /\ Others(c)
    /\ job[c].pc # "idle" /\ job'[c].pc # "idle"
    /\ job'[c].batch = job[c].batch
    /\ Entry(c)' = Entry(c) /\ EventOf(c)' = EventOf(c)
Turns(c) ==
    /\ Others(c)
    /\ job'[c].pc \in {"idle", "count"}
    /\ job'[c].pc = "idle" <=> job'[c].batch = {}
    /\ job'[c].reserved = FALSE

\* A delivery that goes on keeps its entry, its attempt and its reservation.
LEMMA DeliveryStays ==
    ASSUME GroupTypeOK, NEW c \in Consumers, NEW pc \in Steps \ {"idle"},
           job[c].pc # "idle", DeliveryAt(c, pc), UNCHANGED stream
    PROVE  /\ Stays(c) /\ job'[c].pc = pc
           /\ job'[c].attempt = job[c].attempt /\ job'[c].reserved = job[c].reserved
  <1> DEFINE j == [job[c] EXCEPT !.pc = pc]
  <1>1. job[c] \in Jobs /\ job' = [job EXCEPT ![c] = j]
    BY DEF GroupTypeOK, DeliveryAt
  <1>2. /\ j \in Jobs /\ j.pc = pc /\ j.batch = job[c].batch
        /\ j.attempt = job[c].attempt /\ j.reserved = job[c].reserved
    BY <1>1 DEF Jobs
  <1> HIDE DEF j
  <1>3. MovedTo(c, j)
    BY <1>1, <1>2 DEF MovedTo
  <1>4. QED
    BY <1>2, <1>3, MoveStays DEF Stays, Others

\* The end of a delivery leaves the rest of the batch.
LEMMA EntryTurns ==
    ASSUME GroupTypeOK, NEW c \in Consumers, job[c].pc # "idle", NextEntry(c),
           UNCHANGED stream
    PROVE  Turns(c) /\ job'[c].batch \subseteq job[c].batch
  <1> DEFINE rest == job[c].batch \ {Entry(c)}
             j == IF rest = {} THEN NoJob
                  ELSE [NoJob EXCEPT !.pc = "count", !.batch = rest]
  <1>1. job[c] \in Jobs /\ job' = [job EXCEPT ![c] = j]
    BY DEF GroupTypeOK, NextEntry
  <1>2. rest \in SUBSET Entries /\ rest \subseteq job[c].batch
    BY <1>1 DEF Jobs
  <1> HIDE DEF rest
  <1>3. /\ j \in Jobs /\ j.pc \in {"idle", "count"} /\ j.reserved = FALSE
        /\ j.pc = "idle" <=> j.batch = {}
        /\ j.batch \subseteq rest
    <2>1. CASE rest = {}
      BY <1>2, <2>1, ConsumerConstants DEF NoJob, Jobs, Steps
    <2>2. CASE rest # {}
      <3>1. j = [pc |-> "count", batch |-> rest, attempt |-> 0, reserved |-> FALSE]
        BY <2>2 DEF NoJob
      <3> HIDE DEF j
      <3>2. /\ j.pc = "count" /\ j.batch = rest /\ j.reserved = FALSE
            /\ j \in Jobs
        BY <1>2, <3>1, ConsumerConstants DEF Jobs, Steps
      <3>3. QED
        BY <2>2, <3>2
    <2>3. QED
      BY <2>1, <2>2
  <1> HIDE DEF j
  <1>4. MovedTo(c, j)
    BY <1>1, <1>3 DEF MovedTo
  <1>5. QED
    BY <1>2, <1>3, <1>4, MoveTurns DEF Turns, Others

\* A consumer that stops lets go of its batch.
LEMMA StopTurns ==
    ASSUME GroupTypeOK, NEW c \in Consumers, stop(c)
    PROVE  Turns(c) /\ job'[c].batch \subseteq job[c].batch
  <1>1. /\ NoJob \in Jobs /\ NoJob.pc = "idle" /\ NoJob.batch = {}
        /\ NoJob.reserved = FALSE
    BY ConsumerConstants DEF NoJob, Jobs, Steps
  <1>2. MovedTo(c, NoJob) /\ UNCHANGED stream
    BY <1>1 DEF MovedTo, stop
  <1>3. QED
    BY <1>1, <1>2, MoveTurns DEF Turns, Others

\* Counting an attempt keeps the entry, and no counter falls.
LEMMA CountStays ==
    ASSUME GroupTypeOK, NEW c \in Consumers, countAttempt(c)
    PROVE  /\ Stays(c)
           /\ job'[c].pc = IF Deduplicates THEN "reserve" ELSE "handle"
           /\ job'[c].attempt = Counted(attempts[Entry(c)])
           /\ job'[c].reserved = job[c].reserved
           /\ Counted(attempts[Entry(c)]) \in 0..MaxAttempts
           /\ Counted(attempts[Entry(c)]) >= attempts[Entry(c)]
  <1> DEFINE k == Counted(attempts[Entry(c)])
             p == IF Deduplicates THEN "reserve" ELSE "handle"
             j == [job[c] EXCEPT !.pc = p, !.attempt = k]
  <1>1. /\ job[c] \in Jobs /\ job[c].pc = "count" /\ UNCHANGED stream
        /\ job' = [job EXCEPT ![c] = j]
    BY DEF GroupTypeOK, countAttempt
  <1>2. Entry(c) \in Entries
    BY <1>1, EntryInBatch
  <1>3. k \in 0..MaxAttempts /\ k >= attempts[Entry(c)]
    BY <1>2, ConsumerConstants DEF GroupTypeOK, Counted
  <1>4. p \in Steps /\ p # "idle"
    BY DEF Steps
  <1> HIDE DEF k, p
  <1>5. /\ j \in Jobs /\ j.pc = p /\ j.batch = job[c].batch /\ j.attempt = k
        /\ j.reserved = job[c].reserved
    BY <1>1, <1>3, <1>4 DEF Jobs
  <1> HIDE DEF j
  <1>6. MovedTo(c, j)
    BY <1>1, <1>5 DEF MovedTo
  <1>7. Stays(c) /\ job'[c] = j
    BY <1>1, <1>4, <1>5, <1>6, MoveStays DEF Stays, Others
  <1>8. QED
    BY <1>3, <1>5, <1>7 DEF k, p

\* A reservation keeps the entry and its attempt.
LEMMA ReserveStays ==
    ASSUME GroupTypeOK, NEW c \in Consumers, reserve(c)
    PROVE  /\ Stays(c) /\ job'[c].pc = "handle" /\ job'[c].reserved = TRUE
           /\ job'[c].attempt = job[c].attempt
  <1> DEFINE j == [job[c] EXCEPT !.pc = "handle", !.reserved = TRUE]
  <1>1. /\ job[c] \in Jobs /\ job[c].pc = "reserve" /\ UNCHANGED stream
        /\ job' = [job EXCEPT ![c] = j]
    BY DEF GroupTypeOK, reserve
  <1>2. /\ j \in Jobs /\ j.pc = "handle" /\ j.batch = job[c].batch
        /\ j.attempt = job[c].attempt /\ j.reserved = TRUE
    BY <1>1 DEF Jobs, Steps
  <1> HIDE DEF j
  <1>3. MovedTo(c, j)
    BY <1>1, <1>2 DEF MovedTo
  <1>4. QED
    BY <1>1, <1>2, <1>3, MoveStays DEF Stays, Others

\* A batch is downward closed in the set it is taken from.
LEMMA FewAreLowest ==
    ASSUME NEW T \in SUBSET Entries, NEW n \in T, NEW m \in LowestFew(T), n <= m
    PROVE  n \in LowestFew(T)
  <1> DEFINE A == {k \in T : k < n}
             B == {k \in T : k < m}
  <1>1. IsFiniteSet(Entries)
    BY ConsumerConstants, FS_Interval DEF Entries
  <1>2. B \in SUBSET Entries /\ A \in SUBSET B /\ IsFiniteSet(B)
    <2>1. m \in T /\ B \subseteq T
      BY DEF LowestFew
    <2>2. m \in Int /\ n \in Int /\ T \in SUBSET Int
      BY <2>1 DEF Entries
    <2>3. A \subseteq B
      <3>1. ASSUME NEW k \in T, k < n PROVE k < m
        <4>1. k \in Int
          BY <2>2
        <4>2. QED
          BY <2>2, <3>1, <4>1
      <3>2. QED
        BY <3>1
    <2>4. B \in SUBSET Entries /\ A \in SUBSET B
      BY <2>1, <2>3
    <2> HIDE DEF A, B
    <2>5. IsFiniteSet(B)
      BY <1>1, <2>4, FS_Subset
    <2>6. QED
      BY <2>4, <2>5
  <1> HIDE DEF A, B
  <1>4. Cardinality(A) <= Cardinality(B) /\ IsFiniteSet(A)
    BY <1>2, FS_Subset
  <1>5. Cardinality(A) \in Nat /\ Cardinality(B) \in Nat
    BY <1>2, <1>4, FS_CardinalityType
  <1>6. Cardinality(B) < BatchSize
    BY DEF LowestFew, B
  <1>7. Cardinality(A) < BatchSize
    BY <1>4, <1>5, <1>6, ConsumerConstants
  <1>8. QED
    BY <1>7 DEF LowestFew, A

\* Taking a batch turns to its first entry and makes c the owner of all.
LEMMA TakeTurns ==
    ASSUME GroupTypeOK, NEW c \in Consumers, NEW T \in SUBSET Entries, Take(c, T),
           UNCHANGED stream
    PROVE  /\ T # {}
           /\ Turns(c) /\ job'[c].batch = T /\ job'[c].pc = "count"
           /\ pending' \in [Entries -> Pendings]
           /\ \A n \in T : pending'[n].owner = c
           /\ \A n \in Entries \ T : pending'[n] = pending[n]
  <1> DEFINE j == [NoJob EXCEPT !.pc = "count", !.batch = T]
             p == [owner |-> c, idle |-> FALSE]
  <1>1. /\ j \in Jobs /\ j.pc = "count" /\ j.batch = T /\ j.reserved = FALSE
    <2>1. NoJob \in Jobs /\ NoJob.reserved = FALSE
      BY ConsumerConstants DEF NoJob, Jobs, Steps
    <2>2. QED
      BY <2>1 DEF Jobs, Steps
  <1>2. job' = [job EXCEPT ![c] = j] /\ T # {}
    BY DEF Take
  <1>3. pending' = [n \in Entries |-> IF n \in T THEN p ELSE pending[n]]
    BY DEF Take
  <1>4. p \in Pendings /\ p.owner = c
    BY DEF Pendings
  <1> HIDE DEF j, p
  <1>5. /\ j \in Jobs /\ j.pc = "count" /\ j.batch = T /\ j.reserved = FALSE
    BY <1>1
  <1>6. Turns(c) /\ job'[c] = j
    <2>1. MovedTo(c, j)
      BY <1>2, <1>5 DEF MovedTo
    <2>2. QED
      BY <1>2, <1>5, <2>1, MoveTurns DEF Turns, Others
  <1>7. /\ pending' \in [Entries -> Pendings]
        /\ \A n \in T : pending'[n] = p
        /\ \A n \in Entries \ T : pending'[n] = pending[n]
    BY <1>3, <1>4 DEF GroupTypeOK
  <1>8. QED
    BY <1>2, <1>4, <1>5, <1>6, <1>7

\* A read delivers the entries that follow, without a gap.
LEMMA ConsumeReads ==
    ASSUME GroupTypeOK, NEW c \in Consumers, consumeOnce(c)
    PROVE  /\ LowestFew(Unread) \in SUBSET Entries
           /\ Take(c, LowestFew(Unread)) /\ UNCHANGED stream
           /\ read' \in read..Len(stream) /\ read' <= MaxEntries
           /\ \A n \in LowestFew(Unread) : n > read /\ n <= read'
           /\ \A n \in Entries : n > read /\ n <= read' => n \in LowestFew(Unread)
  <1> DEFINE B == LowestFew(Unread)
  <1>1. Take(c, B) /\ B # {} /\ read' = (CHOOSE n \in B : \A m \in B : n >= m)
        /\ UNCHANGED stream
    BY DEF consumeOnce, Take
  <1>2. Unread \in SUBSET Entries /\ B \subseteq Unread
    BY DEF Unread, LowestFew
  <1> HIDE DEF B
  <1>3. B \in SUBSET (0..MaxEntries) /\ MaxEntries \in Nat
    BY <1>2, ConsumerConstants DEF Entries
  <1>4. \E n \in B : \A m \in B : n >= m
    BY <1>1, <1>3, GreatestExists
  <1>5. read' \in B /\ \A m \in B : read' >= m
    BY <1>1, <1>4
  <1>6. \A n \in B : n \in Entries /\ n > read /\ n <= Len(stream)
    BY <1>2 DEF Unread
  <1>7. read \in Nat /\ Len(stream) \in Nat
    BY DEF GroupTypeOK
  <1>8. ASSUME NEW n \in Entries, n > read, n <= read'
        PROVE  n \in LowestFew(Unread)
    <2>1. n \in Unread
      BY <1>5, <1>6, <1>7, <1>8 DEF Unread, Entries
    <2>2. QED
      BY <1>2, <1>5, <1>8, <2>1, FewAreLowest DEF B
  <1>9. read' \in read..Len(stream) /\ read' <= MaxEntries
    BY <1>5, <1>6, <1>7, ConsumerConstants DEF Entries
  <1>10. \A n \in B : n > read /\ n <= read'
    BY <1>5, <1>6, <1>7 DEF Entries
  <1>11. QED
    BY <1>1, <1>2, <1>8, <1>9, <1>10 DEF B

\* What a reclaim takes was pending, hence read.
LEMMA ReclaimTakes ==
    ASSUME GroupTypeOK, NEW c \in Consumers, reclaimOnce(c)
    PROVE  /\ LowestFew(IdleEntries) \in SUBSET Entries
           /\ Take(c, LowestFew(IdleEntries)) /\ UNCHANGED stream
           /\ \A n \in LowestFew(IdleEntries) : n <= read /\ pending[n].owner # None
  BY DEF GroupTypeOK, reclaimOnce, LowestFew, IdleEntries

\* The part of the type that is about jobs.
JobsOK ==
    /\ job \in [Consumers -> Jobs]
    /\ \A c \in Consumers : /\ job[c].batch \subseteq 1..read
                            /\ job[c].pc = "idle" <=> job[c].batch = {}

\* Whatever a consumer does, its job stays typed.
LEMMA JobsTyped ==
    ASSUME GroupTypeOK, NEW c \in Consumers,
           Stays(c) \/ (Turns(c) /\ job'[c].batch \subseteq 1..read'),
           read' \in Nat, read <= read'
    PROVE  JobsOK'
  <1>1. job' \in [Consumers -> Jobs]
    BY DEF Stays, Turns, Others
  <1>2. 1..read \subseteq 1..read'
    BY DEF GroupTypeOK
  <1>3. /\ job'[c].batch \subseteq 1..read'
        /\ job'[c].pc = "idle" <=> job'[c].batch = {}
    <2>1. CASE Stays(c)
      BY <1>2, <2>1 DEF Stays, GroupTypeOK
    <2>2. CASE Turns(c) /\ job'[c].batch \subseteq 1..read'
      BY <2>2 DEF Turns
    <2>3. QED
      BY <2>1, <2>2
  <1>4. ASSUME NEW x \in Consumers, x # c
        PROVE  /\ job'[x].batch \subseteq 1..read'
               /\ job'[x].pc = "idle" <=> job'[x].batch = {}
    <2>1. job'[x] = job[x]
      BY <1>4 DEF Stays, Turns, Others
    <2>2. QED
      BY <1>2, <2>1 DEF GroupTypeOK
  <1>5. QED
    BY <1>1, <1>3, <1>4 DEF JobsOK

\* An acknowledgement clears one entry.
LEMMA AcknowledgeClears ==
    ASSUME GroupTypeOK, NEW c \in Consumers, job[c].pc # "idle", Acknowledge(c)
    PROVE  /\ pending' \in [Entries -> Pendings]
           /\ attempts' \in [Entries -> 0..MaxAttempts]
           /\ pending'[Entry(c)].owner = None
           /\ \A n \in Entries : n # Entry(c) =>
                 pending'[n] = pending[n] /\ attempts'[n] = attempts[n]
  <1>1. Entry(c) \in Entries
    BY EntryInBatch
  <1>2. NotPending \in Pendings /\ NotPending.owner = None /\ 0 \in 0..MaxAttempts
    BY ConsumerConstants DEF NotPending, Pendings
  <1>3. pending \in [Entries -> Pendings] /\ attempts \in [Entries -> 0..MaxAttempts]
    BY DEF GroupTypeOK
  <1> QED
    BY <1>1, <1>2, <1>3 DEF Acknowledge

\* A step of the delivery, with what it does to the job.
LEMMA DeliverMoves ==
    ASSUME GroupTypeOK, NEW c \in Consumers, Deliver(c) \/ stop(c)
    PROVE  /\ job[c].pc # "idle" /\ UNCHANGED <<stream, read>>
           /\ \/ Stays(c)
              \/ Turns(c) /\ job'[c].batch \subseteq 1..read
  <1>1. job[c].pc # "idle" /\ UNCHANGED <<stream, read>>
    BY DEF Deliver, countAttempt, reserve, duplicate, ackDuplicate, handleSucceeds,
       handleThrows, releaseReservation, retry, quarantine, ack, stop
  <1>2. job[c].batch \subseteq 1..read
    BY DEF GroupTypeOK
  <1>3. CASE countAttempt(c) \/ reserve(c)
    BY <1>1, <1>3, CountStays, ReserveStays
  <1>4. CASE ackDuplicate(c) \/ retry(c) \/ ack(c)
    <2>1. NextEntry(c)
      BY <1>4 DEF ackDuplicate, retry, ack
    <2>2. QED
      BY <1>1, <1>2, <2>1, EntryTurns
  <1>5. CASE \/ duplicate(c) \/ handleSucceeds(c) \/ handleThrows(c)
             \/ releaseReservation(c) \/ quarantine(c)
    <2>1. \E pc \in Steps \ {"idle"} : DeliveryAt(c, pc)
      BY <1>5 DEF duplicate, handleSucceeds, handleThrows, releaseReservation,
         quarantine, Steps
    <2>2. QED
      BY <1>1, <2>1, DeliveryStays
  <1>6. CASE stop(c)
    BY <1>1, <1>2, <1>6, StopTurns
  <1>7. QED
    BY <1>3, <1>4, <1>5, <1>6 DEF Deliver

\* Every step of the group keeps the types.
LEMMA GroupTypeStep == ASSUME GroupTypeOK, ConsumerStep PROVE GroupTypeOK'
  <1> USE DEF JobsOK
  <1>1. ASSUME NEW c \in Consumers, consumeOnce(c) PROVE GroupTypeOK'
    <2> DEFINE T == LowestFew(Unread)
    <2>1. /\ T \in SUBSET Entries /\ Take(c, T) /\ UNCHANGED stream
          /\ read' \in read..Len(stream) /\ read' <= MaxEntries
          /\ \A n \in T : n > read /\ n <= read'
      BY <1>1, ConsumeReads
    <2> HIDE DEF T
    <2>2. /\ Turns(c) /\ job'[c].batch = T
          /\ pending' \in [Entries -> Pendings]
          /\ \A n \in T : pending'[n].owner = c
          /\ \A n \in Entries \ T : pending'[n] = pending[n]
      BY <2>1, TakeTurns
    <2>3. read \in Nat /\ read' \in Nat /\ read <= read'
      BY <2>1 DEF GroupTypeOK
    <2>4. T \subseteq 1..read'
      BY <2>1, <2>3 DEF Entries
    <2>5. JobsOK'
      BY <2>2, <2>3, <2>4, JobsTyped
    <2>6. UNCHANGED <<stream, attempts, reserved, dlq, handled, settled, stops>>
      BY <1>1 DEF consumeOnce
    <2>7. \A n \in Entries : pending'[n].owner # None => n <= read'
      BY <2>1, <2>2, <2>3 DEF GroupTypeOK, Entries
    <2>8. \A n \in Entries : dlq'[n] > 0 => n <= read'
      BY <2>3, <2>6 DEF GroupTypeOK, Entries
    <2>9. settled' \subseteq 1..read' /\ read' \in 0..Len(stream')
      BY <2>1, <2>3, <2>6 DEF GroupTypeOK
    <2>10. QED
      BY <2>1, <2>2, <2>5, <2>6, <2>7, <2>8, <2>9 DEF GroupTypeOK
  <1>2. ASSUME NEW c \in Consumers, reclaimOnce(c) PROVE GroupTypeOK'
    <2> DEFINE T == LowestFew(IdleEntries)
    <2>1. /\ T \in SUBSET Entries /\ Take(c, T) /\ UNCHANGED stream
          /\ \A n \in T : n <= read
      BY <1>2, ReclaimTakes
    <2> HIDE DEF T
    <2>2. /\ Turns(c) /\ job'[c].batch = T
          /\ pending' \in [Entries -> Pendings]
          /\ \A n \in Entries \ T : pending'[n] = pending[n]
      BY <2>1, TakeTurns
    <2>3. UNCHANGED <<stream, read, attempts, reserved, dlq, handled, settled, stops>>
      BY <1>2 DEF reclaimOnce
    <2>4. T \subseteq 1..read' /\ read' \in Nat /\ read <= read'
      BY <2>1, <2>3 DEF GroupTypeOK, Entries
    <2>5. JobsOK'
      BY <2>2, <2>4, JobsTyped
    <2>6. \A n \in Entries : pending'[n].owner # None => n <= read'
      BY <2>1, <2>2, <2>3 DEF GroupTypeOK
    <2>7. QED
      BY <2>2, <2>3, <2>5, <2>6 DEF GroupTypeOK
  <1>3. ASSUME NEW c \in Consumers, Deliver(c) \/ stop(c) PROVE GroupTypeOK'
    <2>1. /\ job[c].pc # "idle" /\ UNCHANGED <<stream, read>>
          /\ Stays(c) \/ (Turns(c) /\ job'[c].batch \subseteq 1..read)
      BY <1>3, DeliverMoves
    <2>2. read' \in Nat /\ read <= read'
      BY <2>1 DEF GroupTypeOK
    <2>3. JobsOK'
      BY <2>1, <2>2, JobsTyped
    <2>4. /\ Entry(c) \in 1..read /\ Entry(c) \in Entries /\ EventOf(c) \in Events
      BY <2>1, EntryInBatch
    <2>5. /\ pending' \in [Entries -> Pendings]
          /\ attempts' \in [Entries -> 0..MaxAttempts]
          /\ \A n \in Entries : pending'[n].owner # None => pending[n].owner # None
      <3>1. CASE ackDuplicate(c) \/ ack(c)
        <4>1. Acknowledge(c)
          BY <3>1 DEF ackDuplicate, ack
        <4>2. QED
          BY <2>1, <4>1, AcknowledgeClears
      <3>2. CASE countAttempt(c)
        <4>1. Counted(attempts[Entry(c)]) \in 0..MaxAttempts
          BY <3>2, CountStays
        <4>2. QED
          BY <2>4, <3>2, <4>1 DEF GroupTypeOK, countAttempt
      <3>3. CASE UNCHANGED <<pending, attempts>>
        BY <3>3 DEF GroupTypeOK
      <3>4. QED
        BY <1>3, <3>1, <3>2, <3>3 DEF Deliver, reserve, duplicate, handleSucceeds,
           handleThrows, releaseReservation, retry, quarantine, stop
    <2>6. reserved' \subseteq Events
      BY <1>3, <2>4 DEF GroupTypeOK, Deliver, countAttempt, reserve, duplicate,
         ackDuplicate, handleSucceeds, handleThrows, releaseReservation, retry,
         quarantine, ack, stop
    <2>7. /\ dlq' \in [Entries -> 0..2]
          /\ \A n \in Entries : dlq'[n] > 0 => n <= read
      <3>1. CASE quarantine(c)
        BY <2>4, <3>1 DEF GroupTypeOK, quarantine
      <3>2. CASE UNCHANGED dlq
        BY <3>2 DEF GroupTypeOK
      <3>3. QED
        BY <1>3, <3>1, <3>2 DEF Deliver, countAttempt, reserve, duplicate,
           ackDuplicate, handleSucceeds, handleThrows, releaseReservation, retry,
           ack, stop
    <2>8. handled' \in [Events -> 0..2]
      <3>1. CASE handleSucceeds(c)
        BY <2>4, <3>1 DEF GroupTypeOK, handleSucceeds
      <3>2. CASE UNCHANGED handled
        BY <3>2 DEF GroupTypeOK
      <3>3. QED
        BY <1>3, <3>1, <3>2 DEF Deliver, countAttempt, reserve, duplicate,
           ackDuplicate, quarantine, handleThrows, releaseReservation, retry,
           ack, stop
    <2>9. settled' \subseteq 1..read
      BY <1>3, <2>4 DEF GroupTypeOK, Deliver, countAttempt, reserve, duplicate,
         ackDuplicate, handleSucceeds, handleThrows, releaseReservation, retry,
         quarantine, ack, stop
    <2>10. stops' \in 0..MaxStops
      BY <1>3, ConsumerConstants DEF GroupTypeOK, Deliver, countAttempt, reserve,
         duplicate, ackDuplicate, handleSucceeds, handleThrows, releaseReservation,
         retry, quarantine, ack, stop
    <2>11. QED
      BY <2>1, <2>3, <2>5, <2>6, <2>7, <2>8, <2>9, <2>10 DEF GroupTypeOK
  <1>4. ASSUME NEW n \in Entries, idles(n) PROVE GroupTypeOK'
    <2>1. /\ pending' \in [Entries -> Pendings]
          /\ \A m \in Entries : pending'[m].owner = pending[m].owner
      BY <1>4 DEF idles, GroupTypeOK, Pendings
    <2>2. UNCHANGED <<stream, read, attempts, reserved, dlq, job, handled, settled,
                      stops>>
      BY <1>4 DEF idles
    <2>3. QED
      BY <2>1, <2>2 DEF GroupTypeOK
  <1>5. QED
    BY <1>1, <1>2, <1>3, <1>4 DEF ConsumerStep

\* The others hold what they held.
LEMMA OthersHold ==
    ASSUME NEW c \in Consumers, Others(c), NEW x \in Consumers, x # c
    PROVE  /\ Holds(x)' <=> Holds(x)
           /\ EventOf(x)' = EventOf(x)
           /\ job'[x].reserved = job[x].reserved
  BY DEF Others, Holds

\* A consumer that holds nothing afterwards and leaves the store alone.
LEMMA LetsGo ==
    ASSUME OnceInv, NEW c \in Consumers, Others(c), ~Holds(c)',
           UNCHANGED <<reserved, handled>>
    PROVE  OnceInv'
  <1>1. ASSUME NEW x \in Consumers, Holds(x)'
        PROVE  /\ x # c /\ Holds(x) /\ EventOf(x)' = EventOf(x)
               /\ job'[x].reserved = job[x].reserved
    <2>1. x # c
      BY <1>1
    <2>2. QED
      BY <1>1, <2>1, OthersHold
  <1>2. QED
    BY <1>1 DEF OnceInv

\* With an idempotency store a reservation excludes a second effect.
LEMMA OnceStep ==
    ASSUME GroupTypeOK, Deduplicates, OnceInv, ConsumerStep PROVE OnceInv'
  <1>1. ASSUME NEW c \in Consumers, consumeOnce(c) \/ reclaimOnce(c) PROVE OnceInv'
    <2>1. Turns(c) /\ UNCHANGED <<reserved, handled>>
      BY <1>1, ConsumeReads, ReclaimTakes, TakeTurns DEF consumeOnce, reclaimOnce
    <2>2. QED
      BY <2>1, LetsGo DEF Turns, Holds
  <1>2. ASSUME NEW c \in Consumers,
               ackDuplicate(c) \/ retry(c) \/ ack(c) \/ stop(c)
        PROVE  OnceInv'
    <2>1. Turns(c)
      BY <1>2, EntryTurns, StopTurns DEF ackDuplicate, retry, ack
    <2>2. UNCHANGED <<reserved, handled>>
      BY <1>2 DEF ackDuplicate, retry, ack, stop
    <2>3. QED
      BY <2>1, <2>2, LetsGo DEF Turns, Holds
  <1>3. ASSUME NEW c \in Consumers, countAttempt(c) \/ duplicate(c) \/ quarantine(c)
        PROVE  OnceInv'
    <2>1. Stays(c) /\ job'[c].pc \in {"reserve", "ackDuplicate", "ack"}
      <3>1. CASE countAttempt(c)
        BY <3>1, CountStays
      <3>2. CASE duplicate(c)
        BY <3>2, DeliveryStays DEF duplicate, Steps
      <3>3. CASE quarantine(c)
        BY <3>3, DeliveryStays DEF quarantine, Steps
      <3>4. QED
        BY <1>3, <3>1, <3>2, <3>3
    <2>2. UNCHANGED <<reserved, handled>>
      BY <1>3 DEF countAttempt, duplicate, quarantine
    <2>3. QED
      BY <2>1, <2>2, LetsGo DEF Stays, Holds
  <1>4. ASSUME NEW c \in Consumers, reserve(c) PROVE OnceInv'
    <2>1. /\ Others(c) /\ EventOf(c)' = EventOf(c)
          /\ job'[c].pc = "handle" /\ job'[c].reserved = TRUE
      BY <1>4, ReserveStays DEF Stays
    <2>2. /\ EventOf(c) \notin reserved /\ reserved' = reserved \cup {EventOf(c)}
          /\ UNCHANGED handled
      BY <1>4 DEF reserve, Taken
    <2>3. EventOf(c) \in Events
      BY <1>4, EntryInBatch DEF reserve
    <2>4. handled[EventOf(c)] = 0
      BY <2>2, <2>3 DEF OnceInv, GroupTypeOK
    <2>5. ASSUME NEW x \in Consumers, x # c, Holds(x)'
          PROVE  /\ Holds(x) /\ EventOf(x)' = EventOf(x)
                 /\ job'[x].reserved = job[x].reserved
                 /\ EventOf(x) \in reserved
      BY <2>1, <2>5, OthersHold DEF OnceInv
    <2>6. QED
      BY <2>1, <2>2, <2>4, <2>5 DEF OnceInv
  <1>5. ASSUME NEW c \in Consumers, handleSucceeds(c) PROVE OnceInv'
    <2>1. Others(c) /\ ~Holds(c)'
      BY <1>5, DeliveryStays DEF Stays, Holds, handleSucceeds, Steps
    <2>2. /\ Holds(c) /\ UNCHANGED reserved
          /\ handled' = [handled EXCEPT ![EventOf(c)] = IF @ < 2 THEN @ + 1 ELSE @]
      BY <1>5 DEF handleSucceeds, Holds
    <2>3. ASSUME NEW x \in Consumers, Holds(x)'
          PROVE  /\ x # c /\ Holds(x) /\ EventOf(x)' = EventOf(x)
                 /\ job'[x].reserved = job[x].reserved
                 /\ EventOf(x) # EventOf(c)
      BY <2>1, <2>2, <2>3, OthersHold DEF OnceInv
    <2>4. EventOf(c) \in reserved /\ handled \in [Events -> 0..2]
      BY <2>2 DEF OnceInv, GroupTypeOK
    <2>5. \A x \in Consumers : Holds(x) => EventOf(x) \in Events
      BY EntryInBatch DEF Holds
    <2>6. QED
      BY <2>2, <2>3, <2>4, <2>5 DEF OnceInv
  <1>6. ASSUME NEW c \in Consumers, handleThrows(c) PROVE OnceInv'
    <2>1. /\ Others(c) /\ EventOf(c)' = EventOf(c)
          /\ job'[c].reserved = job[c].reserved
      <3>1. \E pc \in Steps \ {"idle"} : DeliveryAt(c, pc)
        BY <1>6 DEF handleThrows, Steps
      <3>2. QED
        BY <1>6, <3>1, DeliveryStays DEF Stays, handleThrows
    <2>2. Holds(c) /\ UNCHANGED <<reserved, handled>>
      BY <1>6 DEF handleThrows, Holds
    <2>3. ASSUME NEW x \in Consumers, Holds(x)'
          PROVE  /\ Holds(x) /\ EventOf(x)' = EventOf(x)
                 /\ job'[x].reserved = job[x].reserved
      BY <2>1, <2>2, <2>3, OthersHold
    <2>4. QED
      BY <2>2, <2>3 DEF OnceInv
  <1>7. ASSUME NEW c \in Consumers, releaseReservation(c) PROVE OnceInv'
    <2>1. Others(c) /\ ~Holds(c)'
      <3>1. PICK pc \in {"quarantine", "retry"} : DeliveryAt(c, pc)
        BY <1>7 DEF releaseReservation
      <3>2. QED
        BY <1>7, <3>1, DeliveryStays DEF Stays, Holds, releaseReservation, Steps
    <2>2. /\ Holds(c) /\ UNCHANGED handled /\ reserved' = reserved \ {EventOf(c)}
      BY <1>7 DEF releaseReservation, Holds
    <2>3. ASSUME NEW x \in Consumers, Holds(x)'
          PROVE  /\ x # c /\ Holds(x) /\ EventOf(x)' = EventOf(x)
                 /\ job'[x].reserved = job[x].reserved
                 /\ EventOf(x) # EventOf(c)
      BY <2>1, <2>2, <2>3, OthersHold DEF OnceInv
    <2>4. handled[EventOf(c)] = 0
      BY <2>2 DEF OnceInv
    <2>5. QED
      BY <2>2, <2>3, <2>4 DEF OnceInv
  <1>8. ASSUME NEW n \in Entries, idles(n) PROVE OnceInv'
    BY <1>8 DEF idles, OnceInv, Holds, EventOf, Entry
  <1>9. QED
    BY <1>1, <1>2, <1>3, <1>4, <1>5, <1>6, <1>7, <1>8 DEF ConsumerStep, Deliver

\* The consumer that moved keeps its part of LossInv; the others' parts and
\* the acknowledged entries follow.
LEMMA LossKeeps ==
    ASSUME GroupTypeOK, LossInv, NEW c \in Consumers, Others(c),
           job'[c].pc \in {"idle", "count", "handle", "retry", "quarantine", "ack"},
           job'[c].reserved = FALSE,
           job'[c].pc = "ack" => Entry(c)' \in settled',
           settled \subseteq settled', AcknowledgedIsSettled'
    PROVE  LossInv'
  <1>1. ASSUME NEW x \in Consumers, x # c
        PROVE  /\ job'[x] = job[x]
               /\ job'[x].pc = "ack" => Entry(x)' \in settled'
    BY <1>1 DEF Others, LossInv
  <1>2. QED
    BY <1>1 DEF LossInv

\* Without a store an entry is let go of only when it is settled.
LEMMA LossStep ==
    ASSUME GroupTypeOK, ~Deduplicates, LossInv, ConsumerStep PROVE LossInv'
  <1>1. /\ AcknowledgedIsSettled /\ 1..read \subseteq Entries
        /\ read \in Nat
    BY ConsumerConstants DEF LossInv, GroupTypeOK, Entries
  <1>2. ASSUME NEW c \in Consumers, consumeOnce(c) PROVE LossInv'
    <2> DEFINE T == LowestFew(Unread)
    <2>1. /\ T \in SUBSET Entries /\ Take(c, T) /\ UNCHANGED stream
          /\ read' \in read..Len(stream) /\ read' <= MaxEntries
          /\ \A n \in T : n > read /\ n <= read'
          /\ \A n \in Entries : n > read /\ n <= read' => n \in T
      BY <1>2, ConsumeReads
    <2> HIDE DEF T
    <2>2. /\ Turns(c) /\ job'[c].pc = "count"
          /\ \A n \in T : pending'[n].owner = c
          /\ \A n \in Entries \ T : pending'[n] = pending[n]
      BY <2>1, TakeTurns
    <2>3. UNCHANGED settled
      BY <1>2 DEF consumeOnce
    <2>4. ASSUME NEW n \in 1..read', pending'[n].owner = None PROVE n \in settled
      <3>1. n \in Entries
        BY <2>1, ConsumerConstants DEF Entries
      <3>2. n \notin T
        BY <2>2, <2>4, ConsumerConstants
      <3>3. n \in 1..read
        BY <1>1, <2>1, <3>1, <3>2 DEF Entries
      <3>4. QED
        BY <1>1, <2>2, <2>4, <3>1, <3>2, <3>3 DEF AcknowledgedIsSettled
    <2>5. AcknowledgedIsSettled'
      BY <2>3, <2>4 DEF AcknowledgedIsSettled
    <2>6. QED
      BY <2>2, <2>3, <2>5, LossKeeps DEF Turns
  <1>3. ASSUME NEW c \in Consumers, reclaimOnce(c) PROVE LossInv'
    <2> DEFINE T == LowestFew(IdleEntries)
    <2>1. /\ T \in SUBSET Entries /\ Take(c, T) /\ UNCHANGED stream
      BY <1>3, ReclaimTakes
    <2> HIDE DEF T
    <2>2. /\ Turns(c) /\ job'[c].pc = "count"
          /\ \A n \in T : pending'[n].owner = c
          /\ \A n \in Entries \ T : pending'[n] = pending[n]
      BY <2>1, TakeTurns
    <2>3. UNCHANGED <<read, settled>>
      BY <1>3 DEF reclaimOnce
    <2>4. AcknowledgedIsSettled'
      BY <1>1, <2>2, <2>3, ConsumerConstants DEF AcknowledgedIsSettled
    <2>5. QED
      BY <2>2, <2>3, <2>4, LossKeeps DEF Turns
  <1>4. ASSUME NEW c \in Consumers, retry(c) \/ stop(c) PROVE LossInv'
    <2>1. Turns(c)
      BY <1>4, EntryTurns, StopTurns DEF retry
    <2>2. UNCHANGED <<read, pending, settled>>
      BY <1>4 DEF retry, stop
    <2>3. AcknowledgedIsSettled'
      BY <1>1, <2>2 DEF AcknowledgedIsSettled
    <2>4. QED
      BY <2>1, <2>2, <2>3, LossKeeps DEF Turns
  <1>5. ASSUME NEW c \in Consumers, ack(c) PROVE LossInv'
    <2>1. /\ job[c].pc = "ack" /\ Acknowledge(c) /\ NextEntry(c)
          /\ UNCHANGED <<stream, read, settled>>
      BY <1>5 DEF ack
    <2>2. Turns(c)
      BY <2>1, EntryTurns
    <2>3. Entry(c) \in settled
      BY <2>1 DEF LossInv
    <2>4. \A n \in Entries : n # Entry(c) => pending'[n] = pending[n]
      BY <2>1, AcknowledgeClears
    <2>5. AcknowledgedIsSettled'
      BY <1>1, <2>1, <2>3, <2>4 DEF AcknowledgedIsSettled
    <2>6. QED
      BY <2>1, <2>2, <2>5, LossKeeps DEF Turns
  <1>6. ASSUME NEW c \in Consumers,
               \/ countAttempt(c) \/ handleSucceeds(c) \/ handleThrows(c)
               \/ quarantine(c)
        PROVE  LossInv'
    <2>1. job[c].reserved = FALSE
      BY DEF LossInv
    <2>2. /\ Stays(c) /\ job'[c].reserved = FALSE
          /\ job'[c].pc \in {"handle", "retry", "quarantine", "ack"}
          /\ settled \subseteq settled'
          /\ job'[c].pc = "ack" => Entry(c) \in settled'
      <3>1. CASE countAttempt(c)
        <4>1. /\ Stays(c) /\ job'[c].reserved = FALSE
              /\ job'[c].pc = IF Deduplicates THEN "reserve" ELSE "handle"
          BY <2>1, <3>1, CountStays, Zenon
        <4>2. job'[c].pc = "handle"
          BY <4>1, Zenon
        <4>3. settled' = settled
          BY <3>1 DEF countAttempt
        <4>4. QED
          BY <4>1, <4>2, <4>3
      <3>2. CASE handleSucceeds(c) \/ quarantine(c)
        <4>1. /\ DeliveryAt(c, "ack") /\ job[c].pc # "idle" /\ UNCHANGED stream
              /\ settled' = settled \cup {Entry(c)}
          BY <3>2 DEF handleSucceeds, quarantine
        <4>2. QED
          BY <2>1, <4>1, DeliveryStays DEF Steps
      <3>3. CASE handleThrows(c)
        <4>1. /\ job[c].pc # "idle" /\ UNCHANGED <<stream, settled>>
              /\ DeliveryAt(c, IF Exhausted(c) THEN "quarantine" ELSE "retry")
          BY <2>1, <3>3 DEF handleThrows
        <4>2. PICK pc \in {"quarantine", "retry"} : DeliveryAt(c, pc)
          BY <4>1
        <4>3. QED
          BY <2>1, <4>1, <4>2, DeliveryStays DEF Steps
      <3>4. QED
        BY <1>6, <3>1, <3>2, <3>3
    <2>3. UNCHANGED <<read, pending>>
      BY <1>6 DEF countAttempt, handleSucceeds, handleThrows, quarantine
    <2>4. AcknowledgedIsSettled'
      BY <1>1, <2>2, <2>3 DEF AcknowledgedIsSettled
    <2>5. QED
      BY <2>2, <2>4, LossKeeps DEF Stays
  <1>7. ASSUME NEW n \in Entries, idles(n) PROVE LossInv'
    <2>1. /\ \A m \in Entries : pending'[m].owner = pending[m].owner
          /\ UNCHANGED <<read, job, settled>>
      BY <1>7 DEF idles, GroupTypeOK, Pendings
    <2>2. AcknowledgedIsSettled'
      BY <1>1, <2>1 DEF AcknowledgedIsSettled
    <2>3. QED
      BY <2>1, <2>2 DEF LossInv, Entry
  <1>8. ASSUME NEW c \in Consumers,
               reserve(c) \/ duplicate(c) \/ ackDuplicate(c) \/ releaseReservation(c)
        PROVE  FALSE
    BY <1>8 DEF reserve, duplicate, ackDuplicate, releaseReservation, LossInv
  <1>9. QED
    BY <1>2, <1>3, <1>4, <1>5, <1>6, <1>7, <1>8 DEF ConsumerStep, Deliver

\* What a step may do to the entries that have been read: none becomes pending
\* again, and no counter of a pending one falls.
CountersRise ==
    \A n \in 1..read : pending'[n].owner # None =>
        pending[n].owner # None /\ attempts'[n] >= attempts[n]

\* Whatever is in the dead-letter stream was read, and tried often enough if
\* it is pending still.
DeadTried ==
    \A n \in Entries : dlq'[n] > 0 =>
        n \in 1..read /\ (pending[n].owner # None => attempts[n] >= MaxAttempts)

\* The consumer that moved keeps its part of TriedInv; the rest follows.
LEMMA TriedKeeps ==
    ASSUME GroupTypeOK, GroupTypeOK', TriedInv, NEW c \in Consumers, Others(c),
           CountersRise, UNCHANGED dlq \/ DeadTried,
           \/ Turns(c)
           \/ /\ Stays(c) /\ job'[c].pc # "quarantine"
              /\ attempts'[Entry(c)] >= job'[c].attempt
           \/ /\ Stays(c) /\ job[c].pc # "count"
              /\ job'[c].attempt = job[c].attempt
              /\ job'[c].pc = "quarantine" => job[c].attempt >= MaxAttempts
    PROVE  TriedInv'
  <1>1. 1..read \subseteq Entries /\ read \in Nat
    BY ConsumerConstants DEF GroupTypeOK, Entries
  <1>2. ASSUME NEW x \in Consumers, job[x].pc \notin {"idle", "count"},
               Entry(x)' = Entry(x), job'[x].attempt = job[x].attempt,
               pending'[Entry(x)].owner # None
        PROVE  attempts'[Entry(x)] >= job'[x].attempt
    <2>1. Entry(x) \in 1..read /\ Entry(x) \in Entries
      BY <1>2, EntryInBatch
    <2>2. /\ attempts'[Entry(x)] >= attempts[Entry(x)]
          /\ attempts[Entry(x)] >= job[x].attempt
      BY <1>2, <2>1 DEF CountersRise, TriedInv
    <2>3. /\ attempts'[Entry(x)] \in Int /\ attempts[Entry(x)] \in Int
          /\ job[x].attempt \in Int
      BY <2>1 DEF GroupTypeOK, Jobs
    <2>4. QED
      BY <1>2, <2>2, <2>3
  <1>3. ASSUME NEW x \in Consumers
        PROVE  /\ job'[x].pc \notin {"idle", "count"} /\ pending'[Entry(x)'].owner # None
                  => attempts'[Entry(x)'] >= job'[x].attempt
               /\ job'[x].pc = "quarantine" => job'[x].attempt >= MaxAttempts
    <2>1. CASE x # c
      BY <1>2, <2>1 DEF Others, TriedInv
    <2>2. CASE x = c /\ Turns(c)
      BY <2>2 DEF Turns
    <2>3. CASE x = c /\ ~Turns(c)
      BY <1>2, <2>3 DEF Stays
    <2>4. QED
      BY <2>1, <2>2, <2>3
  <1>4. ASSUME NEW n \in Entries, dlq'[n] > 0, pending'[n].owner # None
        PROVE  attempts'[n] >= MaxAttempts
    <2>1. /\ n \in 1..read
          /\ pending[n].owner # None => attempts[n] >= MaxAttempts
      <3>1. CASE UNCHANGED dlq
        BY <1>1, <1>4, <3>1 DEF GroupTypeOK, Entries, TriedInv, QuarantinedWasTried
      <3>2. CASE DeadTried
        BY <1>4, <3>2 DEF DeadTried
      <3>3. QED
        BY <3>1, <3>2
    <2>2. attempts'[n] >= attempts[n] /\ attempts[n] >= MaxAttempts
      BY <1>4, <2>1 DEF CountersRise
    <2>3. attempts'[n] \in Int /\ attempts[n] \in Int
      BY DEF GroupTypeOK
    <2>4. QED
      BY <2>2, <2>3, ConsumerConstants
  <1>5. QED
    BY <1>3, <1>4 DEF TriedInv, QuarantinedWasTried

\* An entry is dead-lettered after its last attempt.
LEMMA TriedStep ==
    ASSUME GroupTypeOK, GroupTypeOK', TriedInv, ConsumerStep PROVE TriedInv'
  <1>1. 1..read \subseteq Entries /\ read \in Nat /\ \A n \in Entries : attempts[n] \in Int
    BY ConsumerConstants DEF GroupTypeOK, Entries
  <1>2. ASSUME NEW c \in Consumers, consumeOnce(c) PROVE TriedInv'
    <2> DEFINE T == LowestFew(Unread)
    <2>1. /\ T \in SUBSET Entries /\ Take(c, T) /\ UNCHANGED stream
          /\ \A n \in T : n > read
      BY <1>2, ConsumeReads
    <2> HIDE DEF T
    <2>2. Turns(c) /\ \A n \in Entries \ T : pending'[n] = pending[n]
      BY <2>1, TakeTurns
    <2>3. UNCHANGED <<attempts, dlq>>
      BY <1>2 DEF consumeOnce
    <2>4. CountersRise
      BY <1>1, <2>1, <2>2, <2>3 DEF CountersRise
    <2>5. QED
      BY <2>2, <2>3, <2>4, TriedKeeps DEF Turns
  <1>3. ASSUME NEW c \in Consumers, reclaimOnce(c) PROVE TriedInv'
    <2> DEFINE T == LowestFew(IdleEntries)
    <2>1. /\ T \in SUBSET Entries /\ Take(c, T) /\ UNCHANGED stream
          /\ \A n \in T : pending[n].owner # None
      BY <1>3, ReclaimTakes
    <2> HIDE DEF T
    <2>2. Turns(c) /\ \A n \in Entries \ T : pending'[n] = pending[n]
      BY <2>1, TakeTurns
    <2>3. UNCHANGED <<attempts, dlq>>
      BY <1>3 DEF reclaimOnce
    <2>4. CountersRise
      BY <1>1, <2>1, <2>2, <2>3 DEF CountersRise
    <2>5. QED
      BY <2>2, <2>3, <2>4, TriedKeeps DEF Turns
  <1>4. ASSUME NEW c \in Consumers, retry(c) \/ stop(c) PROVE TriedInv'
    <2>1. Turns(c)
      BY <1>4, EntryTurns, StopTurns DEF retry
    <2>2. UNCHANGED <<pending, attempts, dlq>>
      BY <1>4 DEF retry, stop
    <2>3. CountersRise
      BY <1>1, <2>2 DEF CountersRise
    <2>4. QED
      BY <2>1, <2>2, <2>3, TriedKeeps DEF Turns
  <1>5. ASSUME NEW c \in Consumers, ackDuplicate(c) \/ ack(c) PROVE TriedInv'
    <2>1. /\ job[c].pc # "idle" /\ Acknowledge(c) /\ NextEntry(c)
          /\ UNCHANGED <<stream, dlq>>
      BY <1>5 DEF ackDuplicate, ack
    <2>2. Turns(c)
      BY <2>1, EntryTurns
    <2>3. CountersRise
      BY <1>1, <2>1, AcknowledgeClears DEF CountersRise
    <2>4. QED
      BY <2>1, <2>2, <2>3, TriedKeeps DEF Turns
  <1>6. ASSUME NEW c \in Consumers,
               \/ reserve(c) \/ duplicate(c) \/ handleSucceeds(c)
        PROVE  TriedInv'
    <2>1. /\ Stays(c) /\ job[c].pc # "count"
          /\ job'[c].attempt = job[c].attempt /\ job'[c].pc # "quarantine"
      <3>1. CASE reserve(c)
        BY <3>1, ReserveStays DEF reserve
      <3>2. CASE duplicate(c) \/ handleSucceeds(c)
        BY <3>2, DeliveryStays DEF duplicate, handleSucceeds, Steps
      <3>3. QED
        BY <1>6, <3>1, <3>2
    <2>2. UNCHANGED <<pending, attempts, dlq>>
      BY <1>6 DEF reserve, duplicate, handleSucceeds
    <2>3. CountersRise
      BY <1>1, <2>2 DEF CountersRise
    <2>4. QED
      BY <2>1, <2>2, <2>3, TriedKeeps DEF Stays
  <1>7. ASSUME NEW c \in Consumers, handleThrows(c) \/ releaseReservation(c)
        PROVE  TriedInv'
    <2>1. /\ job[c].pc \in {"handle", "release"}
          /\ UNCHANGED <<stream, pending, attempts, dlq>>
          /\ \/ DeliveryAt(c, "release") \/ DeliveryAt(c, "retry")
             \/ DeliveryAt(c, "quarantine") /\ Exhausted(c)
      BY <1>7 DEF handleThrows, releaseReservation
    <2>2. /\ Stays(c) /\ job[c].pc # "count"
          /\ job'[c].attempt = job[c].attempt
          /\ job'[c].pc = "quarantine" => job[c].attempt >= MaxAttempts
      BY <2>1, DeliveryStays DEF Exhausted, Steps
    <2>3. CountersRise
      BY <1>1, <2>1 DEF CountersRise
    <2>4. QED
      BY <2>1, <2>2, <2>3, TriedKeeps DEF Stays
  <1>8. ASSUME NEW c \in Consumers, countAttempt(c) PROVE TriedInv'
    <2>1. /\ Stays(c) /\ job'[c].pc # "quarantine"
          /\ job'[c].attempt = Counted(attempts[Entry(c)])
          /\ Counted(attempts[Entry(c)]) >= attempts[Entry(c)]
          /\ Counted(attempts[Entry(c)]) \in 0..MaxAttempts
      BY <1>8, CountStays
    <2>2. /\ attempts' = [attempts EXCEPT ![Entry(c)] = Counted(@)]
          /\ UNCHANGED <<pending, dlq>>
      BY <1>8 DEF countAttempt
    <2>3. Entry(c) \in Entries
      BY <2>1, EntryInBatch DEF Stays
    <2>4. /\ attempts'[Entry(c)] = Counted(attempts[Entry(c)])
          /\ \A n \in Entries : n # Entry(c) => attempts'[n] = attempts[n]
      BY <2>2, <2>3 DEF GroupTypeOK
    <2>5. CountersRise
      BY <1>1, <2>1, <2>2, <2>4 DEF CountersRise
    <2>6. QED
      BY <2>1, <2>2, <2>4, <2>5, TriedKeeps DEF Stays
  <1>9. ASSUME NEW c \in Consumers, quarantine(c) PROVE TriedInv'
    <2>1. /\ job[c].pc = "quarantine" /\ DeliveryAt(c, "ack")
          /\ dlq' = [dlq EXCEPT ![Entry(c)] = IF @ < 2 THEN @ + 1 ELSE @]
          /\ UNCHANGED <<stream, pending, attempts>>
      BY <1>9 DEF quarantine
    <2>2. /\ Stays(c) /\ job'[c].pc = "ack"
          /\ job'[c].attempt = job[c].attempt
      BY <2>1, DeliveryStays DEF Steps
    <2>3. Entry(c) \in Entries /\ Entry(c) \in 1..read
      BY <2>1, EntryInBatch
    <2>4. pending[Entry(c)].owner # None => attempts[Entry(c)] >= MaxAttempts
      <3>1. pending[Entry(c)].owner # None => attempts[Entry(c)] >= job[c].attempt
        BY <2>1 DEF TriedInv
      <3>2. job[c].attempt >= MaxAttempts /\ job[c].attempt \in Int
        BY <2>1 DEF TriedInv, GroupTypeOK, Jobs
      <3>3. QED
        BY <1>1, <2>3, <3>1, <3>2, ConsumerConstants
    <2>5. \A n \in Entries : n # Entry(c) => dlq'[n] = dlq[n]
      BY <2>1 DEF GroupTypeOK
    <2>6. DeadTried
      <3>1. ASSUME NEW n \in Entries, dlq'[n] > 0, n # Entry(c)
            PROVE  n \in 1..read /\ (pending[n].owner # None => attempts[n] >= MaxAttempts)
        BY <1>1, <2>5, <3>1 DEF GroupTypeOK, Entries, TriedInv, QuarantinedWasTried
      <3>2. QED
        BY <2>3, <2>4, <3>1 DEF DeadTried
    <2>7. CountersRise
      BY <1>1, <2>1 DEF CountersRise
    <2>8. QED
      BY <2>1, <2>2, <2>6, <2>7, TriedKeeps DEF Stays
  <1>10. ASSUME NEW n \in Entries, idles(n) PROVE TriedInv'
    <2>1. /\ \A m \in Entries : pending'[m].owner = pending[m].owner
          /\ UNCHANGED <<read, attempts, dlq, job>>
      BY <1>10 DEF idles, GroupTypeOK, Pendings
    <2>2. \A c \in Consumers : job[c].pc # "idle" => Entry(c) \in Entries
      BY EntryInBatch
    <2>3. QED
      BY <2>1, <2>2 DEF TriedInv, QuarantinedWasTried, Entry
  <1>11. QED
    BY <1>2, <1>3, <1>4, <1>5, <1>6, <1>7, <1>8, <1>9, <1>10
       DEF ConsumerStep, Deliver

\* Every step of the group keeps its invariant.
LEMMA GroupStepInv == ASSUME GroupInv, ConsumerStep PROVE GroupInv'
  <1>1. GroupTypeOK /\ TriedInv /\ GroupTypeOK'
    BY GroupTypeStep DEF GroupInv
  <1>2. TriedInv'
    BY <1>1, TriedStep
  <1>3. Deduplicates => OnceInv'
    BY <1>1, OnceStep DEF GroupInv
  <1>4. ~Deduplicates => LossInv'
    BY <1>1, LossStep DEF GroupInv
  <1>5. QED
    BY <1>1, <1>2, <1>3, <1>4 DEF GroupInv

\* What is appended to the stream disturbs no delivery.
LEMMA GroupGrows ==
    ASSUME GroupInv, Grows, UNCHANGED groupVars
    PROVE  GroupInv'
  <1>1. /\ stream \in Seq(Events) /\ GroupTypeOK
        /\ UNCHANGED <<read, pending, attempts, reserved, dlq, job, handled, settled,
                       stops>>
    BY DEF GroupInv, GroupTypeOK, groupVars
  <1>2. /\ stream' \in Seq(Events)
        /\ Len(stream) \in Nat /\ Len(stream') \in Nat /\ Len(stream') >= Len(stream)
        /\ \A i \in 1..Len(stream) : stream'[i] = stream[i]
    BY <1>1, GrowsKeeps
  <1>3. GroupTypeOK'
    BY <1>1, <1>2 DEF GroupTypeOK
  <1>4. \A c \in Consumers : Entry(c)' = Entry(c)
    BY <1>1 DEF Entry
  <1>5. ASSUME NEW c \in Consumers, job[c].pc # "idle" PROVE EventOf(c)' = EventOf(c)
    <2>1. Entry(c) \in 1..Len(stream)
      BY <1>1, <1>5, EntryInBatch
    <2>2. QED
      BY <1>2, <1>4, <2>1 DEF EventOf
  <1>6. ASSUME Deduplicates PROVE OnceInv'
    <2>1. \A c \in Consumers : /\ Holds(c)' <=> Holds(c)
                               /\ Holds(c) => EventOf(c)' = EventOf(c)
      BY <1>1, <1>5 DEF Holds
    <2>2. OnceInv
      BY <1>6 DEF GroupInv
    <2>3. QED
      BY <1>1, <2>1, <2>2 DEF OnceInv
  <1>7. ASSUME ~Deduplicates PROVE LossInv'
    <2>1. LossInv
      BY <1>7 DEF GroupInv
    <2>2. QED
      BY <1>1, <1>4, <2>1 DEF LossInv, AcknowledgedIsSettled
  <1>8. TriedInv'
    BY <1>1, <1>4 DEF GroupInv, TriedInv, QuarantinedWasTried
  <1>9. QED
    BY <1>3, <1>6, <1>7, <1>8 DEF GroupInv

-----------------------------------------------------------------------------
(* The pipeline.                                                           *)

\* The inductive invariant of the pipeline.
PipelineInv == OutboxInv /\ GroupInv

\* The empty pipeline satisfies the invariant.
LEMMA PipelineInitInv == PipelineInit => PipelineInv
  BY OutboxInitInv, GroupInitInv DEF PipelineInit, PipelineInv

\* Consumers only read the stream.
LEMMA ConsumersKeepStream == ConsumerStep => UNCHANGED stream
  BY DEF ConsumerStep, consumeOnce, reclaimOnce, Deliver, countAttempt, reserve,
     duplicate, ackDuplicate, handleSucceeds, handleThrows, releaseReservation,
     retry, quarantine, ack, stop, idles

\* Every step of outbox and consumers keeps the invariant of both.
LEMMA PipelineStepInv ==
    ASSUME PipelineInv, [PipelineNext]_pipelineVars PROVE PipelineInv'
  <1>1. CASE OutboxStep /\ UNCHANGED groupVars
    <2>1. OutboxInv' /\ Grows
      BY <1>1, OutboxStepInv DEF PipelineInv
    <2>2. QED
      BY <1>1, <2>1, GroupGrows DEF PipelineInv
  <1>2. CASE ConsumerStep /\ UNCHANGED outboxVars
    <2>1. OutboxInv'
      BY <1>2, ConsumersKeepStream, OutboxStutterInv DEF PipelineInv
    <2>2. QED
      BY <1>2, <2>1, GroupStepInv DEF PipelineInv
  <1>3. CASE UNCHANGED pipelineVars
    <2>1. UNCHANGED <<outboxVars, stream>> /\ UNCHANGED groupVars
      BY <1>3 DEF pipelineVars, dispatchVars, outboxVars
    <2>2. QED
      BY <2>1, OutboxStutterInv, GroupGrows DEF PipelineInv, Grows
  <1>4. QED
    BY <1>1, <1>2, <1>3 DEF PipelineNext

\* The inductive invariant holds of every behaviour of the pipeline.
THEOREM PipelineInvariant == PipelineSpec => []PipelineInv
  <1>1. PipelineInit => PipelineInv
    BY PipelineInitInv
  <1>2. PipelineInv /\ [PipelineNext]_pipelineVars => PipelineInv'
    BY PipelineStepInv
  <1>3. QED
    BY <1>1, <1>2, PTL DEF PipelineSpec

\* Every variable has its type, and the group never reads past the entries it
\* keeps its records for.
THEOREM PipelineTypeCorrect == PipelineSpec => []PipelineTypeOK
  <1>1. PipelineInv => PipelineTypeOK
    <2> SUFFICES ASSUME PipelineInv
                 PROVE  OutboxTypeOK /\ ConsumerTypeOK
      BY DEF PipelineTypeOK
    <2>1. OutboxTypeOK /\ GroupTypeOK
      BY DEF PipelineInv, OutboxInv, GroupInv
    <2>2. job \in [Consumers -> [pc: Steps, batch: SUBSET (1..read),
                                 attempt: 0..MaxAttempts, reserved: BOOLEAN]]
      BY <2>1 DEF GroupTypeOK, Jobs
    <2>3. ConsumerTypeOK
      BY <2>1, <2>2 DEF GroupTypeOK, ConsumerTypeOK, Pendings, Steps
    <2> QED
      BY <2>1, <2>3
  <1>2. QED
    BY <1>1, PipelineInvariant, PTL

\* outbox-dispatcher.js and outbox-repo.js: whatever is published twice, marked
\* by someone else, refused or abandoned, a row marked dispatched is in the stream.
THEOREM PublishedBeforeDispatched == PipelineSpec => []DispatchedWasPublished
  <1>1. PipelineInv => DispatchedWasPublished
    BY DEF PipelineInv, OutboxInv
  <1>2. QED
    BY <1>1, PipelineInvariant, PTL

\* claimOutbox: for any number of dispatchers two of them hold one event only if
\* its lease ran out or was given up by someone who no longer had it.
THEOREM LeasesExclude == PipelineSpec => []LeaseExcludes
  <1>1. PipelineInv => LeaseExcludes
    BY DEF PipelineInv, OutboxInv
  <1>2. QED
    BY <1>1, PipelineInvariant, PTL

\* redis-streams.js without an idempotency store: an entry leaves the pending
\* list only handled or dead-lettered, whichever consumer acknowledges it.
THEOREM NothingReadIsLost ==
    ASSUME ~Deduplicates PROVE PipelineSpec => []AcknowledgedIsSettled
  <1>1. PipelineInv => AcknowledgedIsSettled
    BY DEF PipelineInv, GroupInv, LossInv
  <1>2. QED
    BY <1>1, PipelineInvariant, PTL

\* quarantine: an entry in the dead-letter stream that is pending still had
\* maxAttempts deliveries, however consumers overtook each other.
THEOREM DeadLettersWereTried == PipelineSpec => []QuarantinedWasTried
  <1>1. PipelineInv => QuarantinedWasTried
    BY DEF PipelineInv, GroupInv, TriedInv
  <1>2. QED
    BY <1>1, PipelineInvariant, PTL

\* Outbox, stream and group together: for any numbers of events, dispatchers and
\* consumers, no mark lets go of an event that has not got where the mark says.
THEOREM DropsNothing == PipelineSpec => []NothingIsDropped
  <1>1. PipelineInv => NothingIsDropped
    BY DEF PipelineInv, OutboxInv, GroupInv, LossInv, TriedInv, NothingIsDropped
  <1>2. QED
    BY <1>1, PipelineInvariant, PTL

-----------------------------------------------------------------------------
(* The pipeline implements the abstract delivery.                          *)

\* Only the domain records events.
LEMMA NothingRecorded ==
    ASSUME OutboxInv, NEW d \in Dispatchers, Dispatch(d) \/ OutboxFaults(d)
    PROVE  \A f \in Events : outbox'[f].state = "absent" <=> outbox[f].state = "absent"
  <1>1. outbox \in [Events -> OutboxRows]
    BY DEF OutboxInv, OutboxTypeOK, OutboxRows
  <1>2. CASE claimOutbox(d)
    BY <1>2, ClaimKeepsOutbox
  <1>3. CASE markOutboxDispatched(d)
    <2>1. PICK e : e = Current(d)
      OBVIOUS
    <2>2. e \in Events
      BY <1>3, <2>1, CurrentInBatch DEF markOutboxDispatched, OutboxInv
    <2>3. /\ outbox[e].state = "pending"
          /\ outbox' = [outbox EXCEPT ![e].state = "dispatched", ![e].lock = None]
      BY <1>3, <2>1 DEF markOutboxDispatched
    <2>4. /\ outbox'[e].state = "dispatched"
          /\ \A f \in Events : f # e => outbox'[f] = outbox[f]
      BY <1>1, <2>2, <2>3 DEF OutboxRows
    <2>5. QED
      BY <2>3, <2>4
  <1>4. CASE releaseOutbox(d)
    <2>1. PICK e : e = Current(d)
      OBVIOUS
    <2>2. e \in Events
      BY <1>4, <2>1, CurrentInBatch DEF releaseOutbox, OutboxInv
    <2>3. outbox' = outbox \/ outbox' = [outbox EXCEPT ![e] = Released(@)]
      BY <1>4, <2>1 DEF releaseOutbox
    <2>4. Released(outbox[e]).state = outbox[e].state
      BY <1>1, <2>2 DEF Released, OutboxRows
    <2>5. QED
      BY <1>1, <2>2, <2>3, <2>4
  <1>5. CASE \/ publish(d) \/ publishThrows(d) \/ markTooLate(d) \/ markThrows(d)
             \/ releaseThrows(d) \/ dispatcherDies(d)
    BY <1>5, QuietDispatch
  <1>6. QED
    BY <1>2, <1>3, <1>4, <1>5 DEF Dispatch, OutboxFaults

\* What is given up does not depend on how far the stream has grown.
LEMMA ParkedKeeps ==
    ASSUME PipelineInv, PipelineInv', UNCHANGED dlq, Grows, read <= read'
    PROVE  Parked' = Parked
  <1>1. /\ stream \in Seq(Events) /\ read \in 0..Len(stream) /\ read <= MaxEntries
        /\ dlq \in [Entries -> 0..2]
        /\ \A n \in Entries : dlq[n] > 0 => n <= read
    BY DEF PipelineInv, GroupInv, GroupTypeOK
  <1>2. read' \in Nat /\ read' <= MaxEntries
    BY <1>1, GrowsKeeps DEF PipelineInv, GroupInv, GroupTypeOK
  <1>3. /\ Len(stream) \in Nat
        /\ \A i \in 1..Len(stream) : stream'[i] = stream[i]
    BY <1>1, GrowsKeeps
  <1>4. \A n \in 1..read' : dlq[n] > 0 => n \in 1..read
    BY <1>1, <1>2, ConsumerConstants DEF Entries
  <1>5. \A n \in 1..read : n \in 1..read' /\ n \in 1..Len(stream)
    BY <1>1, <1>2, <1>3
  <1>6. QED
    BY <1>3, <1>4, <1>5 DEF Parked

\* A step of the pipeline, seen as a step of the abstract delivery.
RecordSeen ==
    \E e \in Events :
        /\ e \notin Recorded /\ Recorded' = Recorded \cup {e}
        /\ UNCHANGED handled /\ Parked' = Parked
EffectSeen ==
    \E e \in Events :
        /\ e \in Recorded
        /\ Deduplicates => handled[e] = 0
        /\ handled' = [handled EXCEPT ![e] = IF @ < 2 THEN @ + 1 ELSE @]
        /\ Recorded' = Recorded /\ Parked' = Parked
ParkSeen ==
    \E e \in Events :
        /\ e \in Recorded /\ Parked' = Parked \cup {e}
        /\ Recorded' = Recorded /\ UNCHANGED handled
NothingSeen == Recorded' = Recorded /\ UNCHANGED handled /\ Parked' = Parked

\* Every step is a Record, an Effect, a Park or a stutter of EventDelivery.
LEMMA PipelineSimulates ==
    ASSUME PipelineInv, [PipelineNext]_pipelineVars
    PROVE  RecordSeen \/ EffectSeen \/ ParkSeen \/ NothingSeen
  <1>1. PipelineInv'
    BY PipelineStepInv
  <1>2. read \in Nat /\ OutboxInv /\ GroupInv
    BY DEF PipelineInv, GroupInv, GroupTypeOK
  <1>3. CASE OutboxStep /\ UNCHANGED groupVars
    <2>1. Grows
      BY <1>2, <1>3, OutboxStepInv
    <2>2. UNCHANGED <<dlq, handled, read>>
      BY <1>3 DEF groupVars
    <2>3. Parked' = Parked
      BY <1>1, <1>2, <2>1, <2>2, ParkedKeeps
    <2>4. CASE \E e \in Events : record(e)
      <3>1. PICK e \in Events : record(e)
        BY <2>4
      <3>2. /\ outbox[e].state = "absent" /\ outbox'[e].state = "pending"
            /\ \A f \in Events : f # e => outbox'[f] = outbox[f]
        BY <1>2, <3>1 DEF record, OutboxInv, OutboxTypeOK
      <3>3. e \notin Recorded /\ Recorded' = Recorded \cup {e}
        BY <3>2 DEF Recorded
      <3>4. QED
        BY <2>2, <2>3, <3>3 DEF RecordSeen
    <2>5. CASE \E e \in Events : leaseExpires(e) \/ delayEnds(e)
      <3>1. \A f \in Events : outbox'[f].state = outbox[f].state
        BY <1>2, <2>5, SMTT(20) DEF leaseExpires, delayEnds, OutboxInv, OutboxTypeOK
      <3>2. Recorded' = Recorded
        BY <3>1 DEF Recorded
      <3>3. QED
        BY <2>2, <2>3, <3>2 DEF NothingSeen
    <2>6. CASE \E d \in Dispatchers : Dispatch(d) \/ OutboxFaults(d)
      <3>1. Recorded' = Recorded
        BY <1>2, <2>6, NothingRecorded DEF Recorded
      <3>2. QED
        BY <2>2, <2>3, <3>1 DEF NothingSeen
    <2>7. QED
      BY <1>3, <2>4, <2>5, <2>6 DEF OutboxStep
  <1>4. CASE ConsumerStep /\ UNCHANGED outboxVars
    <2>1. UNCHANGED stream /\ Recorded' = Recorded
      BY <1>4, ConsumersKeepStream DEF outboxVars, Recorded
    <2>2. ASSUME NEW c \in Consumers, job[c].pc # "idle"
          PROVE  EventOf(c) \in Recorded /\ EventOf(c) \in Events
      <3>1. EventOf(c) = stream[Entry(c)] /\ Entry(c) \in 1..Len(stream)
            /\ EventOf(c) \in Events
        BY <1>2, <2>2, EntryInBatch DEF GroupInv
      <3>2. QED
        BY <1>2, <3>1 DEF OutboxInv, WorkRecorded, Recorded
    <2>3. CASE \E c \in Consumers : handleSucceeds(c)
      <3>1. PICK c \in Consumers : handleSucceeds(c)
        BY <2>3
      <3>2. /\ job[c].pc = "handle" /\ UNCHANGED <<dlq, read>>
            /\ handled' = [handled EXCEPT ![EventOf(c)] = IF @ < 2 THEN @ + 1 ELSE @]
        BY <3>1 DEF handleSucceeds
      <3>3. Parked' = Parked
        BY <1>1, <1>2, <2>1, <3>2, ParkedKeeps DEF Grows
      <3>4. Deduplicates => handled[EventOf(c)] = 0
        BY <1>2, <3>2 DEF GroupInv, OnceInv, Holds
      <3>5. QED
        BY <2>1, <2>2, <3>2, <3>3, <3>4 DEF EffectSeen
    <2>4. CASE \E c \in Consumers : quarantine(c)
      <3>1. PICK c \in Consumers : quarantine(c)
        BY <2>4
      <3>2. /\ job[c].pc = "quarantine" /\ UNCHANGED <<handled, read>>
            /\ dlq' = [dlq EXCEPT ![Entry(c)] = IF @ < 2 THEN @ + 1 ELSE @]
        BY <3>1 DEF quarantine
      <3>3. /\ Entry(c) \in 1..read /\ Entry(c) \in Entries
            /\ EventOf(c) = stream[Entry(c)]
        BY <1>2, <3>2, EntryInBatch DEF GroupInv
      <3>4. /\ dlq'[Entry(c)] > 0
            /\ \A n \in 1..read : n # Entry(c) => dlq'[n] = dlq[n]
        <4>1. dlq \in [Entries -> 0..2] /\ 1..read \subseteq Entries
          BY <1>2, ConsumerConstants DEF GroupInv, GroupTypeOK, Entries
        <4>2. QED
          BY <3>2, <3>3, <4>1
      <3>5. Parked' = Parked \cup {EventOf(c)}
        BY <2>1, <2>2, <3>2, <3>3, <3>4 DEF Parked
      <3>6. QED
        BY <2>1, <2>2, <3>2, <3>5 DEF ParkSeen
    <2>5. CASE UNCHANGED <<handled, dlq>> /\ read <= read'
      <3>1. Parked' = Parked
        BY <1>1, <1>2, <2>1, <2>5, ParkedKeeps DEF Grows
      <3>2. QED
        BY <2>1, <2>5, <3>1 DEF NothingSeen
    <2>6. ASSUME NEW c \in Consumers, consumeOnce(c)
          PROVE  UNCHANGED <<handled, dlq>> /\ read <= read'
      <3>1. read' \in read..Len(stream)
        BY <1>2, <2>6, ConsumeReads DEF GroupInv
      <3>2. QED
        BY <1>2, <2>6, <3>1 DEF consumeOnce
    <2>7. ASSUME NEW c \in Consumers,
                 \/ reclaimOnce(c) \/ stop(c) \/ countAttempt(c) \/ reserve(c)
                 \/ duplicate(c) \/ ackDuplicate(c) \/ handleThrows(c)
                 \/ releaseReservation(c) \/ retry(c) \/ ack(c)
          PROVE  UNCHANGED <<handled, dlq>> /\ read <= read'
      BY <1>2, <2>7 DEF reclaimOnce, stop, countAttempt, reserve, duplicate,
         ackDuplicate, handleThrows, releaseReservation, retry, ack
    <2>8. ASSUME NEW n \in Entries, idles(n)
          PROVE  UNCHANGED <<handled, dlq>> /\ read <= read'
      BY <1>2, <2>8 DEF idles
    <2>9. QED
      BY <1>4, <2>3, <2>4, <2>5, <2>6, <2>7, <2>8 DEF ConsumerStep, Deliver
  <1>5. CASE UNCHANGED pipelineVars
    <2>1. /\ UNCHANGED <<outbox, dlq, handled, read, stream>>
      BY <1>5 DEF pipelineVars, dispatchVars, groupVars
    <2>2. Parked' = Parked /\ Recorded' = Recorded
      BY <2>1 DEF Parked, Recorded
    <2>3. QED
      BY <2>1, <2>2 DEF NothingSeen
  <1>6. QED
    BY <1>3, <1>4, <1>5 DEF PipelineNext

\* The empty pipeline is the initial state of EventDelivery.
LEMMA PipelineStartsEmpty ==
    PipelineInit => Recorded = {} /\ handled = [e \in Events |-> 0] /\ Parked = {}
  BY DEF PipelineInit, OutboxInit, ConsumerInit, NoRow, Recorded, Parked

\* redis-streams.js with an idempotency store, behind the outbox: for any number
\* of events, dispatchers and consumers, whatever is published again, reclaimed
\* or dies, no event takes effect before it is recorded, and none twice.
THEOREM EffectsAreUnique ==
    ASSUME Deduplicates PROVE PipelineSpec => DeliversAtMostOnce
  <1>1. PipelineInit => AtMost!DeliveryInit
    BY PipelineStartsEmpty DEF AtMost!DeliveryInit
  <1>2. ASSUME PipelineInv, [PipelineNext]_pipelineVars
        PROVE  [AtMost!DeliveryNext]_(AtMost!deliveryVars)
    <2>1. CASE RecordSeen
      BY <2>1 DEF RecordSeen, AtMost!DeliveryNext, AtMost!Record
    <2>2. CASE EffectSeen
      BY <2>2 DEF EffectSeen, AtMost!DeliveryNext, AtMost!Effect
    <2>3. CASE ParkSeen
      BY <2>3 DEF ParkSeen, AtMost!DeliveryNext, AtMost!Park
    <2>4. CASE NothingSeen
      BY <2>4 DEF NothingSeen, AtMost!deliveryVars
    <2>5. QED
      BY <1>2, <2>1, <2>2, <2>3, <2>4, PipelineSimulates
  <1>3. QED
    BY <1>1, <1>2, PipelineInvariant, PTL
       DEF PipelineSpec, DeliversAtMostOnce, AtMost!AtMostOnce

\* Store or no store, an event takes effect, or is parked, only after the
\* transaction that records it: the safety part of DeliversAtLeastOnce.
THEOREM EffectsAreRecorded == PipelineSpec => AtLeast!AtMostOnce
  <1>1. PipelineInit => AtLeast!DeliveryInit
    BY PipelineStartsEmpty DEF AtLeast!DeliveryInit
  <1>2. ASSUME PipelineInv, [PipelineNext]_pipelineVars
        PROVE  [AtLeast!DeliveryNext]_(AtLeast!deliveryVars)
    <2>1. CASE RecordSeen
      BY <2>1 DEF RecordSeen, AtLeast!DeliveryNext, AtLeast!Record
    <2>2. CASE EffectSeen
      BY <2>2 DEF EffectSeen, AtLeast!DeliveryNext, AtLeast!Effect
    <2>3. CASE ParkSeen
      BY <2>3 DEF ParkSeen, AtLeast!DeliveryNext, AtLeast!Park
    <2>4. CASE NothingSeen
      BY <2>4 DEF NothingSeen, AtLeast!deliveryVars
    <2>5. QED
      BY <1>2, <2>1, <2>2, <2>3, <2>4, PipelineSimulates
  <1>3. QED
    BY <1>1, <1>2, PipelineInvariant, PTL DEF PipelineSpec, AtLeast!AtMostOnce
=============================================================================
