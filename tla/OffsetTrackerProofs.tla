------------------------- MODULE OffsetTrackerProofs -------------------------
(* What the tracker promises, for every number of partitions and offsets.  *)
EXTENDS OffsetTracker, WellFoundedInduction, TLAPS

(* A set of offsets that is not empty has a least element, which is what   *)
(* the reduce() in complete() computes.                                    *)
LEMMA MinOfOffsets ==
  ASSUME NEW S \in SUBSET Nat, S # {}
  PROVE  /\ Min(S) \in S
         /\ \A x \in S : Min(S) <= x
<1>1. PICK m \in S : \A x \in S : <<x, m>> \notin OpToRel(<, Nat)
  BY WFMin, NatLessThanWellFounded, Zenon
<1>2. \A x \in S : ~ (x < m)
  BY <1>1, Zenon DEF OpToRel
<1>3. \A x \in S : m <= x
  BY <1>2
<1>4. \E y \in S : \A x \in S : y <= x
  BY <1>3
<1> QED
  BY <1>4 DEF Min

(* What complete() returns, for an offset that is in flight or not: nothing *)
(* else in flight is at or below it, and it is the offset itself or the    *)
(* one just below an offset in flight.                                     *)
LEMMA SafeOffsetLemma ==
  ASSUME NEW p \in tracked, inFlight[p] \in SUBSET Offset,
         committed[p] \in Offset \union {NoOffset},
         NEW o \in Offset
  PROVE  LET n == SafeOffset(p, o) IN
         /\ n \in Offset \union {NoOffset}
         /\ n # NoOffset => /\ \A x \in inFlight[p] \ {o} : n < x
                            /\ n = o \/ n + 1 \in inFlight[p]
         /\ n = NoOffset => /\ inFlight[p] \ {o} # {}
                            /\ Min(inFlight[p] \ {o}) - 1 <= committed[p]
<1> DEFINE pending == inFlight[p] \ {o}
<1>1. CASE pending = {}
  BY <1>1, OffsetTrackerAssumption DEF SafeOffset, Offset, NoOffset
<1>2. CASE pending # {}
  <2> DEFINE m == Min(pending)
  <2>1. m \in pending /\ m \in Offset /\ \A x \in pending : m <= x
    BY <1>2, MinOfOffsets, OffsetTrackerAssumption DEF Offset
  <2>2. SafeOffset(p, o) = IF m - 1 > committed[p] THEN m - 1 ELSE NoOffset
    BY <1>2 DEF SafeOffset
  <2> HIDE DEF m
  <2>3. CASE m - 1 > committed[p]
    <3>1. m - 1 \in Offset /\ SafeOffset(p, o) = m - 1 /\ m - 1 # NoOffset
      BY <2>1, <2>2, <2>3, OffsetTrackerAssumption DEF Offset, NoOffset
    <3>2. \A x \in pending : m - 1 < x
      BY <2>1, OffsetTrackerAssumption DEF Offset
    <3>3. m - 1 + 1 \in inFlight[p]
      BY <2>1, OffsetTrackerAssumption DEF Offset
    <3> QED
      BY <3>1, <3>2, <3>3
  <2>4. CASE ~ (m - 1 > committed[p])
    <3>1. m - 1 <= committed[p]
      BY <2>1, <2>4, OffsetTrackerAssumption DEF Offset, NoOffset
    <3> QED
      BY <1>2, <2>2, <2>4, <3>1 DEF m
  <2> QED
    BY <2>3, <2>4
<1> QED
  BY <1>1, <1>2

-----------------------------------------------------------------------------
(* While the assignment lasts, in flight is what was delivered and is not  *)
(* done.  That makes an offset in flight larger than the committed one,    *)
(* which is why complete() may return it without comparing the two.        *)
TrackerInv ==
    /\ TypeOK
    /\ \A p \in Partition :
           /\ inFlight[p] = {x \in Offset : x < next[p]} \ done[p]
           /\ \A x \in done[p] : x < next[p]
           /\ inFlight[p] # {} => p \in tracked
    /\ CommittedIsSafe

LEMMA TrackerInitInv == Init => TrackerInv
BY OffsetTrackerAssumption
   DEF Init, TrackerInit, TrackerInv, TypeOK, CommittedIsSafe, Offset, NoOffset

(* A delivery adds the next offset to what is in flight.                   *)
LEMMA DeliverInv ==
  ASSUME TrackerInv, NEW p \in Partition, Deliver(p)
  PROVE  TrackerInv'
<1> USE OffsetTrackerAssumption DEF Deliver, Track
<1>1. TypeOK'
  BY DEF TrackerInv, TypeOK, Offset
<1>2. \A q \in Partition :
          /\ inFlight'[q] = {x \in Offset : x < next'[q]} \ done'[q]
          /\ \A x \in done'[q] : x < next'[q]
          /\ inFlight'[q] # {} => q \in tracked'
  <2> TAKE q \in Partition
  <2>1. CASE q = p
    <3>1. /\ inFlight'[p] = inFlight[p] \union {next[p]}
          /\ next'[p] = next[p] + 1
          /\ p \in tracked'
      BY DEF TrackerInv, TypeOK
    <3>2. \A x \in done[p] : x \in Offset /\ x < next[p]
      BY DEF TrackerInv, TypeOK
    <3>3. next[p] \in Offset /\ next[p] \in Nat
      BY DEF Offset
    <3>5. \A x \in done'[p] : x < next'[p]
      BY <3>1, <3>2, <3>3 DEF Offset
    <3>6. next[p] \notin done[p]
      BY <3>2, <3>3
    <3>4. {x \in Offset : x < next[p] + 1} = {x \in Offset : x < next[p]} \union {next[p]}
      BY <3>3 DEF Offset
    <3> QED
      BY <2>1, <3>1, <3>3, <3>4, <3>5, <3>6 DEF TrackerInv
  <2>2. CASE q # p
    BY <2>2 DEF TrackerInv, TypeOK
  <2> QED
    BY <2>1, <2>2
<1>3. CommittedIsSafe'
  BY DEF TrackerInv, CommittedIsSafe
<1> QED
  BY <1>1, <1>2, <1>3 DEF TrackerInv

(* A completion takes the offset out of flight, and what it commits is     *)
(* done: everything below that is not in flight has been completed.        *)
LEMMA FinishInv ==
  ASSUME TrackerInv, NEW p \in Partition, NEW o \in Offset, Finish(p, o)
  PROVE  TrackerInv'
<1> DEFINE n == SafeOffset(p, o)
<1>1. /\ p \in tracked
      /\ o \in inFlight[p]
      /\ inFlight[p] \in SUBSET Offset
      /\ committed[p] \in Offset \union {NoOffset}
      /\ done[p] \in SUBSET Offset
      /\ next[p] \in Nat
  BY DEF Finish, TrackerInv, TypeOK
<1>2. /\ n \in Offset \union {NoOffset}
      /\ n # NoOffset => /\ \A x \in inFlight[p] \ {o} : n < x
                         /\ n = o \/ n + 1 \in inFlight[p]
  BY <1>1, SafeOffsetLemma
<1>3. /\ inFlight' = [inFlight EXCEPT ![p] = @ \ {o}]
      /\ committed' = IF n = NoOffset THEN committed ELSE [committed EXCEPT ![p] = n]
      /\ done' = [done EXCEPT ![p] = @ \union {o}]
      /\ UNCHANGED <<next, tracked>>
  BY DEF Finish, Complete
<1> HIDE DEF n
<1>4. TypeOK'
  BY <1>2, <1>3 DEF TrackerInv, TypeOK
<1>5. \A q \in Partition :
          /\ inFlight'[q] = {x \in Offset : x < next'[q]} \ done'[q]
          /\ \A x \in done'[q] : x < next'[q]
          /\ inFlight'[q] # {} => q \in tracked'
  <2> TAKE q \in Partition
  <2>1. CASE q = p
    <3>1. inFlight'[p] = inFlight[p] \ {o} /\ done'[p] = done[p] \union {o}
      BY <1>3 DEF TrackerInv, TypeOK
    <3>2. o < next[p]
      BY <1>1 DEF TrackerInv
    <3> QED
      BY <2>1, <1>1, <1>3, <3>1, <3>2 DEF TrackerInv
  <2>2. CASE q # p
    BY <2>2, <1>3 DEF TrackerInv, TypeOK
  <2> QED
    BY <2>1, <2>2
<1>6. CommittedIsSafe'
  <2> SUFFICES ASSUME NEW q \in Partition, NEW x \in Offset, x <= committed'[q]
               PROVE  x \in done'[q]
    BY DEF CommittedIsSafe
  <2>1. CASE q # p \/ n = NoOffset
    <3>1. committed'[q] = committed[q] /\ done[q] \subseteq done'[q]
      BY <2>1, <1>3 DEF TrackerInv, TypeOK
    <3> QED
      BY <3>1 DEF TrackerInv, CommittedIsSafe
  <2>2. CASE q = p /\ n # NoOffset
    <3>1. committed'[p] = n /\ done'[p] = done[p] \union {o}
      BY <2>2, <1>3 DEF TrackerInv, TypeOK
    <3>2. x <= n
      BY <2>2, <3>1
    <3>3. n \in Offset
      BY <2>2, <1>2
    <3>4. x \notin inFlight[p] \ {o}
      BY <2>2, <1>1, <1>2, <3>2, <3>3, OffsetTrackerAssumption DEF Offset
    <3>5. x < next[p]
      <4>1. PICK y \in inFlight[p] : x <= y
        BY <2>2, <1>1, <1>2, <3>2, <3>3, OffsetTrackerAssumption DEF Offset
      <4>2. y < next[p] /\ y \in Offset
        BY <1>1 DEF TrackerInv
      <4> QED
        BY <1>1, <4>1, <4>2, OffsetTrackerAssumption DEF Offset
    <3> QED
      BY <2>2, <3>1, <3>4, <3>5 DEF TrackerInv
  <2> QED
    BY <2>1, <2>2
<1> QED
  BY <1>4, <1>5, <1>6 DEF TrackerInv

LEMMA TrackerStepInv == TrackerInv /\ [Next]_vars => TrackerInv'
<1> SUFFICES ASSUME TrackerInv, [Next]_vars
             PROVE  TrackerInv'
  OBVIOUS
<1>1. ASSUME NEW p \in Partition, Deliver(p)
      PROVE  TrackerInv'
  BY <1>1, DeliverInv
<1>2. ASSUME NEW p \in Partition, NEW o \in Offset, Finish(p, o)
      PROVE  TrackerInv'
  BY <1>2, FinishInv
<1>3. CASE UNCHANGED vars
  BY <1>3 DEF vars, TrackerInv, TypeOK, CommittedIsSafe
<1> QED
  BY <1>1, <1>2, <1>3 DEF Next

LEMMA TrackerInvariance == Spec => []TrackerInv
BY TrackerInitInv, TrackerStepInv, PTL DEF Spec

(* The maps keep their types.                                              *)
THEOREM TrackerTypeCorrect == Spec => []TypeOK
<1>1. TrackerInv => TypeOK
  BY DEF TrackerInv
<1> QED
  BY <1>1, TrackerInvariance, PTL

(* What complete() lets the worker commit covers finished messages only.   *)
THEOREM TrackerCommitsSafely == Spec => []CommittedIsSafe
<1>1. TrackerInv => CommittedIsSafe
  BY DEF TrackerInv
<1> QED
  BY <1>1, TrackerInvariance, PTL

(* The committed offset never moves back: an offset in flight is larger    *)
(* than the committed one, so the unchecked branch of complete() cannot    *)
(* lower it.                                                               *)
THEOREM TrackerNeverMovesBack == Spec => CommittedNeverDecreases
<1> DEFINE Forward == \A p \in Partition : committed'[p] >= committed[p]
<1>1. TrackerInv /\ [Next]_vars => Forward
  <2> SUFFICES ASSUME TrackerInv, [Next]_vars, NEW q \in Partition
               PROVE  committed'[q] >= committed[q]
    OBVIOUS
  <2> USE OffsetTrackerAssumption
  <2>0. committed[q] \in Int /\ committed[q] >= committed[q]
    BY DEF TrackerInv, TypeOK, Offset, NoOffset
  <2>1. CASE committed'[q] = committed[q]
    BY <2>0, <2>1
  <2>2. ASSUME NEW p \in Partition, NEW o \in Offset, Finish(p, o),
               committed'[q] # committed[q]
        PROVE  committed'[q] >= committed[q]
    <3> DEFINE n == SafeOffset(p, o)
    <3>1. /\ q = p
          /\ n # NoOffset
          /\ committed'[q] = n
      BY <2>2 DEF Finish, Complete, TrackerInv, TypeOK
    <3>2. /\ p \in tracked
          /\ o \in inFlight[p]
          /\ inFlight[p] \in SUBSET Offset
          /\ committed[p] \in Offset \union {NoOffset}
      BY <2>2 DEF Finish, TrackerInv, TypeOK
    <3>3. n \in Offset /\ (n = o \/ n + 1 \in inFlight[p])
      BY <3>1, <3>2, SafeOffsetLemma
    <3>4. \A x \in inFlight[p] : x > committed[p]
      BY <3>2 DEF TrackerInv, CommittedIsSafe, Offset, NoOffset
    <3> HIDE DEF n
    <3> QED
      BY <3>1, <3>2, <3>3, <3>4 DEF Offset, NoOffset
  <2>3. CASE UNCHANGED vars
    BY <2>1, <2>3 DEF vars
  <2>4. ASSUME NEW p \in Partition, Deliver(p)
        PROVE  committed'[q] = committed[q]
    BY <2>4 DEF Deliver, Track
  <2> QED
    BY <2>1, <2>2, <2>3, <2>4 DEF Next
<1>2. TrackerInv /\ [Next]_vars => [Forward]_vars
  BY <1>1
<1> QED
  BY <1>2, TrackerInvariance, PTL DEF Spec, CommittedNeverDecreases

(* A completion that leaves others in flight commits everything below the  *)
(* lowest of them: when complete() returns null, that much had been        *)
(* committed already, for an offset in flight is above the committed one.  *)
THEOREM TrackerCommitsAllBelow == Spec => CompletionCommitsAllBelow
<1> DEFINE AllBelow ==
             \A p \in Partition :
                done'[p] # done[p] /\ inFlight'[p] # {} =>
                    committed'[p] = Min(inFlight'[p]) - 1
<1>1. TrackerInv /\ [Next]_vars => AllBelow
  <2> SUFFICES ASSUME TrackerInv, [Next]_vars, NEW q \in Partition,
                      done'[q] # done[q], inFlight'[q] # {}
               PROVE  committed'[q] = Min(inFlight'[q]) - 1
    OBVIOUS
  <2> USE OffsetTrackerAssumption
  <2>1. PICK o \in Offset : Finish(q, o)
    <3>1. PICK p \in Partition, o \in Offset : Finish(p, o)
      BY DEF Next, Deliver, vars
    <3>2. p = q
      BY <3>1 DEF Finish, TrackerInv, TypeOK
    <3> QED
      BY <3>1, <3>2
  <2> DEFINE pending == inFlight[q] \ {o}
             m == Min(pending)
  <2>2. /\ inFlight'[q] = pending
        /\ q \in tracked
        /\ pending \in SUBSET Nat
        /\ committed[q] \in Offset \union {NoOffset}
    BY <2>1 DEF Finish, Complete, TrackerInv, TypeOK, Offset
  <2>3. m \in inFlight[q] /\ m \in Nat
    BY <2>2, MinOfOffsets
  <2>4. m > committed[q]
    BY <2>2, <2>3 DEF TrackerInv, CommittedIsSafe, Offset, NoOffset
  <2>5. SafeOffset(q, o) = IF m - 1 > committed[q] THEN m - 1 ELSE NoOffset
    BY <2>2 DEF SafeOffset
  <2>6. committed' = IF SafeOffset(q, o) = NoOffset
                     THEN committed
                     ELSE [committed EXCEPT ![q] = SafeOffset(q, o)]
    BY <2>1 DEF Finish, Complete
  <2> HIDE DEF m
  <2>7. CASE m - 1 > committed[q]
    <3>1. SafeOffset(q, o) = m - 1 /\ m - 1 # NoOffset
      BY <2>2, <2>3, <2>5, <2>7 DEF Offset, NoOffset
    <3>2. committed'[q] = m - 1
      BY <2>6, <3>1 DEF TrackerInv, TypeOK
    <3> QED
      BY <2>2, <3>2 DEF m
  <2>8. CASE ~ (m - 1 > committed[q])
    <3>1. committed'[q] = committed[q]
      BY <2>5, <2>6, <2>8
    <3>2. committed[q] = m - 1
      BY <2>2, <2>3, <2>4, <2>8 DEF Offset, NoOffset
    <3> QED
      BY <2>2, <3>1, <3>2 DEF m
  <2> QED
    BY <2>7, <2>8
<1>2. TrackerInv /\ [Next]_vars => [AllBelow]_vars
  BY <1>1
<1> QED
  BY <1>2, TrackerInvariance, PTL DEF Spec, CompletionCommitsAllBelow

=============================================================================
