--------------------------- MODULE SemaphoreProofs ---------------------------
(* Safety of the semaphore for every number of workers, every set of       *)
(* tasks and every bound on the number of parked requests.                 *)
EXTENDS Semaphore, FiniteSetTheorems, TLAPS

(* What every step keeps.  The free list has no duplicates and no box that *)
(* is held; the permit count is its length; somebody is parked only when   *)
(* it is empty.  Conservation needs all of it: a box that is handed over   *)
(* must not also be in the list.                                           *)
SemInv ==
    /\ SemTypeOK
    /\ BoxExclusive
    /\ PermitsMatchBoxes
    /\ NoIdlePermit

(* The boxes the service can still hand out, now or after a release().     *)
KnownBoxes == FreeBoxes \union HeldBoxes

-----------------------------------------------------------------------------
(* A free list without duplicates is no longer than there are boxes, by the *)
(* pigeonhole principle: this is what bounds the permit count.             *)
LEMMA FreeListBounded ==
  ASSUME NEW s \in Seq(Boxes),
         \A i, j \in DOMAIN s : s[i] = s[j] => i = j
  PROVE  Len(s) \in 0 .. Workers
<1>1. Len(s) \in Nat /\ DOMAIN s = 1 .. Len(s) /\ s \in [1 .. Len(s) -> Boxes]
  OBVIOUS
<1>2. IsFiniteSet(1 .. Len(s)) /\ Cardinality(1 .. Len(s)) = Len(s)
  BY <1>1, FS_Interval
<1>3. IsFiniteSet(Boxes) /\ Cardinality(Boxes) = Workers
  BY FS_Interval, SemaphoreAssumption DEF Boxes
<1>4. ~ (Workers < Len(s))
  BY <1>1, <1>2, <1>3, FS_PigeonHole
<1> QED
  BY <1>1, <1>4, SemaphoreAssumption

(* The fresh semaphore satisfies the invariant.                            *)
LEMMA SemInitInv == SemInit => SemInv /\ BoxesConserved
<1> SUFFICES ASSUME SemInit
             PROVE  SemInv /\ BoxesConserved
  OBVIOUS
<1>1. /\ availableBoxes \in Seq(Boxes)
      /\ Len(availableBoxes) = Workers
      /\ DOMAIN availableBoxes = 1 .. Workers
      /\ \A i \in 1 .. Workers : availableBoxes[i] = i - 1
  BY SemaphoreAssumption DEF SemInit, Boxes
<1>2. FreeBoxes = Boxes
  <2>1. \A b \in Boxes : b + 1 \in 1 .. Workers /\ availableBoxes[b + 1] = b
    BY <1>1, SemaphoreAssumption DEF Boxes
  <2>2. \A i \in 1 .. Workers : availableBoxes[i] \in Boxes
    BY <1>1, SemaphoreAssumption DEF Boxes
  <2>3. FreeBoxes = {availableBoxes[i] : i \in 1 .. Workers}
    BY <1>1 DEF FreeBoxes, Range
  <2>4. Boxes \subseteq FreeBoxes
    BY <2>1, <2>3
  <2> QED
    BY <2>2, <2>3, <2>4
<1>3. SemTypeOK
  BY <1>1, SemaphoreAssumption DEF SemInit, SemTypeOK
<1>4. BoxExclusive
  BY <1>1, SemaphoreAssumption DEF SemInit, BoxExclusive, HeldBoxes
<1>5. PermitsMatchBoxes /\ NoIdlePermit
  BY <1>1 DEF SemInit, PermitsMatchBoxes, NoIdlePermit
<1>6. BoxesConserved
  BY <1>2 DEF SemInit, BoxesConserved, HeldBoxes
<1> QED
  BY <1>3, <1>4, <1>5, <1>6 DEF SemInv

(* Nor are there more holders of boxes than boxes.                         *)
LEMMA HoldersBounded ==
  ASSUME SemInv, NEW S \in SUBSET held
  PROVE  IsFiniteSet(S) /\ Cardinality(S) <= Workers
<1> DEFINE boxOf == [h \in S |-> h.box]
<1>1. IsFiniteSet(Boxes) /\ Cardinality(Boxes) = Workers
  BY FS_Interval, SemaphoreAssumption DEF Boxes
<1>2. boxOf \in [S -> Boxes] /\ \A h, k \in S : boxOf[h] = boxOf[k] => h = k
  BY DEF SemInv, SemTypeOK, Holder, BoxExclusive
<1>3. boxOf \in Injection(S, Boxes)
  BY <1>2 DEF Injection, IsInjective
<1> HIDE DEF boxOf
<1>4. IsFiniteSet(S) /\ Cardinality(S) <= Cardinality(Boxes)
  BY <1>1, <1>3, FS_Injection
<1> QED
  BY <1>1, <1>4

(* The first free box leaves the list and is nobody else's.                *)
LEMMA HeadOfFree ==
  ASSUME SemInv, count > 0
  PROVE  /\ availableBoxes # <<>>
         /\ Head(availableBoxes) \in Boxes
         /\ Head(availableBoxes) \in FreeBoxes
         /\ Tail(availableBoxes) \in Seq(Boxes)
         /\ Len(Tail(availableBoxes)) = count - 1
         /\ Range(Tail(availableBoxes)) = FreeBoxes \ {Head(availableBoxes)}
         /\ \A i, j \in DOMAIN Tail(availableBoxes) :
                Tail(availableBoxes)[i] = Tail(availableBoxes)[j] => i = j
<1> USE DEF SemInv, SemTypeOK, PermitsMatchBoxes
<1>1. availableBoxes # <<>> /\ Len(availableBoxes) = count /\ count \in Nat
  BY SemaphoreAssumption
<1>2. /\ Head(availableBoxes) = availableBoxes[1]
      /\ 1 \in DOMAIN availableBoxes
      /\ Head(availableBoxes) \in Boxes
  BY <1>1
<1>3. /\ Tail(availableBoxes) \in Seq(Boxes)
      /\ Len(Tail(availableBoxes)) = count - 1
      /\ DOMAIN Tail(availableBoxes) = 1 .. count - 1
      /\ DOMAIN availableBoxes = 1 .. count
      /\ \A i \in 1 .. count - 1 :
             Tail(availableBoxes)[i] = availableBoxes[i + 1]
  BY <1>1
<1>4. \A i, j \in DOMAIN Tail(availableBoxes) :
          Tail(availableBoxes)[i] = Tail(availableBoxes)[j] => i = j
  BY <1>1, <1>3 DEF BoxExclusive
<1>5. Range(Tail(availableBoxes)) = FreeBoxes \ {Head(availableBoxes)}
  <2>1. ASSUME NEW b \in Range(Tail(availableBoxes))
        PROVE  b \in FreeBoxes \ {Head(availableBoxes)}
    <3>1. PICK i \in 1 .. count - 1 : b = availableBoxes[i + 1]
      BY <1>3 DEF Range
    <3> QED
      BY <3>1, <1>1, <1>2, <1>3 DEF FreeBoxes, Range, BoxExclusive
  <2>2. ASSUME NEW b \in FreeBoxes \ {Head(availableBoxes)}
        PROVE  b \in Range(Tail(availableBoxes))
    <3>1. PICK i \in 1 .. count : b = availableBoxes[i]
      BY <1>3 DEF FreeBoxes, Range
    <3>2. i # 1
      BY <3>1, <1>2
    <3>3. i - 1 \in 1 .. count - 1 /\ Tail(availableBoxes)[i - 1] = b
      BY <3>1, <3>2, <1>1, <1>3
    <3> QED
      BY <3>3, <1>3 DEF Range
  <2> QED
    BY <2>1, <2>2
<1> QED
  BY <1>1, <1>2, <1>3, <1>4, <1>5 DEF FreeBoxes, Range

(* acquire() keeps the invariant and loses no box.                         *)
LEMMA AcquireInv ==
  ASSUME SemInv, NEW t \in Task, Acquire(t)
  PROVE  SemInv' /\ KnownBoxes' = KnownBoxes
<1>1. CASE TakeBox(t)
  <2> USE <1>1 DEF TakeBox
  <2> DEFINE b == Head(availableBoxes)
  <2> DEFINE new == [task |-> t, box |-> b]
  <2>1. /\ b \in FreeBoxes
        /\ b \in Boxes
        /\ availableBoxes' \in Seq(Boxes)
        /\ Len(availableBoxes') = count - 1
        /\ FreeBoxes' = FreeBoxes \ {b}
        /\ \A i, j \in DOMAIN availableBoxes' :
               availableBoxes'[i] = availableBoxes'[j] => i = j
    BY HeadOfFree DEF FreeBoxes
  <2> HIDE DEF b
  <2>2. /\ held' = held \union {new}
        /\ new \in Holder
        /\ new.box = b
    BY <2>1 DEF Holder, b
  <2> HIDE DEF new
  <2>3. HeldBoxes' = HeldBoxes \union {b}
    BY <2>2 DEF HeldBoxes
  <2>4. SemTypeOK'
    BY <2>1, <2>2, SemaphoreAssumption DEF SemInv, SemTypeOK
  <2>5. BoxExclusive'
    <3>1. \A h \in held : h.box # b
      BY <2>1 DEF SemInv, BoxExclusive, HeldBoxes
    <3>2. \A h, k \in held' : h.box = k.box => h = k
      BY <3>1, <2>2 DEF SemInv, BoxExclusive
    <3>3. FreeBoxes' \cap HeldBoxes' = {}
      BY <2>1, <2>3 DEF SemInv, BoxExclusive
    <3> QED
      BY <2>1, <3>2, <3>3 DEF BoxExclusive
  <2>6. PermitsMatchBoxes' /\ NoIdlePermit'
    BY <2>1 DEF SemInv, PermitsMatchBoxes, NoIdlePermit
  <2>7. KnownBoxes' = KnownBoxes
    BY <2>1, <2>3 DEF KnownBoxes
  <2> QED
    BY <2>4, <2>5, <2>6, <2>7 DEF SemInv
<1>2. CASE Park(t)
  <2> USE <1>2 DEF Park
  <2>1. FreeBoxes' = FreeBoxes /\ HeldBoxes' = HeldBoxes
    BY DEF FreeBoxes, HeldBoxes
  <2>2. SemTypeOK'
    BY DEF SemInv, SemTypeOK
  <2>3. BoxExclusive'
    BY <2>1 DEF SemInv, BoxExclusive
  <2>4. PermitsMatchBoxes' /\ NoIdlePermit'
    BY DEF SemInv, PermitsMatchBoxes, NoIdlePermit
  <2> QED
    BY <2>1, <2>2, <2>3, <2>4 DEF SemInv, KnownBoxes
<1> QED
  BY <1>1, <1>2 DEF Acquire

(* release() keeps the invariant and loses no box.                         *)
LEMMA ReleaseInv ==
  ASSUME SemInv, NEW h \in held, Release(h)
  PROVE  SemInv' /\ KnownBoxes' = KnownBoxes
<1>0. /\ h \in Holder
      /\ h.box \in Boxes
      /\ h.box \in HeldBoxes
      /\ h.box \notin FreeBoxes
      /\ \A k \in held \ {h} : k.box # h.box
  BY DEF SemInv, SemTypeOK, BoxExclusive, HeldBoxes, Holder
<1>1. CASE HandOver(h)
  <2> USE <1>1 DEF HandOver
  <2> DEFINE new == [task |-> Head(queue), box |-> h.box]
  <2>1. Head(queue) \in Task /\ Tail(queue) \in Seq(Task)
    BY DEF SemInv, SemTypeOK
  <2>2. /\ held' = (held \ {h}) \union {new}
        /\ new \in Holder
        /\ new.box = h.box
    BY <2>1, <1>0 DEF Holder
  <2> HIDE DEF new
  <2>3. FreeBoxes' = FreeBoxes
    BY DEF FreeBoxes
  <2>4. HeldBoxes' = HeldBoxes
    BY <2>2, <1>0 DEF HeldBoxes
  <2>5. SemTypeOK'
    BY <2>1, <2>2 DEF SemInv, SemTypeOK
  <2>6. \A k, l \in held' : k.box = l.box => k = l
    BY <2>2, <1>0 DEF SemInv, BoxExclusive
  <2>7. BoxExclusive'
    BY <2>3, <2>4, <2>6 DEF SemInv, BoxExclusive
  <2>8. PermitsMatchBoxes' /\ NoIdlePermit'
    BY DEF SemInv, PermitsMatchBoxes, NoIdlePermit
  <2> QED
    BY <2>3, <2>4, <2>5, <2>7, <2>8 DEF SemInv, KnownBoxes
<1>2. CASE PutBack(h)
  <2> USE <1>2 DEF PutBack
  <2>1. /\ availableBoxes \in Seq(Boxes)
        /\ count = Len(availableBoxes)
        /\ count \in 0 .. Workers
    BY DEF SemInv, SemTypeOK, PermitsMatchBoxes
  <2>2. /\ availableBoxes' \in Seq(Boxes)
        /\ Len(availableBoxes') = count + 1
        /\ DOMAIN availableBoxes' = 1 .. count + 1
        /\ DOMAIN availableBoxes = 1 .. count
        /\ availableBoxes'[count + 1] = h.box
        /\ \A i \in 1 .. count : availableBoxes'[i] = availableBoxes[i]
    BY <2>1, <1>0
  <2>3. FreeBoxes' = FreeBoxes \union {h.box}
    BY <2>1, <2>2 DEF FreeBoxes, Range
  <2>4. HeldBoxes' = HeldBoxes \ {h.box}
    BY <1>0 DEF HeldBoxes
  <2>5. \A i, j \in DOMAIN availableBoxes' :
            availableBoxes'[i] = availableBoxes'[j] => i = j
    <3>1. \A i \in 1 .. count : availableBoxes[i] # h.box
      BY <2>2, <1>0 DEF FreeBoxes, Range
    <3> QED
      BY <3>1, <2>1, <2>2 DEF SemInv, BoxExclusive
  <2>6. BoxExclusive'
    BY <2>3, <2>4, <2>5 DEF SemInv, BoxExclusive
  <2>7. count' \in 0 .. Workers
    BY <2>2, <2>5, FreeListBounded
  <2>8. KnownBoxes' = KnownBoxes
    BY <2>3, <2>4, <1>0 DEF KnownBoxes
  <2> QED
    BY <2>2, <2>6, <2>7, <2>8
    DEF SemInv, SemTypeOK, PermitsMatchBoxes, NoIdlePermit
<1> QED
  BY <1>1, <1>2 DEF Release

(* A holder that is dropped leaves the others exclusive, and its box is    *)
(* the one that nobody knows of any more.                                  *)
LEMMA DropInv ==
  ASSUME SemInv, NEW h \in held, Drop(h)
  PROVE  /\ SemInv'
         /\ h.box \in Boxes
         /\ h.box \in KnownBoxes
         /\ KnownBoxes' = KnownBoxes \ {h.box}
<1>1. held' \subseteq held /\ UNCHANGED <<count, availableBoxes, queue>>
  BY DEF Drop
<1>2. HeldBoxes' \subseteq HeldBoxes /\ FreeBoxes' = FreeBoxes
  BY <1>1 DEF HeldBoxes, FreeBoxes
<1>3. SemInv'
  BY <1>1, <1>2 DEF SemInv, SemTypeOK, BoxExclusive, PermitsMatchBoxes, NoIdlePermit
<1>4. /\ h.box \in Boxes /\ h.box \in HeldBoxes /\ h.box \notin FreeBoxes
      /\ \A k \in held : k.box = h.box => k = h
  BY DEF SemInv, SemTypeOK, Holder, BoxExclusive, HeldBoxes
<1>5. HeldBoxes' = HeldBoxes \ {h.box}
  BY <1>4 DEF Drop, HeldBoxes
<1> QED
  BY <1>2, <1>3, <1>4, <1>5 DEF KnownBoxes

(* A service that is built afresh, after a restart, satisfies it too.      *)
LEMMA SemRestartInv == SemInit' => SemInv' /\ BoxesConserved'
BY SemInitInv, PTL

(* The service's own calls leave nobody out: every step of the semaphore   *)
(* keeps the invariant and conserves the boxes.                            *)
LEMMA SemStepInv ==
  ASSUME SemInv, BoxesConserved, [SemNext]_semVars
  PROVE  SemInv' /\ BoxesConserved'
<1>0. KnownBoxes' = KnownBoxes => BoxesConserved'
  BY DEF KnownBoxes, BoxesConserved, Boxes
<1>1. ASSUME NEW t \in Task, Acquire(t)
      PROVE  SemInv' /\ BoxesConserved'
  BY <1>0, <1>1, AcquireInv
<1>2. ASSUME NEW h \in held, Release(h)
      PROVE  SemInv' /\ BoxesConserved'
  BY <1>0, <1>2, ReleaseInv
<1>3. CASE UNCHANGED semVars
  BY <1>3 DEF semVars, SemInv, SemTypeOK, BoxExclusive, PermitsMatchBoxes,
              NoIdlePermit, BoxesConserved, FreeBoxes, HeldBoxes
<1> QED
  BY <1>1, <1>2, <1>3 DEF SemNext

-----------------------------------------------------------------------------
(* The invariant holds in every reachable state.                           *)
LEMMA SemInvariance == SemSpec => [](SemInv /\ BoxesConserved)
<1>1. SemInit => SemInv /\ BoxesConserved
  BY SemInitInv
<1>2. SemInv /\ BoxesConserved /\ [SemNext]_semVars
      => (SemInv /\ BoxesConserved)'
  BY SemStepInv
<1> QED
  BY <1>1, <1>2, PTL DEF SemSpec

(* Type correctness, the bound 0..Workers of the permit count included.    *)
THEOREM SemTypeCorrect == SemSpec => []SemTypeOK
<1>1. SemInv => SemTypeOK
  BY DEF SemInv
<1> QED
  BY <1>1, SemInvariance, PTL

(* No two live requests hold the same isolate box, and no box in use is    *)
(* in the free list, however acquire() and release() calls interleave.     *)
THEOREM SemBoxExclusive == SemSpec => []BoxExclusive
<1>1. SemInv => BoxExclusive
  BY DEF SemInv
<1> QED
  BY <1>1, SemInvariance, PTL

(* A request is parked only while every box is in use.                     *)
THEOREM SemNoIdlePermit == SemSpec => []NoIdlePermit
<1>1. SemInv => NoIdlePermit
  BY DEF SemInv
<1> QED
  BY <1>1, SemInvariance, PTL

(* acquire() and release() lose no box.                                    *)
THEOREM SemBoxesConserved == SemSpec => []BoxesConserved
BY SemInvariance, PTL

(* Nobody is overtaken: whoever is given a box while others are parked is  *)
(* the one parked longest, and the parked only move up when the first of   *)
(* them is given one (release() shifts waiting callers off the front).     *)
THEOREM SemServesInOrder ==
  SemSpec =>
    [][/\ \A h \in held' \ held : queue = <<>> \/ h.task = Head(queue)
       /\ \/ queue' = queue
          \/ \E t \in Task : queue' = Append(queue, t)
          \/ queue' = Tail(queue) /\ \E h \in held' : h.task = Head(queue)]_semVars
<1> DEFINE InOrder ==
        /\ \A h \in held' \ held : queue = <<>> \/ h.task = Head(queue)
        /\ \/ queue' = queue
           \/ \E t \in Task : queue' = Append(queue, t)
           \/ queue' = Tail(queue) /\ \E h \in held' : h.task = Head(queue)
<1>1. ASSUME SemInv, NEW t \in Task, Acquire(t)
      PROVE  InOrder
  <2>1. CASE TakeBox(t)
    <3>1. count > 0 /\ queue' = queue
      BY <2>1 DEF TakeBox
    <3>2. queue = <<>>
      BY <1>1, <3>1 DEF SemInv, NoIdlePermit
    <3> QED
      BY <3>1, <3>2
  <2>2. CASE Park(t)
    BY <2>2 DEF Park
  <2> QED
    BY <1>1, <2>1, <2>2 DEF Acquire
<1>2. ASSUME NEW h \in held, Release(h)
      PROVE  InOrder
  <2>1. CASE HandOver(h)
    <3> DEFINE new == [task |-> Head(queue), box |-> h.box]
    <3>1. new.task = Head(queue)
      OBVIOUS
    <3>2. held' = (held \ {h}) \union {new} /\ queue' = Tail(queue)
      BY <2>1 DEF HandOver
    <3> HIDE DEF new
    <3> QED
      BY <3>1, <3>2
  <2>2. CASE PutBack(h)
    BY <2>2 DEF PutBack
  <2> QED
    BY <1>2, <2>1, <2>2 DEF Release
<1>3. SemInv /\ [SemNext]_semVars => [InOrder]_semVars
  BY <1>1, <1>2 DEF SemNext
<1> QED
  BY <1>3, SemInvariance, PTL DEF SemSpec

=============================================================================
