--------------------------- MODULE TestCasesProofs ----------------------------
(* First the cache alone: coalescing and the order of versions in          *)
(* getOrSet, for every number of keys, calls and versions.  Then the tests *)
(* a judging is given, for every number of tests, keys, calls, versions    *)
(* and every page size.                                                    *)
EXTENDS TestCases, FiniteSetTheorems, TLAPS

(* The map and the promise chains name each other: a chain that is under   *)
(* way is the entry of its key.  A call that has not gone past the map has *)
(* no chain of its own yet, so StartFetch cannot restart one.              *)
EntryInv ==
    /\ \A f \in Fetch : Underway(f) => inFlight[KeyOf[f]] = f
    /\ NoStaleEntry
    /\ \A c \in Caller : caller[c] \in {"idle", "asking", "looked"} => fetch[c] = "none"
    /\ \A c \in Caller : caller[c] = "waiting" =>
           joined[c] \in Fetch /\ KeyOf[joined[c]] = KeyOf[c]
    /\ \A f \in Fetch : fetch[f] \in {"none", "reading"} => fetched[f] = Null

(* No value of the key that is stored, has been returned or may still be   *)
(* returned is newer than v.                                               *)
AtMost(k, v) ==
    /\ store[k] <= v
    /\ newest[k] <= v
    /\ \A c \in Caller : KeyOf[c] = k =>
           /\ value[c] <= v
           /\ fetch[c] \in {"fulfilled", "answer"} => fetched[c] <= v

(* The files are the newest; what Redis holds is newer than all that any   *)
(* call has seen, and so is what a fetch under way has read.               *)
VersionInv ==
    /\ \A k \in Key : AtMost(k, source[k])
    /\ \A f \in Fetch : fetched[f] <= source[KeyOf[f]]
    /\ \A k \in Key : store[k] # Null => AtMost(k, store[k])
    /\ \A f \in Fetch :
           fetch[f] \in {"setting", "fulfilled"} /\ fetched[f] # Null =>
               AtMost(KeyOf[f], fetched[f])

(* What a call has been given, or will be, is no older than its floor.     *)
FloorInv ==
    /\ \A c \in Caller : floor[c] <= newest[KeyOf[c]]
    /\ \A c \in Caller :
           caller[c] \in {"looked", "answered"} /\ value[c] # Null => value[c] >= floor[c]
    /\ \A c \in Caller :
           (/\ caller[c] = "waiting"
            /\ fetch[joined[c]] \in {"setting", "fulfilled", "answer"}
            /\ fetched[joined[c]] # Null)
           => fetched[joined[c]] >= floor[c]

CacheInv == TypeOK /\ EntryInv /\ VersionInv /\ FloorInv

-----------------------------------------------------------------------------
LEMMA CacheInitInv == Init => CacheInv
<1> SUFFICES ASSUME Init
             PROVE  CacheInv
  OBVIOUS
<1> USE CacheAssumption DEF Init
<1>1. TypeOK
  BY DEF TypeOK, Version, Fetch, Null
<1>2. EntryInv
  BY DEF EntryInv, NoStaleEntry, Underway, Fetch
<1>3. VersionInv
  BY DEF VersionInv, AtMost, Fetch, Null
<1>4. FloorInv
  BY DEF FloorInv, Fetch, Null
<1> QED
  BY <1>1, <1>2, <1>3, <1>4 DEF CacheInv

(* A call that moves on, or answers with a value that is already bounded,  *)
(* keeps every bound.                                                      *)
LEMMA AnswerKeepsBounds ==
  ASSUME TypeOK, NEW c \in Caller, NEW v \in Version \union {Null},
         NEW k \in Key, NEW n \in Nat, AtMost(k, n),
         Answer(c, v), UNCHANGED <<redis, fetches>>,
         KeyOf[c] = k => v <= n
  PROVE  /\ store'[k] <= n /\ newest'[k] <= n
         /\ \A d \in Caller : KeyOf[d] = k =>
                /\ value'[d] <= n
                /\ fetch'[d] \in {"fulfilled", "answer"} => fetched'[d] <= n
BY CacheAssumption
DEF TypeOK, AtMost, Answer, redis, fetches, Version, Null

(* The files change or Redis forgets.                                      *)
LEMMA SourceInv ==
  ASSUME CacheInv, NEW k \in Key, ChangeFiles(k) \/ Expire(k)
  PROVE  CacheInv'
<1> USE CacheAssumption DEF CacheInv
<1>1. TypeOK'
  BY DEF TypeOK, ChangeFiles, Expire, fetches, calls, Version, Null
<1>2. EntryInv'
  BY DEF EntryInv, NoStaleEntry, Underway, ChangeFiles, Expire, fetches, calls
<1>3. VersionInv'
  <2>1. CASE ChangeFiles(k)
    BY <2>1 DEF TypeOK, VersionInv, AtMost, ChangeFiles, fetches, calls, Version, Null, Fetch
  <2>2. CASE Expire(k)
    BY <2>2 DEF TypeOK, VersionInv, AtMost, Expire, fetches, calls, Version, Null, Fetch
  <2> QED
    BY <2>1, <2>2
<1>4. FloorInv'
  BY DEF FloorInv, ChangeFiles, Expire, fetches, calls
<1> QED
  BY <1>1, <1>2, <1>3, <1>4

(* A call begins, or gets the answer of Redis.                             *)
LEMMA AskInv ==
  ASSUME CacheInv, NEW c \in Caller, Ask(c) \/ RedisAnswers(c) \/ RedisFails(c)
  PROVE  CacheInv'
<1> USE CacheAssumption DEF CacheInv
<1>1. TypeOK'
  BY DEF TypeOK, Ask, RedisAnswers, RedisFails, Reject, redis, fetches, Version, Null
<1>2. EntryInv'
  BY DEF TypeOK, EntryInv, NoStaleEntry, Underway, Ask, RedisAnswers, RedisFails, Reject,
         redis, fetches
<1>3. VersionInv'
  <2>1. CASE Ask(c) \/ RedisFails(c)
    BY <2>1 DEF VersionInv, AtMost, Ask, RedisFails, Reject, redis, fetches
  <2>2. CASE RedisAnswers(c)
    BY <2>2 DEF TypeOK, VersionInv, AtMost, RedisAnswers, redis, fetches
  <2> QED
    BY <2>1, <2>2
<1>4. FloorInv'
  <2>1. CASE Ask(c)
    BY <2>1 DEF TypeOK, FloorInv, Ask, redis, fetches, Version, Null
  <2>2. CASE RedisAnswers(c)
    BY <2>2 DEF TypeOK, FloorInv, VersionInv, AtMost, RedisAnswers, redis, fetches, Version, Null
  <2>3. CASE RedisFails(c)
    BY <2>3 DEF TypeOK, FloorInv, RedisFails, Reject, redis, fetches
  <2> QED
    BY <2>1, <2>2, <2>3
<1> QED
  BY <1>1, <1>2, <1>3, <1>4

(* A call answers with a value that nothing newer than which was shown.    *)
LEMMA AnswerInv ==
  ASSUME CacheInv, NEW c \in Caller, NEW v \in Version \union {Null},
         Answer(c, v), UNCHANGED <<redis, fetches>>,
         caller[c] \in {"looked", "waiting"},
         \A n \in Nat : AtMost(KeyOf[c], n) => v <= n,
         v # Null => v >= floor[c]
  PROVE  CacheInv'
<1> USE CacheAssumption DEF CacheInv
<1>1. TypeOK'
  BY DEF TypeOK, Answer, redis, fetches, Version, Null
<1>2. EntryInv'
  BY DEF TypeOK, EntryInv, NoStaleEntry, Underway, Answer, redis, fetches
<1>3. VersionInv'
  <2>1. ASSUME NEW k \in Key, NEW n \in Nat, AtMost(k, n)
        PROVE  /\ store'[k] <= n /\ newest'[k] <= n
               /\ \A d \in Caller : KeyOf[d] = k =>
                      /\ value'[d] <= n
                      /\ fetch'[d] \in {"fulfilled", "answer"} => fetched'[d] <= n
    BY <2>1, AnswerKeepsBounds
  <2>2. \A k \in Key : source[k] \in Nat /\ store[k] \in Nat
    BY DEF TypeOK, Version, Null
  <2>3. \A f \in Fetch : fetched[f] \in Nat /\ KeyOf[f] \in Key
    BY DEF TypeOK, Version, Null, Fetch
  <2>4. UNCHANGED <<source, store, fetch, fetched>>
    BY DEF redis, fetches
  <2>5. \A k \in Key : AtMost(k, source[k])'
    BY <2>1, <2>2, <2>4 DEF VersionInv, AtMost
  <2>6. \A k \in Key : store'[k] # Null => AtMost(k, store[k])'
    BY <2>1, <2>2, <2>4 DEF VersionInv, AtMost
  <2>7. \A f \in Fetch : (fetch'[f] \in {"setting", "fulfilled"} /\ fetched'[f] # Null) =>
                             AtMost(KeyOf[f], fetched[f])'
    BY <2>1, <2>3, <2>4 DEF VersionInv, AtMost
  <2>8. \A f \in Fetch : fetched'[f] <= source'[KeyOf[f]]
    BY <2>4 DEF VersionInv
  <2> QED
    BY <2>5, <2>6, <2>7, <2>8 DEF VersionInv
<1>4. FloorInv'
  BY DEF TypeOK, FloorInv, Answer, redis, fetches, Version, Null
<1> QED
  BY <1>1, <1>2, <1>3, <1>4

(* The value of Redis is returned, or the outcome of the promise.          *)
LEMMA HitInv ==
  ASSUME CacheInv, NEW c \in Caller, Hit(c)
  PROVE  CacheInv'
<1>1. Answer(c, value[c]) /\ value[c] \in Version \union {Null} /\ KeyOf[c] \in Key
  BY CacheAssumption DEF Hit, CacheInv, TypeOK
<1>2. \A n \in Nat : AtMost(KeyOf[c], n) => value[c] <= n
  BY DEF AtMost
<1>3. value[c] >= floor[c]
  BY DEF Hit, CacheInv, FloorInv
<1>4. caller[c] \in {"looked", "waiting"} /\ UNCHANGED <<redis, fetches>>
  BY DEF Hit
<1> QED
  BY <1>1, <1>2, <1>3, <1>4, AnswerInv

LEMMA ReturnInv ==
  ASSUME CacheInv, NEW c \in Caller, Return(c)
  PROVE  CacheInv'
<1> DEFINE f == joined[c]
<1>1. /\ f \in Fetch /\ KeyOf[f] = KeyOf[c] /\ caller[c] = "waiting"
      /\ UNCHANGED <<redis, fetches>>
  BY DEF Return, CacheInv, EntryInv
<1>2. CASE fetch[f] = "answer"
  <2>1. Answer(c, fetched[f]) /\ fetched[f] \in Version \union {Null}
    BY <1>1, <1>2 DEF Return, CacheInv, TypeOK
  <2>2. \A n \in Nat : AtMost(KeyOf[c], n) => fetched[f] <= n
    BY <1>1, <1>2 DEF AtMost, Fetch
  <2>3. fetched[f] # Null => fetched[f] >= floor[c]
    BY <1>1, <1>2 DEF CacheInv, FloorInv
  <2> QED
    BY <1>1, <2>1, <2>2, <2>3, AnswerInv
<1>3. CASE fetch[f] # "answer"
  <2>1. Reject(c) /\ UNCHANGED <<redis, fetches>>
    BY <1>3 DEF Return
  <2> USE CacheAssumption, <1>1, <2>1 DEF CacheInv, Reject, redis, fetches
  <2>2. TypeOK'
    BY DEF TypeOK
  <2>3. EntryInv'
    BY DEF TypeOK, EntryInv, NoStaleEntry, Underway
  <2>4. VersionInv'
    BY DEF VersionInv, AtMost
  <2>5. FloorInv'
    BY DEF TypeOK, FloorInv
  <2> QED
    BY <2>2, <2>3, <2>4, <2>5
<1> QED
  BY <1>2, <1>3


(* A call joins the fetch that is under way: whatever that has read is no  *)
(* older than what was shown before.                                       *)
LEMMA CoalesceInv ==
  ASSUME CacheInv, NEW c \in Caller, Coalesce(c)
  PROVE  CacheInv'
<1> USE CacheAssumption DEF CacheInv, Coalesce, Join, redis, fetches
<1>1. TypeOK'
  BY DEF TypeOK
<1> DEFINE f == inFlight[KeyOf[c]]
<1>2. f \in Fetch /\ KeyOf[f] = KeyOf[c] /\ Underway(f) /\ KeyOf[c] \in Key
  <2>1. KeyOf[c] \in Key /\ f # NoFetch
    OBVIOUS
  <2>2. f \in Fetch
    BY <2>1 DEF TypeOK
  <2> QED
    BY <2>1, <2>2 DEF EntryInv, NoStaleEntry
<1>3. EntryInv'
  <2>1. /\ caller' = [caller EXCEPT ![c] = "waiting"]
        /\ joined' = [joined EXCEPT ![c] = f]
        /\ UNCHANGED <<inFlight, fetch, fetched>>
    OBVIOUS
  <2>2. \A d \in Caller : caller'[d] = "waiting" =>
            joined'[d] \in Fetch /\ KeyOf[joined'[d]] = KeyOf[d]
    BY <1>2, <2>1 DEF TypeOK, EntryInv
  <2>3. \A d \in Caller : caller'[d] \in {"idle", "asking", "looked"} => fetch'[d] = "none"
    BY <2>1 DEF TypeOK, EntryInv
  <2>4. /\ \A g \in Fetch : Underway(g)' => inFlight'[KeyOf[g]] = g
        /\ NoStaleEntry'
        /\ \A g \in Fetch : fetch'[g] \in {"none", "reading"} => fetched'[g] = Null
    BY <2>1 DEF EntryInv, NoStaleEntry, Underway
  <2> QED
    BY <2>2, <2>3, <2>4 DEF EntryInv
<1>4. VersionInv'
  BY DEF VersionInv, AtMost
<1>5. FloorInv'
  <2>1. fetch[f] \in {"setting", "fulfilled"} /\ fetched[f] # Null => fetched[f] >= floor[c]
    <3>1. ASSUME fetch[f] \in {"setting", "fulfilled"}, fetched[f] # Null
          PROVE  newest[KeyOf[c]] <= fetched[f]
      BY <1>2, <3>1 DEF VersionInv, AtMost
    <3>2. floor[c] <= newest[KeyOf[c]]
      BY DEF FloorInv
    <3>3. newest[KeyOf[c]] \in Nat /\ floor[c] \in Nat /\ fetched[f] \in Nat
      BY <1>2 DEF TypeOK, Version, Null
    <3> QED
      BY <3>1, <3>2, <3>3
  <2> QED
    BY <1>2, <2>1 DEF TypeOK, FloorInv, Underway
<1> QED
  BY <1>1, <1>3, <1>4, <1>5

(* A call finds no entry and starts a chain of its own.                    *)
LEMMA StartFetchInv ==
  ASSUME CacheInv, NEW c \in Caller, StartFetch(c)
  PROVE  CacheInv'
<1> USE CacheAssumption DEF CacheInv, StartFetch, StartFetchOfOwn, Join, redis
<1>1. TypeOK'
  BY DEF TypeOK, Fetch
<1>2. EntryInv'
  <2>1. fetch[c] = "none" /\ inFlight[KeyOf[c]] = NoFetch /\ KeyOf[c] \in Key
    BY DEF EntryInv, TypeOK
  <2>2. (\A f \in Fetch : Underway(f) => inFlight[KeyOf[f]] = f)'
    BY <2>1 DEF TypeOK, EntryInv, Underway, Fetch
  <2>3. NoStaleEntry'
    BY <2>1 DEF TypeOK, EntryInv, NoStaleEntry, Underway, Fetch
  <2> QED
    BY <2>1, <2>2, <2>3 DEF TypeOK, EntryInv, Fetch
<1>3. VersionInv'
  BY DEF TypeOK, VersionInv, AtMost, Fetch
<1>4. FloorInv'
  BY DEF TypeOK, EntryInv, FloorInv, Fetch
<1> QED
  BY <1>1, <1>2, <1>3, <1>4

-----------------------------------------------------------------------------
(* A chain that goes on under way, or settles: the map and its chains.     *)
LEMMA FetchEntryInv ==
  ASSUME CacheInv, NEW f \in Fetch, FetchStep(f)
  PROVE  TypeOK' /\ EntryInv'
<1> USE CacheAssumption
    DEF CacheInv, FetchReads, FetchReadsNull, FetchStores, FetchFails, Settle,
        Advance, redis, calls, Fetch
<1>1. TypeOK'
  BY DEF TypeOK, FetchStep, Version, Null
<1>2. CASE FetchReads(f) \/ FetchReadsNull(f) \/ FetchStores(f) \/ FetchFails(f)
  BY <1>2 DEF TypeOK, EntryInv, NoStaleEntry, Underway
<1>3. CASE Settle(f)
  <2>1. inFlight[KeyOf[f]] = f /\ KeyOf[f] \in Key
    BY <1>3 DEF TypeOK, EntryInv, Underway
  <2>2. \A g \in Caller : Underway(g)' => g # f /\ Underway(g) /\ KeyOf[g] # KeyOf[f]
    BY <1>3, <2>1 DEF TypeOK, EntryInv, Underway
  <2> QED
    BY <1>3, <2>1, <2>2 DEF TypeOK, EntryInv, NoStaleEntry, Underway
<1> QED
  BY <1>1, <1>2, <1>3 DEF FetchStep

(* What a fetch reads is as new as can be; what it stores replaces nothing *)
(* newer, because no other fetch of the key is under way.                  *)
LEMMA FetchVersionInv ==
  ASSUME CacheInv, NEW f \in Fetch, FetchStep(f)
  PROVE  VersionInv' /\ FloorInv'
<1> USE CacheAssumption DEF CacheInv, Advance, redis, calls, Fetch, Version, Null
<1>1. CASE FetchReads(f)
  BY <1>1 DEF TypeOK, VersionInv, AtMost, FloorInv, EntryInv, FetchReads
<1>2. CASE FetchReadsNull(f)
  BY <1>2 DEF TypeOK, VersionInv, AtMost, FloorInv, EntryInv, FetchReadsNull
<1>3. CASE FetchStores(f)
  <2>1. /\ fetched[f] \in Nat /\ KeyOf[f] \in Key
        /\ \A g \in Caller : (Underway(g) /\ KeyOf[g] = KeyOf[f]) => g = f
    BY <1>3 DEF TypeOK, EntryInv, Underway, FetchStores
  <2>2. /\ store' = [store EXCEPT ![KeyOf[f]] = fetched[f]]
        /\ fetch' = [fetch EXCEPT ![f] = "fulfilled"]
        /\ UNCHANGED <<source, fetched, caller, joined, value, newest, floor>>
        /\ fetch[f] = "setting"
    BY <1>3 DEF FetchStores
  <2>3. fetched[f] # Null => AtMost(KeyOf[f], fetched[f])
    BY <2>2 DEF VersionInv
  <2>4. \A k \in Key : AtMost(k, source[k])'
    BY <2>1, <2>2 DEF TypeOK, VersionInv, AtMost
  <2>5. \A g \in Fetch : fetched'[g] <= source'[KeyOf[g]]
    BY <2>2 DEF VersionInv
  <2>6. \A k \in Key : store'[k] # Null => AtMost(k, store[k])'
    BY <2>1, <2>2, <2>3 DEF TypeOK, VersionInv, AtMost
  <2>7. \A g \in Fetch : (fetch'[g] \in {"setting", "fulfilled"} /\ fetched'[g] # Null) =>
                             AtMost(KeyOf[g], fetched[g])'
    BY <2>1, <2>2, <2>3 DEF TypeOK, VersionInv, AtMost, Underway
  <2>8. FloorInv'
    BY <2>2 DEF TypeOK, FloorInv
  <2> QED
    BY <2>4, <2>5, <2>6, <2>7, <2>8 DEF VersionInv
<1>4. CASE FetchFails(f)
  BY <1>4 DEF TypeOK, VersionInv, AtMost, FloorInv, FetchFails
<1>5. CASE Settle(f)
  BY <1>5 DEF TypeOK, VersionInv, AtMost, FloorInv, Settle
<1> QED
  BY <1>1, <1>2, <1>3, <1>4, <1>5 DEF FetchStep

LEMMA CacheStepInv == CacheInv /\ [Next]_vars => CacheInv'
<1> SUFFICES ASSUME CacheInv, [Next]_vars
             PROVE  CacheInv'
  OBVIOUS
<1>1. ASSUME NEW k \in Key, ChangeFiles(k) \/ Expire(k)
      PROVE  CacheInv'
  BY <1>1, SourceInv
<1>2. ASSUME NEW c \in Caller, Ask(c) \/ CallStep(c)
      PROVE  CacheInv'
  BY <1>2, AskInv, HitInv, CoalesceInv, StartFetchInv, ReturnInv DEF CallStep
<1>3. ASSUME NEW f \in Fetch, FetchStep(f)
      PROVE  CacheInv'
  BY <1>3, FetchEntryInv, FetchVersionInv DEF CacheInv
<1>4. CASE UNCHANGED vars
  BY <1>4
  DEF vars, CacheInv, TypeOK, EntryInv, NoStaleEntry, Underway, VersionInv, AtMost, FloorInv
<1> QED
  BY <1>1, <1>2, <1>3, <1>4 DEF Next

LEMMA CacheInvariance == Spec => []CacheInv
BY CacheInitInv, CacheStepInv, PTL DEF Spec

-----------------------------------------------------------------------------
(* The fields of the service, Redis and the promises keep their types.     *)
THEOREM CacheTypeCorrect == Spec => []TypeOK
<1>1. CacheInv => TypeOK
  BY DEF CacheInv
<1> QED
  BY <1>1, CacheInvariance, PTL

(* However many calls miss at once, one fetch of a key is under way.       *)
THEOREM CacheCoalesces == Spec => []OneFetchPerKey
<1>1. CacheInv => OneFetchPerKey
  BY DEF CacheInv, EntryInv, OneFetchPerKey
<1> QED
  BY <1>1, CacheInvariance, PTL

(* The inFlight map holds no promise that has settled.                     *)
THEOREM CacheForgetsFailures == Spec => []NoStaleEntry
<1>1. CacheInv => NoStaleEntry
  BY DEF CacheInv, EntryInv
<1> QED
  BY <1>1, CacheInvariance, PTL

(* A call that begins after another has returned gets no older value,      *)
(* through hits, joined fetches, expiry and failures.                      *)
THEOREM CacheMovesForward == Spec => []AnswersMoveForward
<1>1. CacheInv => AnswersMoveForward
  BY DEF CacheInv, FloorInv, AnswersMoveForward
<1> QED
  BY <1>1, CacheInvariance, PTL

-----------------------------------------------------------------------------

(* A fetch whose tests may be given to calls.                              *)
Read(f) == fetch[f] \in {"fulfilled", "answer"}

Complete(f) == \A n \in Keys(f) : got[f][n] # Absent

(* All that g has read was written by the time f listed the files.         *)
Older(g, f) == g = f \/ \A n \in Keys(f) : got[g][n] <= listed[f][n]

AllOlder(c, f) == \A g \in before[c] : Older(g, f)

(* Nothing that was read is newer than what the bucket still has.          *)
BucketInv ==
    /\ \A k \in Key : \A n \in File : stored[k][n] <= source[k]
    /\ \A f \in Fetch : \A n \in File :
           /\ got[f][n] <= source[KeyOf[f]]
           /\ stored[KeyOf[f]][n] # Absent => got[f][n] <= stored[KeyOf[f]][n]

(* A file is as it was listed, or newer than the listing, or gone.         *)
ReadInv ==
    \A f \in Fetch :
        /\ fetch[f] \in {"none", "reading"} => listed[f] = Nothing /\ got[f] = Nothing
        /\ Read(f) => Complete(f)
        /\ Read(f) \/ fetch[f] = "setting" => fetched[f] # Null
        /\ \A n \in File :
               /\ listed[f][n] <= fetched[f]
               /\ \/ stored[KeyOf[f]][n] \in {Absent, listed[f][n]}
                  \/ stored[KeyOf[f]][n] > fetched[f]
               /\ got[f][n] \in {Absent, listed[f][n]} \/ got[f][n] > fetched[f]

(* The fetch under way is the newest of its key, and Redis holds the newest*)
(* of those that may have been given to anybody.                           *)
OrderInv ==
    /\ \A f, g \in Fetch :
           KeyOf[f] = KeyOf[g] /\ fetch[f] \in {"setting", "fulfilled"} => Older(g, f)
    /\ \A k \in Key : store[k] # Null <=> cachedBy[k] # NoFetch
    /\ \A k \in Key : cachedBy[k] # NoFetch =>
           /\ KeyOf[cachedBy[k]] = k
           /\ Read(cachedBy[k])
           /\ store[k] = fetched[cachedBy[k]]
           /\ \A g \in Fetch : KeyOf[g] = k /\ Read(g) => Older(g, cachedBy[k])

(* A call is given, or waits for, something that is no older than what was *)
(* given to anybody before it began.                                       *)
CallInv ==
    \A c \in Caller :
        /\ \A g \in before[c] : Read(g) /\ KeyOf[g] = KeyOf[c]
        /\ caller[c] \in {"idle", "asking", "waiting"} => hit[c] = NoFetch
        /\ caller[c] = "looked" => (value[c] # Null <=> hit[c] # NoFetch)
        /\ hit[c] # NoFetch =>
               /\ Read(hit[c]) /\ KeyOf[hit[c]] = KeyOf[c]
               /\ value[c] = fetched[hit[c]] /\ AllOlder(c, hit[c])
        /\ caller[c] = "waiting" /\ fetch[joined[c]] \in {"setting", "fulfilled", "answer"}
               => AllOlder(c, joined[c])
        /\ caller[c] = "answered" /\ hit[c] = NoFetch =>
               /\ joined[c] \in Fetch /\ KeyOf[joined[c]] = KeyOf[c] /\ Read(joined[c])
               /\ value[c] = fetched[joined[c]] /\ AllOlder(c, joined[c])

SuiteInv == SuiteTypeOK /\ BucketInv /\ ReadInv /\ OrderInv /\ CallInv

-----------------------------------------------------------------------------
(* A listing that fits its page is whole.                                  *)
LEMMA FullPage ==
  ASSUME NEW S \in SUBSET File, Cardinality(S) <= Page
  PROVE  FirstPage(S) = S
<1>1. IsFiniteSet(S)
  <2>1. IsFiniteSet(File)
    BY TestCasesAssumption, FS_Interval DEF File, Folder, Out
  <2> QED
    BY <2>1, FS_Subset
<1>2. ASSUME NEW n \in S
      PROVE  Cardinality({m \in S : m <= n}) <= Page
  <2>1. {m \in S : m <= n} \subseteq S
    OBVIOUS
  <2>2. Cardinality({m \in S : m <= n}) <= Cardinality(S)
    BY <1>1, <2>1, FS_Subset
  <2>3. Cardinality({m \in S : m <= n}) \in Nat /\ Cardinality(S) \in Nat
    BY <1>1, <2>1, FS_Subset, FS_CardinalityType
  <2> QED
    BY <2>2, <2>3, TestCasesAssumption
<1> QED
  BY <1>2 DEF FirstPage

(* A set of keys is made of files that were listed, and never changes.     *)
LEMMA KeysListed ==
  ASSUME NEW f
  PROVE  Keys(f) \subseteq File /\ \A n \in Keys(f) : listed[f][n] # Absent
BY DEF Keys, FirstPage, Held

LEMMA KeysStay ==
  ASSUME NEW f, listed'[f] = listed[f]
  PROVE  Keys(f)' = Keys(f)
BY DEF Keys, FirstPage, Held

LEMMA OlderStays ==
  ASSUME NEW f, NEW g, listed'[f] = listed[f], got'[g] = got[g]
  PROVE  Older(g, f)' <=> Older(g, f)
BY KeysStay DEF Older

LEMMA SuiteInitInv == TestsInit => SuiteInv
<1> SUFFICES ASSUME TestsInit
             PROVE  SuiteInv
  OBVIOUS
<1> USE CacheAssumption DEF TestsInit, Init
<1>1. \A f \in Fetch : Keys(f) = {}
  BY DEF Keys, FirstPage, Held, Nothing, Absent
<1>2. \A k \in Key : \A n \in File : stored[k][n] \in {Absent, 1}
  OBVIOUS
<1>3. stored \in [Key -> [File -> Content]]
  BY DEF Content, Version, Absent
<1>4. SuiteTypeOK
  BY <1>3 DEF SuiteTypeOK, Content, Nothing, Held, Absent
<1>5. BucketInv
  BY <1>2 DEF BucketInv, Nothing, Absent, Fetch
<1>6. ReadInv
  BY <1>2 DEF ReadInv, Read, Nothing, Absent, Fetch, Null
<1>7. OrderInv /\ CallInv
  BY DEF OrderInv, CallInv, Fetch, Null
<1> QED
  BY <1>4, <1>5, <1>6, <1>7 DEF SuiteInv

(* For the cache, a step of the fetches is one of its own or nothing.      *)
LEMMA TestsStep == [TestsNext]_testVars => [Next]_vars
BY DEF TestsNext, testVars, Next, CallStep, FetchStep, ChangeFile, ExpireSuite, GetTestCases,
       GetCached, GoOn, FetchFiles, ListObjectKeys, GetObject, StoreSuite, EndFetch

-----------------------------------------------------------------------------
(* What a step of a call leaves alone.                                     *)
LEMMA FilesRest ==
  ASSUME SuiteInv, UNCHANGED <<source, store, fetch, fetched, stored, listed, got, cachedBy>>
  PROVE  /\ BucketInv' /\ ReadInv' /\ OrderInv'
         /\ \A f : Read(f)' <=> Read(f)
         /\ \A f, g : Older(f, g)' <=> Older(f, g)
BY DEF SuiteInv, BucketInv, ReadInv, OrderInv, Read, Complete, Older, Keys, FirstPage, Held

LEMMA TypesRest ==
  ASSUME SuiteInv, UNCHANGED <<stored, listed, got>>,
         cachedBy' \in [Key -> Fetch \union {NoFetch}],
         hit' \in [Caller -> Fetch \union {NoFetch}],
         before' \in [Caller -> SUBSET Fetch]
  PROVE  SuiteTypeOK'
<1>1. \A f \in Fetch : Held(got'[f]) = Held(got[f]) /\ Keys(f)' = Keys(f)
  BY KeysStay
<1> QED
  BY <1>1 DEF SuiteInv, SuiteTypeOK, Content, Version

(* What a call that has returned was given.                                *)
LEMMA OriginRead ==
  ASSUME CacheInv, SuiteInv, NEW c \in Caller, Answered(c)
  PROVE  /\ Origin(c) \in Fetch /\ KeyOf[Origin(c)] = KeyOf[c] /\ Read(Origin(c))
         /\ value[c] = fetched[Origin(c)] /\ AllOlder(c, Origin(c))
BY DEF SuiteInv, SuiteTypeOK, CallInv, Origin, Answered

LEMMA GetTestCasesInv ==
  ASSUME CacheInv, SuiteInv, NEW c \in Caller, GetTestCases(c)
  PROVE  SuiteInv'
<1>1. /\ UNCHANGED <<source, store, fetch, fetched, stored, listed, got, cachedBy>>
      /\ UNCHANGED <<hit, value, joined>>
      /\ caller' = [caller EXCEPT ![c] = "asking"] /\ caller[c] = "idle"
      /\ before' = [before EXCEPT ![c] = Given(KeyOf[c])]
  BY DEF GetTestCases, Ask, redis, fetches
<1>2. /\ BucketInv' /\ ReadInv' /\ OrderInv'
      /\ \A f : Read(f)' <=> Read(f)
      /\ \A f, g : Older(f, g)' <=> Older(f, g)
  BY <1>1, FilesRest
<1>3. \A g \in Given(KeyOf[c]) : g \in Fetch /\ Read(g) /\ KeyOf[g] = KeyOf[c]
  BY OriginRead DEF Given, Answered
<1>4. SuiteTypeOK'
  <2>1. /\ cachedBy' \in [Key -> Fetch \union {NoFetch}]
        /\ hit' \in [Caller -> Fetch \union {NoFetch}]
        /\ before' \in [Caller -> SUBSET Fetch]
    BY <1>1, <1>3 DEF SuiteInv, SuiteTypeOK
  <2> QED
    BY <1>1, <2>1, TypesRest
<1>5. CallInv'
  <2>1. \A d \in Caller : \A g \in before'[d] : Read(g) /\ KeyOf[g] = KeyOf[d]
    BY <1>1, <1>3 DEF SuiteInv, SuiteTypeOK, CallInv
  <2>2. \A d \in Caller \ {c} : caller'[d] = caller[d] /\ before'[d] = before[d]
    BY <1>1 DEF SuiteInv, SuiteTypeOK, CacheInv, TypeOK
  <2>3. hit[c] = NoFetch /\ caller'[c] = "asking"
    BY <1>1 DEF SuiteInv, CallInv, CacheInv, TypeOK
  <2>4. \A d \in Caller \ {c} : \A f : AllOlder(d, f)' <=> AllOlder(d, f)
    BY <1>2, <2>2 DEF AllOlder
  <2> QED
    BY <1>1, <1>2, <2>1, <2>2, <2>3, <2>4 DEF SuiteInv, CallInv
<1> QED
  BY <1>2, <1>4, <1>5 DEF SuiteInv

(* Redis holds the newest tests that anybody may have been given.          *)
LEMMA GetCachedInv ==
  ASSUME CacheInv, SuiteInv, NEW c \in Caller, GetCached(c)
  PROVE  SuiteInv'
<1> DEFINE k == KeyOf[c]
<1>1. /\ UNCHANGED <<source, store, fetch, fetched, stored, listed, got, cachedBy>>
      /\ UNCHANGED <<before, joined>>
      /\ caller' = [caller EXCEPT ![c] = "looked"] /\ caller[c] = "asking"
      /\ value' = [value EXCEPT ![c] = store[k]]
      /\ hit' = [hit EXCEPT ![c] = cachedBy[k]]
      /\ k \in Key
  BY CacheAssumption DEF GetCached, RedisAnswers, redis, fetches
<1>2. /\ BucketInv' /\ ReadInv' /\ OrderInv'
      /\ \A f : Read(f)' <=> Read(f)
      /\ \A f, g : Older(f, g)' <=> Older(f, g)
  BY <1>1, FilesRest
<1>3. \A d, f : AllOlder(d, f)' <=> AllOlder(d, f)
  BY <1>1, <1>2 DEF AllOlder
<1>4. SuiteTypeOK'
  <2>1. /\ cachedBy' \in [Key -> Fetch \union {NoFetch}]
        /\ hit' \in [Caller -> Fetch \union {NoFetch}]
        /\ before' \in [Caller -> SUBSET Fetch]
    BY <1>1 DEF SuiteInv, SuiteTypeOK
  <2> QED
    BY <1>1, <2>1, TypesRest
<1>5. CallInv'
  <2>1. \A d \in Caller \ {c} : caller'[d] = caller[d] /\ hit'[d] = hit[d] /\ value'[d] = value[d]
    BY <1>1 DEF SuiteInv, SuiteTypeOK, CacheInv, TypeOK
  <2>2. caller'[c] = "looked" /\ hit'[c] = cachedBy[k] /\ value'[c] = store[k]
    BY <1>1 DEF SuiteInv, SuiteTypeOK, CacheInv, TypeOK
  <2>3. store[k] # Null <=> cachedBy[k] # NoFetch
    BY <1>1 DEF SuiteInv, OrderInv
  <2>4. ASSUME cachedBy[k] # NoFetch
        PROVE  /\ Read(cachedBy[k]) /\ KeyOf[cachedBy[k]] = k
               /\ store[k] = fetched[cachedBy[k]] /\ AllOlder(c, cachedBy[k])
    <3>1. \A g \in before[c] : g \in Fetch /\ Read(g) /\ KeyOf[g] = k
      BY DEF SuiteInv, SuiteTypeOK, CallInv
    <3> QED
      BY <1>1, <2>4, <3>1 DEF SuiteInv, OrderInv, AllOlder
  <2>5. \A d \in Caller \ {c} :
            /\ \A g \in before[d] : Read(g) /\ KeyOf[g] = KeyOf[d]
            /\ caller[d] \in {"idle", "asking", "waiting"} => hit[d] = NoFetch
            /\ caller[d] = "looked" => (value[d] # Null <=> hit[d] # NoFetch)
    BY DEF SuiteInv, CallInv
  <2> QED
    BY <1>1, <1>2, <1>3, <2>1, <2>2, <2>3, <2>4 DEF SuiteInv, CallInv
<1> QED
  BY <1>2, <1>4, <1>5 DEF SuiteInv

(* A call goes on without looking at the files.                            *)
LEMMA GoOnRest ==
  ASSUME SuiteInv, UNCHANGED suites, UNCHANGED <<source, store, fetch, fetched>>
  PROVE  /\ SuiteTypeOK' /\ BucketInv' /\ ReadInv' /\ OrderInv'
         /\ \A f : Read(f)' <=> Read(f)
         /\ \A d, f : AllOlder(d, f)' <=> AllOlder(d, f)
<1>1. /\ cachedBy' \in [Key -> Fetch \union {NoFetch}]
      /\ hit' \in [Caller -> Fetch \union {NoFetch}]
      /\ before' \in [Caller -> SUBSET Fetch]
  BY DEF SuiteInv, SuiteTypeOK, suites
<1>2. UNCHANGED <<source, store, fetch, fetched, stored, listed, got, cachedBy, before>>
  BY DEF suites
<1> QED
  BY <1>1, <1>2, FilesRest, TypesRest DEF AllOlder

LEMMA GoOnInv ==
  ASSUME CacheInv, SuiteInv, NEW c \in Caller, GoOn(c)
  PROVE  SuiteInv'
<1> DEFINE k == KeyOf[c]
<1>1. UNCHANGED <<stored, listed, got, cachedBy, hit, before>> /\ k \in Key
  BY CacheAssumption DEF GoOn, suites
<1>2. CASE ~ StartFetch(c)
  <2>1. UNCHANGED <<source, store, inFlight, fetch, fetched>>
    BY <1>2 DEF GoOn, RedisFails, Hit, Coalesce, Return, redis, fetches
  <2>2. /\ SuiteTypeOK' /\ BucketInv' /\ ReadInv' /\ OrderInv'
        /\ \A f : Read(f)' <=> Read(f)
        /\ \A d, f : AllOlder(d, f)' <=> AllOlder(d, f)
    BY <1>1, <2>1, GoOnRest DEF suites
  <2> SUFFICES CallInv'
    BY <2>2 DEF SuiteInv
  <2>3. \A d \in Caller \ {c} : /\ caller'[d] = caller[d] /\ value'[d] = value[d]
                                /\ joined'[d] = joined[d]
    BY <1>2 DEF GoOn, RedisFails, Hit, Coalesce, Return, Answer, Reject, Join, CacheInv, TypeOK
  <2>4. ASSUME UNCHANGED value,
               caller'[c] \in {"answered", "rejected"},
               caller'[c] = "answered" => hit[c] # NoFetch
        PROVE  CallInv'
    BY <1>1, <2>1, <2>2, <2>3, <2>4 DEF SuiteInv, CallInv
  <2>5. CASE RedisFails(c) \/ Hit(c)
    <3>1. CASE RedisFails(c)
      BY <2>4, <3>1 DEF RedisFails, Reject, CacheInv, TypeOK
    <3>2. CASE Hit(c)
      <4>1. hit[c] # NoFetch
        BY <3>2 DEF Hit, SuiteInv, CallInv
      <4>2. UNCHANGED value /\ caller'[c] = "answered"
        BY <3>2 DEF Hit, Answer, CacheInv, TypeOK
      <4> QED
        BY <2>4, <4>1, <4>2
    <3> QED
      BY <2>5, <3>1, <3>2
  <2>6. CASE Coalesce(c)
    <3> DEFINE f == inFlight[k]
    <3>1. f \in Fetch /\ KeyOf[f] = k /\ Underway(f)
      BY <1>1, <2>6 DEF Coalesce, CacheInv, TypeOK, EntryInv, NoStaleEntry
    <3>2. /\ caller'[c] = "waiting" /\ joined'[c] = f /\ value' = value
          /\ caller[c] = "looked" /\ value[c] = Null
      BY <2>6 DEF Coalesce, Join, CacheInv, TypeOK
    <3>3. hit[c] = NoFetch
      BY <3>2 DEF SuiteInv, CallInv
    <3>4. ASSUME fetch[f] \in {"setting", "fulfilled", "answer"}
          PROVE  AllOlder(c, f)
      <4>1. fetch[f] \in {"setting", "fulfilled"}
        BY <3>1, <3>4 DEF Underway
      <4>2. \A g \in before[c] : g \in Fetch /\ KeyOf[g] = k
        BY DEF SuiteInv, SuiteTypeOK, CallInv
      <4> QED
        BY <3>1, <4>1, <4>2 DEF SuiteInv, OrderInv, AllOlder
    <3>5. \A d \in Caller :
              (caller'[d] = "waiting" /\ fetch[joined'[d]] \in {"setting", "fulfilled", "answer"})
                  => AllOlder(d, joined'[d])
      BY <2>3, <3>2, <3>4 DEF SuiteInv, CallInv
    <3> QED
      BY <1>1, <2>1, <2>2, <2>3, <3>2, <3>3, <3>5 DEF SuiteInv, CallInv
  <2>7. CASE Return(c)
    <3> DEFINE f == joined[c]
    <3>1. f \in Fetch /\ KeyOf[f] = k /\ caller[c] = "waiting" /\ hit[c] = NoFetch
      BY <2>7 DEF Return, CacheInv, EntryInv, SuiteInv, CallInv
    <3>2. joined' = joined
      BY <2>7 DEF Return, Answer, Reject
    <3>3. CASE fetch[f] = "answer"
      <4>1. caller'[c] = "answered" /\ value'[c] = fetched[f]
        BY <2>7, <3>3 DEF Return, Answer, CacheInv, TypeOK
      <4>2. AllOlder(c, f) /\ Read(f)
        BY <3>1, <3>3 DEF SuiteInv, CallInv, Read
      <4> QED
        BY <1>1, <2>1, <2>2, <2>3, <3>1, <3>2, <4>1, <4>2 DEF SuiteInv, CallInv
    <3>4. CASE fetch[f] # "answer"
      <4>1. caller'[c] = "rejected" /\ value' = value
        BY <2>7, <3>4 DEF Return, Reject, CacheInv, TypeOK
      <4> QED
        BY <2>4, <4>1
    <3> QED
      BY <3>3, <3>4
  <2> QED
    BY <1>2, <2>5, <2>6, <2>7 DEF GoOn
<1>3. CASE StartFetch(c)
  <2>1. /\ UNCHANGED <<source, store, fetched, value>>
        /\ fetch' = [fetch EXCEPT ![c] = "reading"]
        /\ caller' = [caller EXCEPT ![c] = "waiting"]
        /\ joined' = [joined EXCEPT ![c] = c]
        /\ caller[c] = "looked" /\ value[c] = Null /\ fetch[c] = "none"
    BY <1>3 DEF StartFetch, StartFetchOfOwn, Join, redis, CacheInv, EntryInv
  <2>2. \A f \in Fetch : /\ fetch'[f] = IF f = c THEN "reading" ELSE fetch[f]
                         /\ Read(f)' <=> Read(f)
                         /\ fetch'[f] = "setting" <=> fetch[f] = "setting"
    BY <2>1 DEF Read, CacheInv, TypeOK
  <2>3. \A f, g : Older(f, g)' <=> Older(f, g)
    BY <1>1 DEF Older, Keys, FirstPage, Held
  <2>4. SuiteTypeOK'
    BY <1>1, TypesRest DEF SuiteInv, SuiteTypeOK
  <2>5. BucketInv'
    BY <1>1, <2>1 DEF SuiteInv, BucketInv
  <2>6. ReadInv'
    <3>1. \A f \in Fetch : Complete(f)' <=> Complete(f)
      BY <1>1 DEF Complete, Keys, FirstPage, Held
    <3> QED
      BY <1>1, <2>1, <2>2, <3>1 DEF SuiteInv, ReadInv
  <2>7. OrderInv'
    BY <1>1, <2>1, <2>2, <2>3 DEF SuiteInv, SuiteTypeOK, OrderInv, Fetch
  <2>8. CallInv'
    <3>1. hit[c] = NoFetch
      BY <2>1 DEF SuiteInv, CallInv
    <3>2. \A d, f : AllOlder(d, f)' <=> AllOlder(d, f)
      BY <1>1, <2>3 DEF AllOlder
    <3>3. \A d \in Caller \ {c} : /\ caller'[d] = caller[d] /\ value'[d] = value[d]
                                  /\ joined'[d] = joined[d]
      BY <2>1 DEF CacheInv, TypeOK
    <3>4. caller'[c] = "waiting" /\ joined'[c] = c /\ fetch'[c] = "reading"
      BY <2>1 DEF CacheInv, TypeOK, Fetch
    <3>5. \A d \in Caller \ {c} :
              caller[d] = "waiting" => joined[d] \in Fetch
      BY DEF CacheInv, EntryInv
    <3>6. \A d \in Caller : before[d] \subseteq Fetch /\ (hit[d] # NoFetch => hit[d] \in Fetch)
      BY DEF SuiteInv, SuiteTypeOK
    <3>7. \A d \in Caller \ {c} :
              caller'[d] = "waiting" /\ fetch'[joined'[d]] \in {"setting", "fulfilled", "answer"}
                  => AllOlder(d, joined'[d])
      BY <2>2, <3>3, <3>5 DEF SuiteInv, CallInv
    <3> QED
      BY <1>1, <2>1, <2>2, <3>1, <3>2, <3>3, <3>4, <3>6, <3>7 DEF SuiteInv, CallInv
  <2> QED
    BY <2>4, <2>5, <2>6, <2>7, <2>8 DEF SuiteInv
<1> QED
  BY <1>2, <1>3

-----------------------------------------------------------------------------
(* The fetch under way is the only one of its key.                         *)
LEMMA OnlyFetch ==
  ASSUME CacheInv, NEW f \in Fetch, NEW g \in Fetch,
         Underway(f), Underway(g), KeyOf[f] = KeyOf[g]
  PROVE  f = g
BY DEF CacheInv, EntryInv

(* A file changes: what was read of it is older from now on.               *)
LEMMA ChangeFileInv ==
  ASSUME CacheInv, SuiteInv, NEW k \in Key, NEW n \in File, ChangeFile(k, n)
  PROVE  SuiteInv'
<1>1. /\ UNCHANGED <<store, fetch, fetched, listed, got, cachedBy, hit, before>>
      /\ UNCHANGED <<caller, joined, value>>
      /\ source' = [source EXCEPT ![k] = @ + 1] /\ source[k] < MaxVersion
  BY DEF ChangeFile, ChangeFiles, fetches, calls
<1>2. /\ \A j \in Key : source[j] \in Nat /\ source'[j] \in Version
      /\ source'[k] = source[k] + 1
      /\ \A j \in Key \ {k} : source'[j] = source[j]
  BY <1>1, CacheAssumption DEF CacheInv, TypeOK, Version
<1>3. /\ stored'[k][n] \in {Absent, source'[k]}
      /\ stored' \in [Key -> [File -> Content]]
      /\ \A j \in Key : \A m \in File : j # k \/ m # n => stored'[j][m] = stored[j][m]
  <2>1. stored \in [Key -> [File -> Content]]
    BY DEF SuiteInv, SuiteTypeOK
  <2>2. PICK v \in {Absent, source'[k]} : stored' = [stored EXCEPT ![k][n] = v]
    BY DEF ChangeFile
  <2>3. v \in Content
    BY <1>2, <2>2 DEF Content
  <2> QED
    BY <2>1, <2>2, <2>3
<1>4. \A f \in Fetch : \A m \in File :
          /\ got[f][m] \in Nat /\ listed[f][m] \in Nat /\ fetched[f] \in Nat
          /\ fetched[f] <= source[KeyOf[f]] /\ got[f][m] <= source[KeyOf[f]]
          /\ KeyOf[f] \in Key
  <2>1. got \in [Fetch -> [File -> Nat]] /\ listed \in [Fetch -> [File -> Nat]]
    BY DEF SuiteInv, SuiteTypeOK, Content, Version, Absent
  <2> QED
    BY <2>1, CacheAssumption
    DEF SuiteInv, BucketInv, CacheInv, VersionInv, TypeOK, Version, Null, Fetch
<1>5. SuiteTypeOK'
  <2>1. \A f \in Fetch : Held(got'[f]) = Held(got[f]) /\ Keys(f)' = Keys(f)
    BY <1>1, KeysStay
  <2> QED
    BY <1>1, <1>3, <2>1 DEF SuiteInv, SuiteTypeOK, Content, Version
<1>6. BucketInv'
  <2>1. \A j \in Key : \A m \in File : stored[j][m] \in Nat /\ stored[j][m] <= source[j]
    BY DEF SuiteInv, SuiteTypeOK, BucketInv, Content, Version, Absent
  <2>2. \A j \in Key : \A m \in File : stored'[j][m] <= source'[j]
    BY <1>2, <1>3, <2>1 DEF Absent
  <2>3. \A f \in Fetch : \A m \in File : got[f][m] <= source'[KeyOf[f]]
    BY <1>2, <1>4
  <2>4. \A f \in Fetch : \A m \in File :
            stored'[KeyOf[f]][m] # Absent => got[f][m] <= stored'[KeyOf[f]][m]
    <3>1. \A f \in Fetch : \A m \in File :
              stored[KeyOf[f]][m] # Absent => got[f][m] <= stored[KeyOf[f]][m]
      BY DEF SuiteInv, BucketInv
    <3> QED
      BY <1>3, <1>4, <2>3, <3>1
  <2> QED
    BY <1>1, <2>2, <2>3, <2>4 DEF BucketInv
<1>7. ReadInv'
  <2>1. \A f \in Fetch : Complete(f)' <=> Complete(f)
    BY <1>1 DEF Complete, Keys, FirstPage, Held
  <2>2. \A f \in Fetch : \A m \in File :
            \/ stored'[KeyOf[f]][m] \in {Absent, listed[f][m]}
            \/ stored'[KeyOf[f]][m] > fetched[f]
    BY <1>2, <1>3, <1>4 DEF SuiteInv, ReadInv
  <2> QED
    BY <1>1, <2>1, <2>2 DEF SuiteInv, ReadInv, Read
<1>8. \A f, g : Older(f, g)' <=> Older(f, g)
  BY <1>1 DEF Older, Keys, FirstPage, Held
<1>9. OrderInv' /\ CallInv'
  BY <1>1, <1>8 DEF SuiteInv, OrderInv, CallInv, Read, AllOlder
<1> QED
  BY <1>5, <1>6, <1>7, <1>9 DEF SuiteInv

LEMMA ExpireSuiteInv ==
  ASSUME CacheInv, SuiteInv, NEW k \in Key, ExpireSuite(k)
  PROVE  SuiteInv'
<1>1. /\ UNCHANGED <<source, fetch, fetched, stored, listed, got, hit, before>>
      /\ UNCHANGED <<caller, joined, value>>
      /\ store' = [store EXCEPT ![k] = Null]
      /\ cachedBy' = [cachedBy EXCEPT ![k] = NoFetch]
  BY DEF ExpireSuite, Expire, fetches, calls
<1>2. \A f, g : Older(f, g)' <=> Older(f, g)
  BY <1>1 DEF Older, Keys, FirstPage, Held
<1>3. SuiteTypeOK'
  BY <1>1, TypesRest DEF SuiteInv, SuiteTypeOK
<1>4. BucketInv' /\ ReadInv' /\ CallInv'
  BY <1>1, <1>2
  DEF SuiteInv, BucketInv, ReadInv, CallInv, Read, Complete, AllOlder, Keys, FirstPage, Held
<1>5. OrderInv'
  <2>1. \A j \in Key : /\ store'[j] = IF j = k THEN Null ELSE store[j]
                       /\ cachedBy'[j] = IF j = k THEN NoFetch ELSE cachedBy[j]
    BY <1>1 DEF SuiteInv, SuiteTypeOK, CacheInv, TypeOK
  <2> QED
    BY <1>1, <1>2, <2>1 DEF SuiteInv, OrderInv, Read
<1> QED
  BY <1>3, <1>4, <1>5 DEF SuiteInv

(* What is listed is still in the bucket: nothing read before is newer.    *)
LEMMA ListObjectKeysInv ==
  ASSUME CacheInv, SuiteInv, NEW f \in Fetch, ListObjectKeys(f)
  PROVE  SuiteInv'
<1> DEFINE k == KeyOf[f]
<1>1. /\ UNCHANGED <<source, store, stored, got, cachedBy, hit, before>>
      /\ UNCHANGED <<caller, joined, value>>
      /\ fetch[f] = "reading" /\ fetch' = [fetch EXCEPT ![f] = "setting"]
      /\ fetched' = [fetched EXCEPT ![f] = source[k]]
      /\ listed' = [listed EXCEPT ![f] = stored[k]]
      /\ k \in Key
  BY CacheAssumption DEF ListObjectKeys, FetchReads, Advance, redis, calls, Fetch
<1>2. \A g \in Fetch :
          /\ fetch'[g] = IF g = f THEN "setting" ELSE fetch[g]
          /\ fetched'[g] = IF g = f THEN source[k] ELSE fetched[g]
          /\ listed'[g] = IF g = f THEN stored[k] ELSE listed[g]
  BY <1>1 DEF CacheInv, TypeOK, SuiteInv, SuiteTypeOK
<1>3. \A g \in Fetch : /\ Read(g)' <=> Read(g)
                       /\ Read(g) => g # f
  BY <1>1, <1>2 DEF Read
<1>4. \A g \in Fetch \ {f} : Keys(g)' = Keys(g)
  BY <1>2, KeysStay
<1>5. \A g, h \in Fetch : h # f => (Older(g, h)' <=> Older(g, h))
  BY <1>1, <1>2, <1>4 DEF Older
<1>6. got[f] = Nothing
  BY <1>1 DEF SuiteInv, ReadInv
<1>7. \A g \in Fetch : KeyOf[g] = k => Older(g, f)'
  <2>1. /\ Keys(f)' \subseteq File
        /\ \A n \in Keys(f)' : stored[k][n] # Absent
    BY <1>2 DEF Keys, FirstPage, Held
  <2> QED
    BY <1>1, <1>2, <2>1 DEF Older, SuiteInv, BucketInv
<1>8. SuiteTypeOK'
  <2>1. listed' \in [Fetch -> [File -> Content]]
    BY <1>1 DEF SuiteInv, SuiteTypeOK
  <2>2. Held(got[f]) = {}
    BY <1>6 DEF Held, Nothing
  <2>3. \A g \in Fetch : Held(got'[g]) \subseteq Keys(g)'
    BY <1>1, <1>4, <2>2 DEF SuiteInv, SuiteTypeOK
  <2> QED
    BY <1>1, <2>1, <2>3 DEF SuiteInv, SuiteTypeOK, Content, Version
<1>9. BucketInv'
  BY <1>1 DEF SuiteInv, BucketInv
<1>10. ReadInv'
  <2>1. source[k] # Null /\ source[k] \in Nat
    BY <1>1 DEF CacheInv, TypeOK, Version, Null
  <2>2. \A g \in Fetch : Read(g)' => Complete(g)'
    BY <1>1, <1>3, <1>4 DEF SuiteInv, ReadInv, Complete
  <2>3. \A n \in File : stored[k][n] <= source[k] /\ got[f][n] = Absent
    BY <1>1, <1>6 DEF SuiteInv, BucketInv, Nothing
  <2> QED
    BY <1>1, <1>2, <1>3, <2>1, <2>2, <2>3 DEF SuiteInv, ReadInv
<1>11. OrderInv'
  <2>1. ASSUME NEW h \in Fetch, NEW g \in Fetch, KeyOf[h] = KeyOf[g],
               fetch'[h] \in {"setting", "fulfilled"}
        PROVE  Older(g, h)'
    <3>1. CASE h = f
      BY <1>7, <2>1, <3>1
    <3>2. CASE h # f
      BY <1>2, <1>5, <2>1, <3>2 DEF SuiteInv, OrderInv
    <3> QED
      BY <3>1, <3>2
  <2>2. \A j \in Key : cachedBy[j] # NoFetch => cachedBy[j] \in Fetch /\ cachedBy[j] # f
    BY <1>3 DEF SuiteInv, SuiteTypeOK, OrderInv
  <2> QED
    BY <1>1, <1>2, <1>3, <1>5, <2>1, <2>2 DEF SuiteInv, OrderInv
<1>12. CallInv'
  <2>1. \A c \in Caller : before[c] \subseteq Fetch /\ (hit[c] # NoFetch => hit[c] \in Fetch)
    BY DEF SuiteInv, SuiteTypeOK
  <2>2. \A c \in Caller : \A g \in Fetch \ {f} : AllOlder(c, g)' <=> AllOlder(c, g)
    BY <1>1, <1>5, <2>1 DEF AllOlder
  <2>3. \A c \in Caller : KeyOf[c] = k => AllOlder(c, f)'
    BY <1>1, <1>7, <2>1 DEF AllOlder, SuiteInv, CallInv
  <2>4. \A c \in Caller : caller[c] = "waiting" =>
            joined[c] \in Fetch /\ KeyOf[joined[c]] = KeyOf[c]
    BY DEF CacheInv, EntryInv
  <2>5. \A c \in Caller :
            caller'[c] = "waiting" /\ fetch'[joined'[c]] \in {"setting", "fulfilled", "answer"}
                => AllOlder(c, joined[c])'
    BY <1>1, <1>2, <2>2, <2>3, <2>4 DEF SuiteInv, CallInv
  <2> QED
    BY <1>1, <1>2, <1>3, <2>1, <2>2, <2>5 DEF SuiteInv, CallInv
<1> QED
  BY <1>8, <1>9, <1>10, <1>11, <1>12 DEF SuiteInv

(* A file that is read is as it was listed, or newer.                      *)
LEMMA GetObjectInv ==
  ASSUME CacheInv, SuiteInv, NEW f \in Fetch, NEW n \in File, GetObject(f, n)
  PROVE  SuiteInv'
<1> DEFINE k == KeyOf[f]
<1>1. /\ UNCHANGED <<vars, stored, listed, cachedBy, hit, before>>
      /\ fetch[f] = "setting" /\ n \in Keys(f) /\ stored[k][n] # Absent
      /\ got' = [got EXCEPT ![f][n] = stored[k][n]] /\ k \in Key
  BY CacheAssumption DEF GetObject, Fetch
<1>2. UNCHANGED <<source, store, inFlight, fetch, fetched, caller, joined, value>>
  BY <1>1 DEF vars
<1>3. /\ got'[f][n] = stored[k][n]
      /\ \A g \in Fetch : \A m \in File : g # f \/ m # n => got'[g][m] = got[g][m]
      /\ \A g \in Fetch \ {f} : got'[g] = got[g]
      /\ got' \in [Fetch -> [File -> Content]]
  <2>1. got \in [Fetch -> [File -> Content]] /\ stored[k][n] \in Content
    BY <1>1 DEF SuiteInv, SuiteTypeOK
  <2> QED
    BY <1>1, <2>1
<1>4. \A g : Keys(g)' = Keys(g)
  BY <1>1 DEF Keys, FirstPage, Held
<1>5. \A g \in Fetch : (Read(g)' <=> Read(g)) /\ (Read(g) => g # f)
  BY <1>1, <1>2 DEF Read
<1>6. \A g, h \in Fetch : g # f => (Older(g, h)' <=> Older(g, h))
  BY <1>1, <1>3, <1>4 DEF Older
<1>7. SuiteTypeOK'
  <2>1. \A g \in Fetch : Held(got'[g]) \subseteq Keys(g)'
    BY <1>1, <1>3, <1>4 DEF SuiteInv, SuiteTypeOK, Held
  <2> QED
    BY <1>1, <1>3, <2>1 DEF SuiteInv, SuiteTypeOK, Content, Version
<1>8. BucketInv'
  <2>1. stored[k][n] <= source[k] /\ stored[k][n] \in Nat
    BY <1>1 DEF SuiteInv, SuiteTypeOK, BucketInv, Content, Version, Absent
  <2> QED
    BY <1>1, <1>2, <1>3, <2>1 DEF SuiteInv, BucketInv
<1>9. ReadInv'
  <2>1. \A g \in Fetch : Read(g)' => Complete(g)'
    BY <1>3, <1>4, <1>5 DEF SuiteInv, ReadInv, Complete
  <2>2. stored[k][n] = listed[f][n] \/ stored[k][n] > fetched[f]
    BY <1>1 DEF SuiteInv, ReadInv
  <2>3. \A g \in Fetch : fetch'[g] \in {"none", "reading"} => g # f
    BY <1>1, <1>2
  <2> QED
    BY <1>1, <1>2, <1>3, <1>5, <2>1, <2>2, <2>3 DEF SuiteInv, ReadInv
<1>10. OrderInv'
  <2>1. ASSUME NEW h \in Fetch, NEW g \in Fetch, KeyOf[h] = KeyOf[g],
               fetch[h] \in {"setting", "fulfilled"}
        PROVE  Older(g, h)'
    <3>1. CASE g # f
      BY <1>6, <2>1, <3>1 DEF SuiteInv, OrderInv
    <3>2. CASE g = f
      <4>1. g = h
        BY <1>1, <2>1, <3>2, OnlyFetch DEF Underway
      <4> QED
        BY <4>1 DEF Older
    <3> QED
      BY <3>1, <3>2
  <2>2. \A j \in Key : cachedBy[j] # NoFetch => cachedBy[j] \in Fetch
    BY DEF SuiteInv, SuiteTypeOK
  <2> QED
    BY <1>1, <1>2, <1>5, <1>6, <2>1, <2>2 DEF SuiteInv, OrderInv
<1>11. CallInv'
  <2>1. \A c \in Caller : /\ before[c] \subseteq Fetch
                          /\ (hit[c] # NoFetch => hit[c] \in Fetch)
                          /\ \A g \in before[c] : Read(g)
    BY DEF SuiteInv, SuiteTypeOK, CallInv
  <2>2. \A c \in Caller : \A g \in Fetch : AllOlder(c, g)' <=> AllOlder(c, g)
    BY <1>1, <1>5, <1>6, <2>1 DEF AllOlder
  <2>3. \A c \in Caller : caller[c] = "waiting" => joined[c] \in Fetch
    BY DEF CacheInv, EntryInv
  <2> QED
    BY <1>1, <1>2, <1>5, <2>1, <2>2, <2>3 DEF SuiteInv, CallInv
<1> QED
  BY <1>7, <1>8, <1>9, <1>10, <1>11 DEF SuiteInv

(* What is stored is the newest.                                           *)
LEMMA StoreSuiteInv ==
  ASSUME CacheInv, SuiteInv, NEW f \in Fetch, StoreSuite(f)
  PROVE  SuiteInv'
<1> DEFINE k == KeyOf[f]
<1>1. /\ UNCHANGED <<source, fetched, stored, listed, got, hit, before>>
      /\ UNCHANGED <<caller, joined, value>>
      /\ fetch[f] = "setting" /\ fetch' = [fetch EXCEPT ![f] = "fulfilled"]
      /\ store' = [store EXCEPT ![k] = fetched[f]]
      /\ cachedBy' = [cachedBy EXCEPT ![k] = f]
      /\ Complete(f) /\ k \in Key
  BY CacheAssumption DEF StoreSuite, FetchStores, Advance, calls, Complete, Fetch
<1>2. \A g \in Fetch : /\ fetch'[g] = IF g = f THEN "fulfilled" ELSE fetch[g]
                       /\ Read(g)' <=> Read(g) \/ g = f
  BY <1>1 DEF CacheInv, TypeOK, Read
<1>3. \A g, h : Older(g, h)' <=> Older(g, h)
  BY <1>1 DEF Older, Keys, FirstPage, Held
<1>4. SuiteTypeOK'
  BY <1>1, TypesRest DEF SuiteInv, SuiteTypeOK
<1>5. BucketInv'
  BY <1>1 DEF SuiteInv, BucketInv
<1>6. ReadInv'
  <2>1. \A g \in Fetch : Complete(g)' <=> Complete(g)
    BY <1>1 DEF Complete, Keys, FirstPage, Held
  <2> QED
    BY <1>1, <1>2, <2>1 DEF SuiteInv, ReadInv
<1>7. OrderInv'
  <2>1. \A h, g \in Fetch : KeyOf[h] = KeyOf[g] /\ fetch'[h] \in {"setting", "fulfilled"}
            => Older(g, h)
    BY <1>1, <1>2 DEF SuiteInv, OrderInv
  <2>2. fetched[f] # Null /\ f # NoFetch
    BY <1>1, CacheAssumption DEF SuiteInv, ReadInv, Fetch
  <2>3. \A j \in Key : /\ store'[j] = IF j = k THEN fetched[f] ELSE store[j]
                       /\ cachedBy'[j] = IF j = k THEN f ELSE cachedBy[j]
    BY <1>1 DEF SuiteInv, SuiteTypeOK, CacheInv, TypeOK
  <2>4. \A j \in Key : cachedBy[j] # NoFetch => cachedBy[j] \in Fetch
    BY DEF SuiteInv, SuiteTypeOK
  <2> QED
    BY <1>1, <1>2, <1>3, <2>1, <2>2, <2>3, <2>4 DEF SuiteInv, OrderInv
<1>8. CallInv'
  <2>1. \A c \in Caller : before[c] \subseteq Fetch /\ (hit[c] # NoFetch => hit[c] \in Fetch)
    BY DEF SuiteInv, SuiteTypeOK
  <2>2. \A c, g : AllOlder(c, g)' <=> AllOlder(c, g)
    BY <1>1, <1>3 DEF AllOlder
  <2>3. \A c \in Caller : caller[c] = "waiting" => joined[c] \in Fetch
    BY DEF CacheInv, EntryInv
  <2> QED
    BY <1>1, <1>2, <2>1, <2>2, <2>3 DEF SuiteInv, CallInv
<1> QED
  BY <1>4, <1>5, <1>6, <1>7, <1>8 DEF SuiteInv

LEMMA EndFetchInv ==
  ASSUME CacheInv, SuiteInv, NEW f \in Fetch, EndFetch(f)
  PROVE  SuiteInv'
<1>1. /\ UNCHANGED <<source, store, fetched, stored, listed, got, cachedBy, hit, before>>
      /\ UNCHANGED <<caller, joined, value>>
      /\ \/ /\ fetch[f] \in {"reading", "setting"}
            /\ fetch' = [fetch EXCEPT ![f] = "rejected"]
         \/ /\ fetch[f] = "fulfilled" /\ fetch' = [fetch EXCEPT ![f] = "answer"]
         \/ /\ fetch[f] = "rejected" /\ fetch' = [fetch EXCEPT ![f] = "error"]
  BY DEF EndFetch, FetchFails, Settle, Advance, redis, calls, suites
<1>2. \A g \in Fetch :
          /\ Read(g)' <=> Read(g)
          /\ fetch'[g] \in {"setting", "fulfilled"} => fetch[g] \in {"setting", "fulfilled"}
          /\ fetch'[g] \in {"none", "reading"} => fetch[g] \in {"none", "reading"}
          /\ fetch'[g] = "setting" => fetch[g] = "setting"
          /\ fetch'[g] \in {"setting", "fulfilled", "answer"}
                 => fetch[g] \in {"setting", "fulfilled", "answer"}
  BY <1>1 DEF CacheInv, TypeOK, Read
<1>3. \A g, h : Older(g, h)' <=> Older(g, h)
  BY <1>1 DEF Older, Keys, FirstPage, Held
<1>4. SuiteTypeOK'
  BY <1>1, TypesRest DEF SuiteInv, SuiteTypeOK
<1>5. BucketInv'
  BY <1>1 DEF SuiteInv, BucketInv
<1>6. ReadInv'
  <2>1. \A g \in Fetch : Complete(g)' <=> Complete(g)
    BY <1>1 DEF Complete, Keys, FirstPage, Held
  <2> QED
    BY <1>1, <1>2, <2>1 DEF SuiteInv, ReadInv
<1>7. OrderInv'
  <2>1. \A j \in Key : cachedBy[j] # NoFetch => cachedBy[j] \in Fetch
    BY DEF SuiteInv, SuiteTypeOK
  <2> QED
    BY <1>1, <1>2, <1>3, <2>1 DEF SuiteInv, OrderInv
<1>8. CallInv'
  <2>1. \A c \in Caller : before[c] \subseteq Fetch /\ (hit[c] # NoFetch => hit[c] \in Fetch)
    BY DEF SuiteInv, SuiteTypeOK
  <2>2. \A c, g : AllOlder(c, g)' <=> AllOlder(c, g)
    BY <1>1, <1>3 DEF AllOlder
  <2>3. \A c \in Caller : caller[c] = "waiting" => joined[c] \in Fetch
    BY DEF CacheInv, EntryInv
  <2> QED
    BY <1>1, <1>2, <2>1, <2>2, <2>3 DEF SuiteInv, CallInv
<1> QED
  BY <1>4, <1>5, <1>6, <1>7, <1>8 DEF SuiteInv

LEMMA SuiteStepInv == CacheInv /\ SuiteInv /\ [TestsNext]_testVars => SuiteInv'
<1> SUFFICES ASSUME CacheInv, SuiteInv, [TestsNext]_testVars
             PROVE  SuiteInv'
  OBVIOUS
<1>1. ASSUME NEW k \in Key, ExpireSuite(k) \/ \E n \in File : ChangeFile(k, n)
      PROVE  SuiteInv'
  BY <1>1, ExpireSuiteInv, ChangeFileInv
<1>2. ASSUME NEW c \in Caller, GetTestCases(c) \/ GetCached(c) \/ GoOn(c)
      PROVE  SuiteInv'
  BY <1>2, GetTestCasesInv, GetCachedInv, GoOnInv
<1>3. ASSUME NEW f \in Fetch, FetchFiles(f)
      PROVE  SuiteInv'
  BY <1>3, ListObjectKeysInv, GetObjectInv, StoreSuiteInv, EndFetchInv DEF FetchFiles
<1>4. CASE UNCHANGED testVars
  <2>1. UNCHANGED suites /\ UNCHANGED <<source, store, fetch, fetched, caller, joined, value>>
    BY <1>4 DEF testVars, vars
  <2>2. /\ SuiteTypeOK' /\ BucketInv' /\ ReadInv' /\ OrderInv'
        /\ \A f : Read(f)' <=> Read(f)
        /\ \A d, f : AllOlder(d, f)' <=> AllOlder(d, f)
    BY <2>1, GoOnRest
  <2>3. CallInv'
    BY <2>1, <2>2 DEF suites, SuiteInv, CallInv
  <2> QED
    BY <2>2, <2>3 DEF SuiteInv
<1> QED
  BY <1>1, <1>2, <1>3, <1>4 DEF TestsNext

LEMMA TestsInvariance == TestsSpec => [](CacheInv /\ SuiteInv)
<1>1. TestsInit => CacheInv /\ SuiteInv
  BY CacheInitInv, SuiteInitInv DEF TestsInit
<1>2. CacheInv /\ SuiteInv /\ [TestsNext]_testVars => (CacheInv /\ SuiteInv)'
  BY TestsStep, CacheStepInv, SuiteStepInv
<1> QED
  BY <1>1, <1>2, PTL DEF TestsSpec

-----------------------------------------------------------------------------
(* The fetches, with all they read, do what Cache promises of them: what is*)
(* proved of Cache holds of the tests.                                     *)
THEOREM TestsImplementCache == TestsSpec => Spec
<1>1. TestsInit => Init
  BY DEF TestsInit
<1> QED
  BY <1>1, TestsStep, PTL DEF TestsSpec, Spec

(* The bucket, the listings and the contents keep their types, and no      *)
(* content is read of a key that was not listed.                           *)
THEOREM SuiteTypeCorrect == TestsSpec => []SuiteTypeOK
<1>1. SuiteInv => SuiteTypeOK
  BY DEF SuiteInv
<1> QED
  BY <1>1, TestsInvariance, PTL

(* A judging that begins after another one has been given its tests is     *)
(* given no older content of any file.                                     *)
THEOREM ContentsNeverAge == TestsSpec => []ContentsMoveForward
<1>1. CacheInv /\ SuiteInv => ContentsMoveForward
  <2> SUFFICES ASSUME CacheInv, SuiteInv, NEW c \in Caller, Answered(c),
                      NEW g \in before[c], NEW n \in Keys(Origin(c))
               PROVE  got[Origin(c)][n] >= got[g][n]
    BY DEF ContentsMoveForward
  <2> DEFINE f == Origin(c)
  <2>1. /\ f \in Fetch /\ Read(f) /\ Older(g, f)
        /\ g \in Fetch /\ n \in File
    BY OriginRead, KeysListed DEF AllOlder, SuiteInv, SuiteTypeOK
  <2>2. got[f][n] \in Nat /\ got[g][n] \in Nat /\ listed[f][n] \in Nat
    BY <2>1 DEF SuiteInv, SuiteTypeOK, Content, Version, Absent
  <2>3. got[f][n] >= listed[f][n]
    <3>1. got[f][n] # Absent
      BY <2>1 DEF SuiteInv, ReadInv, Complete
    <3>2. listed[f][n] <= fetched[f] /\ fetched[f] \in Nat
      BY <2>1 DEF SuiteInv, ReadInv, CacheInv, TypeOK, Version, Null
    <3>3. got[f][n] = listed[f][n] \/ got[f][n] > fetched[f]
      BY <2>1, <3>1 DEF SuiteInv, ReadInv
    <3> QED
      BY <2>2, <3>2, <3>3
  <2>4. g = f \/ got[g][n] <= listed[f][n]
    BY <2>1 DEF Older
  <2> QED
    BY <2>2, <2>3, <2>4
<1> QED
  BY <1>1, TestsInvariance, PTL

(* A page of a listing is cut off at its end: what comes before one of its *)
(* keys is on it too.                                                      *)
LEMMA PageIsPrefix ==
  ASSUME NEW S \in SUBSET File, NEW n \in FirstPage(S), NEW m \in S, m <= n
  PROVE  m \in FirstPage(S)
<1> DEFINE upto(x) == {y \in S : y <= x}
<1>1. File \subseteq Int /\ IsFiniteSet(File)
  BY TestCasesAssumption, FS_Interval DEF File, Folder, Out
<1>2. n \in S /\ Cardinality(upto(n)) <= Page
  BY DEF FirstPage
<1>3. IsFiniteSet(upto(n))
  <2>1. upto(n) \in SUBSET File
    OBVIOUS
  <2> QED
    BY <1>1, <2>1, FS_Subset
<1>4. upto(m) \in SUBSET upto(n)
  <2>1. ASSUME NEW y \in upto(m)
        PROVE  y \in upto(n)
    <3>1. y \in Int /\ m \in Int /\ n \in Int
      BY <1>1, <1>2
    <3> QED
      BY <3>1
  <2> QED
    BY <2>1
<1>5. /\ IsFiniteSet(upto(m)) /\ Cardinality(upto(m)) <= Cardinality(upto(n))
  BY <1>3, <1>4, FS_Subset
<1>6. Cardinality(upto(m)) \in Nat /\ Cardinality(upto(n)) \in Nat
  BY <1>3, <1>5, FS_CardinalityType
<1>7. Cardinality(upto(m)) <= Page
  BY <1>2, <1>5, <1>6, TestCasesAssumption
<1> QED
  BY <1>7 DEF FirstPage

(* The tests of a judging are the listed ones, but for contents written    *)
(* after the listing and for what lies beyond the page, which are the last *)
(* tests, or the output of the last one that is left.                      *)
THEOREM SuiteIsWhole == TestsSpec => []SuiteIsAsListed
<1>1. ASSUME CacheInv, SuiteInv, NEW c \in Caller, Answered(c)
      PROVE  LET f == Origin(c)
                 suite == Suite(f)
                 whole == TestsOf(listed[f])
                 Newer(content) == content > value[c]
             IN  /\ DOMAIN suite \subseteq DOMAIN whole
                 /\ \A t \in DOMAIN whole \ DOMAIN suite :
                        Overflows(f) /\ \A u \in DOMAIN suite : u < t
                 /\ \A t \in DOMAIN suite :
                        /\ \/ suite[t].input = whole[t].input
                           \/ Newer(suite[t].input)
                        /\ \/ suite[t].output = whole[t].output
                           \/ Newer(suite[t].output)
                           \/ /\ suite[t].output = Absent /\ Overflows(f)
                              /\ \A u \in DOMAIN suite : u <= t
  <2> DEFINE f == Origin(c)
             bucket == listed[f]
             suite == Suite(f)
             whole == TestsOf(bucket)
             page == FirstPage(Held(bucket))
  <2>1. f \in Fetch /\ Read(f) /\ value[c] = fetched[f]
    BY <1>1, OriginRead
  <2>2. \A n \in Keys(f) : got[f][n] = bucket[n] \/ got[f][n] > value[c]
    BY <1>1, <2>1, KeysListed DEF SuiteInv, ReadInv, Complete
  <2>3. /\ \A t \in Test : /\ In(t) \in File \ {Folder} /\ Out(t) \in File \ {Folder}
                           /\ t \in Int
        /\ \A t, u \in Test : t <= u => In(t) <= In(u)
        /\ \A t, u \in Test : t < u => Out(t) <= In(u)
    BY TestCasesAssumption DEF Test, In, Out, File, Folder
  <2>4. \A n \in File \ {Folder} :
            /\ n \in Keys(f) => bucket[n] # Absent
            /\ (bucket[n] # Absent /\ n \notin Keys(f)) =>
                  /\ Overflows(f)
                  /\ \A m \in Keys(f) : ~ (n <= m)
    <3> SUFFICES ASSUME NEW n \in File \ {Folder}
                 PROVE  /\ n \in Keys(f) => bucket[n] # Absent
                        /\ (bucket[n] # Absent /\ n \notin Keys(f)) =>
                              /\ Overflows(f)
                              /\ \A m \in Keys(f) : ~ (n <= m)
      OBVIOUS
    <3>1. Held(bucket) \in SUBSET File
      BY DEF Held
    <3>2. Keys(f) = page \ {Folder} /\ page \subseteq Held(bucket)
      BY DEF Keys, FirstPage
    <3>3. n \in Held(bucket) <=> bucket[n] # Absent
      BY DEF Held
    <3>4. ~ Overflows(f) => page = Held(bucket)
      <4>1. Cardinality(Held(bucket)) \in Nat
        <5>1. IsFiniteSet(File)
          BY TestCasesAssumption, FS_Interval DEF File, Folder, Out
        <5> QED
          BY <3>1, <5>1, FS_Subset, FS_CardinalityType
      <4>2. ~ Overflows(f) => Cardinality(Held(bucket)) <= Page
        BY <4>1, TestCasesAssumption DEF Overflows
      <4> QED
        BY <3>1, <4>2, FullPage
    <3>5. \A m \in page : n \in Held(bucket) /\ n <= m => n \in page
      BY <3>1, PageIsPrefix
    <3> HIDE DEF page, bucket, f
    <3> QED
      BY <3>2, <3>3, <3>4, <3>5
  <2>5. /\ DOMAIN suite = {t \in Test : In(t) \in Keys(f)}
        /\ DOMAIN whole = {t \in Test : bucket[In(t)] # Absent}
        /\ \A t \in DOMAIN suite :
              /\ suite[t].input = got[f][In(t)]
              /\ suite[t].output = IF Out(t) \in Keys(f) THEN got[f][Out(t)] ELSE Absent
        /\ \A t \in DOMAIN whole : /\ whole[t].input = bucket[In(t)]
                                   /\ whole[t].output = bucket[Out(t)]
    BY DEF Suite, Group, TestsOf
  <2> HIDE DEF f, bucket, suite, whole, page
  <2>6. DOMAIN suite \subseteq DOMAIN whole
    BY <2>3, <2>4, <2>5
  <2>7. ASSUME NEW t \in DOMAIN whole \ DOMAIN suite
        PROVE  Overflows(f) /\ \A u \in DOMAIN suite : u < t
    <3>1. /\ t \in Test /\ In(t) \in File \ {Folder} /\ In(t) \notin Keys(f)
          /\ bucket[In(t)] # Absent
      BY <2>3, <2>5, <2>7
    <3>2. Overflows(f) /\ \A u \in DOMAIN suite : ~ (In(t) <= In(u))
      BY <2>4, <2>5, <3>1
    <3>3. \A u \in DOMAIN suite : u \in Test /\ ~ (t <= u)
      BY <2>3, <2>5, <3>1, <3>2
    <3> QED
      BY <2>3, <3>1, <3>2, <3>3
  <2>8. ASSUME NEW t \in DOMAIN suite
        PROVE  /\ suite[t].input = whole[t].input \/ suite[t].input > value[c]
               /\ \/ suite[t].output = whole[t].output \/ suite[t].output > value[c]
                  \/ /\ suite[t].output = Absent /\ Overflows(f)
                     /\ \A u \in DOMAIN suite : u <= t
    <3>1. /\ t \in Test /\ t \in DOMAIN whole /\ In(t) \in Keys(f)
          /\ Out(t) \in File \ {Folder}
      BY <2>3, <2>5, <2>6, <2>8
    <3>2. suite[t].input = whole[t].input \/ suite[t].input > value[c]
      BY <2>2, <2>5, <3>1
    <3>3. CASE Out(t) \in Keys(f)
      BY <2>2, <2>5, <3>1, <3>2, <3>3
    <3>4. CASE Out(t) \notin Keys(f) /\ bucket[Out(t)] = Absent
      BY <2>5, <3>1, <3>2, <3>4
    <3>5. CASE Out(t) \notin Keys(f) /\ bucket[Out(t)] # Absent
      <4>1. Overflows(f) /\ \A u \in DOMAIN suite : ~ (Out(t) <= In(u))
        BY <2>4, <2>5, <3>1, <3>5
      <4>2. \A u \in DOMAIN suite : u \in Test /\ ~ (t < u)
        BY <2>3, <2>5, <3>1, <4>1
      <4>3. \A u \in DOMAIN suite : u <= t
        BY <2>3, <3>1, <4>2
      <4> QED
        BY <2>5, <3>1, <3>2, <3>5, <4>1, <4>3
    <3> QED
      BY <3>3, <3>4, <3>5
  <2> QED
    BY <2>6, <2>7, <2>8 DEF f, bucket, suite, whole
<1>2. CacheInv /\ SuiteInv => SuiteIsAsListed
  BY <1>1 DEF SuiteIsAsListed
<1> QED
  BY <1>2, TestsInvariance, PTL

(* What holds of getOrSet holds of it over the storage: the listing and    *)
(* the reads of a fetch add no second chain of promises for a key and      *)
(* leave no entry of inFlight behind, and no call is given an older version*)
(* than calls before it were.                                              *)
THEOREM TestsCoalesce ==
  TestsSpec => [](OneFetchPerKey /\ NoStaleEntry /\ AnswersMoveForward)
BY TestsImplementCache, CacheCoalesces, CacheForgetsFailures, CacheMovesForward, PTL

=============================================================================
