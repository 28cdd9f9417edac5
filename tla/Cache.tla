-------------------------------- MODULE Cache ---------------------------------
(***************************************************************************)
(* getOrSet of src/src/cache/cache.service.ts, through which every judging *)
(* reads the tests of its problem: a value comes from Redis, from a fetch  *)
(* that is already under way for the key (inFlight), or from a fetch of    *)
(* its own, whose value is stored with a time to live.                     *)
(*                                                                         *)
(* A call awaits Redis before it looks at inFlight, so it may act on an    *)
(* answer that is out of date.  A fetch is a chain of promises: fetchFn,   *)
(* set, and the finally that clears the entry.  A value is the version of  *)
(* the test files it was read from.                                        *)
(***************************************************************************)
EXTENDS Integers, FiniteSets

CONSTANTS
    Key,
    Caller,       \* calls of getOrSet
    KeyOf,        \* the key of each call
    NullKeys,     \* the keys whose fetchFn may give null
    MaxVersion,   \* bound: how often the files of a problem change, plus one
    Faults        \* whether Redis or the storage may fail

\* At most one fetch is started by each call, so a fetch is named by its call.
Fetch == Caller

NoFetch == "no_fetch"

Null == 0

ASSUME CacheAssumption ==
    /\ KeyOf \in [Caller -> Key]
    /\ NullKeys \subseteq Key
    /\ MaxVersion \in Nat \ {0}
    /\ Faults \in BOOLEAN
    /\ NoFetch \notin Caller

VARIABLES
    source,     \* the version of the files in the storage
    store,      \* what Redis holds for a key, or Null
    inFlight,   \* the map of that name: the fetch of a key, or NoFetch
    caller,     \* where a call is
    joined,     \* the fetch whose promise a call returns
    value,      \* what Redis gave to a call, then what the call returns
    fetch,      \* where a fetch is
    fetched,    \* the value a fetch has read
    newest,     \* history: the newest version any call of the key has returned
    floor       \* history: what newest was when a call began

vars == <<source, store, inFlight, caller, joined, value, fetch, fetched,
          newest, floor>>

redis == <<source, store>>
fetches == <<inFlight, fetch, fetched>>
calls == <<caller, joined, value, newest, floor>>

Version == 1 .. MaxVersion

Init ==
    /\ source = [k \in Key |-> 1]
    /\ store = [k \in Key |-> Null]
    /\ inFlight = [k \in Key |-> NoFetch]
    /\ caller = [c \in Caller |-> "idle"]
    /\ joined = [c \in Caller |-> NoFetch]
    /\ value = [c \in Caller |-> Null]
    /\ fetch = [f \in Fetch |-> "none"]
    /\ fetched = [f \in Fetch |-> Null]
    /\ newest = [k \in Key |-> Null]
    /\ floor = [c \in Caller |-> Null]

-----------------------------------------------------------------------------
(* The files of a problem are replaced; Redis drops an entry at its ttl.   *)
ChangeFiles(k) ==
    /\ source[k] < MaxVersion
    /\ source' = [source EXCEPT ![k] = @ + 1]
    /\ UNCHANGED <<store, fetches, calls>>

Expire(k) ==
    /\ store[k] # Null
    /\ store' = [store EXCEPT ![k] = Null]
    /\ UNCHANGED <<source, fetches, calls>>

-----------------------------------------------------------------------------
Answer(c, v) ==
    /\ caller' = [caller EXCEPT ![c] = "answered"]
    /\ value' = [value EXCEPT ![c] = v]
    /\ newest' = [newest EXCEPT ![KeyOf[c]] = IF v > @ THEN v ELSE @]
    /\ UNCHANGED <<joined, floor>>

Reject(c) ==
    /\ caller' = [caller EXCEPT ![c] = "rejected"]
    /\ UNCHANGED <<joined, value, newest, floor>>

(* getOrSet asks Redis ...                                                 *)
Ask(c) ==
    /\ caller[c] = "idle"
    /\ caller' = [caller EXCEPT ![c] = "asking"]
    /\ floor' = [floor EXCEPT ![c] = newest[KeyOf[c]]]
    /\ UNCHANGED <<redis, fetches, joined, value, newest>>

(* ... which answers some time before the call goes on, or fails.          *)
RedisAnswers(c) ==
    /\ caller[c] = "asking"
    /\ caller' = [caller EXCEPT ![c] = "looked"]
    /\ value' = [value EXCEPT ![c] = store[KeyOf[c]]]
    /\ UNCHANGED <<redis, fetches, joined, newest, floor>>

RedisFails(c) ==
    /\ Faults
    /\ caller[c] = "asking"
    /\ Reject(c)
    /\ UNCHANGED <<redis, fetches>>

Hit(c) ==
    /\ caller[c] = "looked"
    /\ value[c] # Null
    /\ Answer(c, value[c])
    /\ UNCHANGED <<redis, fetches>>

Join(c, f) ==
    /\ caller' = [caller EXCEPT ![c] = "waiting"]
    /\ joined' = [joined EXCEPT ![c] = f]
    /\ UNCHANGED <<value, newest, floor>>

Coalesce(c) ==
    /\ caller[c] = "looked"
    /\ value[c] = Null
    /\ inFlight[KeyOf[c]] # NoFetch
    /\ Join(c, inFlight[KeyOf[c]])
    /\ UNCHANGED <<redis, fetches>>

StartFetchOfOwn(c) ==
    /\ inFlight' = [inFlight EXCEPT ![KeyOf[c]] = c]
    /\ fetch' = [fetch EXCEPT ![c] = "reading"]
    /\ Join(c, c)
    /\ UNCHANGED <<redis, fetched>>

(* Faulty variant: the map is not asked whether a fetch is under way.      *)
StartFetchAnyway(c) ==
    /\ caller[c] = "looked"
    /\ value[c] = Null
    /\ StartFetchOfOwn(c)

StartFetch(c) ==
    /\ caller[c] = "looked"
    /\ value[c] = Null
    /\ inFlight[KeyOf[c]] = NoFetch
    /\ StartFetchOfOwn(c)

-----------------------------------------------------------------------------
Advance(f, where) == fetch' = [fetch EXCEPT ![f] = where]

(* fetchFn resolves with a value, which is cached, or with null.           *)
FetchReads(f) ==
    /\ fetch[f] = "reading"
    /\ fetched' = [fetched EXCEPT ![f] = source[KeyOf[f]]]
    /\ Advance(f, "setting")
    /\ UNCHANGED <<redis, inFlight, calls>>

FetchReadsNull(f) ==
    /\ KeyOf[f] \in NullKeys
    /\ fetch[f] = "reading"
    /\ Advance(f, "fulfilled")
    /\ UNCHANGED <<redis, inFlight, fetched, calls>>

(* Faulty variant: set is not awaited.                                     *)
FetchSettlesEarly(f) ==
    /\ fetch[f] = "setting"
    /\ inFlight[KeyOf[f]] = f
    /\ inFlight' = [inFlight EXCEPT ![KeyOf[f]] = NoFetch]
    /\ UNCHANGED <<redis, fetch, fetched, calls>>

FetchStoresLate(f) ==
    \/ FetchSettlesEarly(f)
    \/ /\ fetch[f] = "setting"
       /\ store' = [store EXCEPT ![KeyOf[f]] = fetched[f]]
       /\ Advance(f, "fulfilled")
       /\ UNCHANGED <<source, inFlight, fetched, calls>>

FetchStores(f) ==
    /\ fetch[f] = "setting"
    /\ store' = [store EXCEPT ![KeyOf[f]] = fetched[f]]
    /\ Advance(f, "fulfilled")
    /\ UNCHANGED <<source, inFlight, fetched, calls>>

(* fetchFn or set rejects; the error is logged and thrown again.           *)
FetchFails(f) ==
    /\ Faults
    /\ fetch[f] \in {"reading", "setting"}
    /\ Advance(f, "rejected")
    /\ UNCHANGED <<redis, inFlight, fetched, calls>>

Settled(f) == fetch[f] \in {"answer", "error"}

(* Faulty variants: the entry is cleared only after a success; a failure   *)
(* never settles the promise.                                              *)
SettleKeepingFailure(f) ==
    /\ fetch[f] \in {"fulfilled", "rejected"}
    /\ inFlight' = IF fetch[f] = "fulfilled"
                   THEN [inFlight EXCEPT ![KeyOf[f]] = NoFetch]
                   ELSE inFlight
    /\ Advance(f, IF fetch[f] = "fulfilled" THEN "answer" ELSE "error")
    /\ UNCHANGED <<redis, fetched, calls>>

SettleSuccess(f) ==
    /\ fetch[f] = "fulfilled"
    /\ inFlight' = [inFlight EXCEPT ![KeyOf[f]] = NoFetch]
    /\ Advance(f, "answer")
    /\ UNCHANGED <<redis, fetched, calls>>

(* finally: the entry is deleted, and the promise settles.                 *)
Settle(f) ==
    /\ fetch[f] \in {"fulfilled", "rejected"}
    /\ inFlight' = [inFlight EXCEPT ![KeyOf[f]] = NoFetch]
    /\ Advance(f, IF fetch[f] = "fulfilled" THEN "answer" ELSE "error")
    /\ UNCHANGED <<redis, fetched, calls>>

(* Those who returned the promise get its value or its error.              *)
Return(c) ==
    /\ caller[c] = "waiting"
    /\ Settled(joined[c])
    /\ IF fetch[joined[c]] = "answer" THEN Answer(c, fetched[joined[c]]) ELSE Reject(c)
    /\ UNCHANGED <<redis, fetches>>

CallStep(c) ==
    \/ RedisAnswers(c) \/ RedisFails(c) \/ Hit(c)
    \/ Coalesce(c) \/ StartFetch(c) \/ Return(c)

FetchStep(f) ==
    \/ FetchReads(f) \/ FetchReadsNull(f) \/ FetchStores(f)
    \/ FetchFails(f) \/ Settle(f)

Next ==
    \/ \E k \in Key : ChangeFiles(k) \/ Expire(k)
    \/ \E c \in Caller : Ask(c) \/ CallStep(c)
    \/ \E f \in Fetch : FetchStep(f)

Spec == Init /\ [][Next]_vars

-----------------------------------------------------------------------------
(* Types of the map, of Redis and of what the promises hold.               *)
TypeOK ==
    /\ source \in [Key -> Version]
    /\ store \in [Key -> Version \union {Null}]
    /\ inFlight \in [Key -> Fetch \union {NoFetch}]
    /\ caller \in [Caller -> {"idle", "asking", "looked", "waiting", "answered", "rejected"}]
    /\ joined \in [Caller -> Fetch \union {NoFetch}]
    /\ value \in [Caller -> Version \union {Null}]
    /\ fetch \in [Fetch -> {"none", "reading", "setting", "fulfilled",
                            "rejected", "answer", "error"}]
    /\ fetched \in [Fetch -> Version \union {Null}]
    /\ newest \in [Key -> Version \union {Null}]
    /\ floor \in [Caller -> Version \union {Null}]

Underway(f) == fetch[f] \in {"reading", "setting", "fulfilled", "rejected"}

(* However many judgings miss at once, the files of a problem are fetched  *)
(* by one of them at a time: inFlight coalesces the others.                *)
OneFetchPerKey ==
    \A f, g \in Fetch :
        Underway(f) /\ Underway(g) /\ KeyOf[f] = KeyOf[g] => f = g

(* The map holds no promise that is over: after a failure the next call    *)
(* fetches again instead of being given the old error.                     *)
NoStaleEntry ==
    \A k \in Key : inFlight[k] # NoFetch =>
        Underway(inFlight[k]) /\ KeyOf[inFlight[k]] = k

(* Versions never go backwards: a call that begins after another one has   *)
(* returned does not get older files, because a value is stored before the *)
(* next fetch of the key can begin.                                        *)
AnswersMoveForward ==
    \A c \in Caller :
        caller[c] = "answered" /\ value[c] # Null => value[c] >= floor[c]

(* Every call returns, with a value or an error.                           *)
CallReturns ==
    \A c \in Caller :
        caller[c] = "asking" ~> caller[c] \in {"answered", "rejected"}

=============================================================================
