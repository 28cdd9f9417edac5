------------------------------ MODULE TestCases ------------------------------
(***************************************************************************)
(* getTestCases of src/src/judge/test-cases/test-cases.service.ts over     *)
(* fetchObjectContents of src/src/storage/storage.service.ts: what the     *)
(* fetches of module Cache really read.  A fetch lists the keys of a       *)
(* problem, one page of them, reads the files one by one and groups them   *)
(* into tests, while the files may change.                                 *)
(*                                                                         *)
(* A step here is a step of Cache with what it does to the files, or a     *)
(* read of one file, which Cache does not see.  The version Cache gives a  *)
(* fetch is that of the listing.  A content is the version of the problem's*)
(* files in which it was written.                                          *)
(***************************************************************************)
EXTENDS Cache

CONSTANTS
    LastTest,   \* the tests of a problem have the base names 1 .. LastTest
    Uploads,    \* the sets of files a problem may have at first
    Page        \* how many keys ListObjectsV2 lists at most (1000 in S3)

Test == 1 .. LastTest

\* The keys of a problem, in the order of a listing: the folder's own, which
\* ends with '/', then <t>.in.txt and <t>.out.txt for each test t.
Folder == 0
In(t) == 2 * t - 1
Out(t) == 2 * t
File == Folder .. Out(LastTest)

\* A file that is gone when it is read is an error of the storage.
ASSUME TestCasesAssumption ==
    /\ LastTest \in Nat
    /\ Page \in Nat \ {0}
    /\ Uploads \subseteq SUBSET File
    /\ Faults

Absent == 0

Content == Version \union {Absent}

VARIABLES
    stored,     \* the content of each file in the bucket, or Absent
    listed,     \* what the bucket held when a fetch listed it
    got,        \* the contents a fetch has read
    cachedBy,   \* the fetch whose tests Redis holds
    hit,        \* the fetch whose tests Redis has given to a call
    before      \* history: whose tests calls of the key had when a call began

suites == <<stored, listed, got, cachedBy, hit, before>>
testVars == <<vars, suites>>

Nothing == [n \in File |-> Absent]

TestsInit ==
    /\ Init
    /\ \E files \in [Key -> Uploads] :
          stored = [k \in Key |-> [n \in File |-> IF n \in files[k] THEN 1 ELSE Absent]]
    /\ listed = [f \in Fetch |-> Nothing]
    /\ got = [f \in Fetch |-> Nothing]
    /\ cachedBy = [k \in Key |-> NoFetch]
    /\ hit = [c \in Caller |-> NoFetch]
    /\ before = [c \in Caller |-> {}]

-----------------------------------------------------------------------------
Held(bucket) == {n \in File : bucket[n] # Absent}

(* ListObjectsV2 without a continuation token: the first page of the keys. *)
FirstPage(S) == {n \in S : Cardinality({m \in S : m <= n}) <= Page}

(* fetchObjectContents reads what is listed, except folders.               *)
Keys(f) == FirstPage(Held(listed[f])) \ {Folder}

(* Faulty variant: a test without an output is dropped as well.            *)
GroupComplete(keys, content) ==
    [t \in {t \in Test : {In(t), Out(t)} \subseteq keys} |->
        [input |-> content[In(t)], output |-> content[Out(t)]]]

(* The files by base name.  A test without an input is dropped; one without*)
(* an output is kept, and compared with no output at all.                  *)
Group(keys, content) ==
    [t \in {t \in Test : In(t) \in keys} |->
        [input |-> content[In(t)],
         output |-> IF Out(t) \in keys THEN content[Out(t)] ELSE Absent]]

Suite(f) == Group(Keys(f), got[f])

(* The fetch that has read the tests a call returns.                       *)
Origin(c) == IF hit[c] # NoFetch THEN hit[c] ELSE joined[c]

Given(k) == {Origin(c) : c \in {d \in Caller : KeyOf[d] = k /\ caller[d] = "answered"}}

-----------------------------------------------------------------------------
(* Somebody writes a file, or deletes one.                                 *)
ChangeFile(k, n) ==
    /\ ChangeFiles(k)
    /\ \/ stored' = [stored EXCEPT ![k][n] = source'[k]]
       \/ stored[k][n] # Absent /\ stored' = [stored EXCEPT ![k][n] = Absent]
    /\ UNCHANGED <<listed, got, cachedBy, hit, before>>

ExpireSuite(k) ==
    /\ Expire(k)
    /\ cachedBy' = [cachedBy EXCEPT ![k] = NoFetch]
    /\ UNCHANGED <<stored, listed, got, hit, before>>

GetTestCases(c) ==
    /\ Ask(c)
    /\ before' = [before EXCEPT ![c] = Given(KeyOf[c])]
    /\ UNCHANGED <<stored, listed, got, cachedBy, hit>>

GetCached(c) ==
    /\ RedisAnswers(c)
    /\ hit' = [hit EXCEPT ![c] = cachedBy[KeyOf[c]]]
    /\ UNCHANGED <<stored, listed, got, cachedBy, before>>

ListObjectKeys(f) ==
    /\ FetchReads(f)
    /\ listed' = [listed EXCEPT ![f] = stored[KeyOf[f]]]
    /\ UNCHANGED <<stored, got, cachedBy, hit, before>>

(* One of the reads that Promise.all awaits.                               *)
GetObject(f, n) ==
    /\ fetch[f] = "setting"
    /\ n \in Keys(f)
    /\ got[f][n] = Absent
    /\ stored[KeyOf[f]][n] # Absent
    /\ got' = [got EXCEPT ![f][n] = stored[KeyOf[f]][n]]
    /\ UNCHANGED <<vars, stored, listed, cachedBy, hit, before>>

(* All files have been read; the tests are stored.                         *)
StoreSuite(f) ==
    /\ FetchStores(f)
    /\ \A n \in Keys(f) : got[f][n] # Absent
    /\ cachedBy' = [cachedBy EXCEPT ![KeyOf[f]] = f]
    /\ UNCHANGED <<stored, listed, got, hit, before>>

(* The steps that do not look at the files.  FetchFails is also the read of*)
(* a file that is gone.                                                    *)
GoOn(c) ==
    /\ RedisFails(c) \/ Hit(c) \/ Coalesce(c) \/ StartFetch(c) \/ Return(c)
    /\ UNCHANGED suites

EndFetch(f) ==
    /\ FetchFails(f) \/ Settle(f)
    /\ UNCHANGED suites

FetchFiles(f) ==
    \/ ListObjectKeys(f)
    \/ \E n \in File : GetObject(f, n)
    \/ StoreSuite(f)
    \/ EndFetch(f)

TestsNext ==
    \/ \E k \in Key : ExpireSuite(k) \/ \E n \in File : ChangeFile(k, n)
    \/ \E c \in Caller : GetTestCases(c) \/ GetCached(c) \/ GoOn(c)
    \/ \E f \in Fetch : FetchFiles(f)

TestsSpec == TestsInit /\ [][TestsNext]_testVars

(* Redis and the storage answer, if only with an error, and the event loop *)
(* runs what is ready.                                                     *)
FairTestsSpec ==
    /\ TestsSpec
    /\ \A c \in Caller :
          WF_testVars(GetCached(c) \/ GoOn(c)) /\ WF_testVars(FetchFiles(c))

-----------------------------------------------------------------------------
(* Types of the bucket and of what the fetches have read.                  *)
SuiteTypeOK ==
    /\ stored \in [Key -> [File -> Content]]
    /\ listed \in [Fetch -> [File -> Content]]
    /\ got \in [Fetch -> [File -> Content]]
    /\ \A f \in Fetch : Held(got[f]) \subseteq Keys(f)
    /\ cachedBy \in [Key -> Fetch \union {NoFetch}]
    /\ hit \in [Caller -> Fetch \union {NoFetch}]
    /\ before \in [Caller -> SUBSET Fetch]

Answered(c) == caller[c] = "answered"

(* A judging that begins when another one has been given its tests is given*)
(* no older content of any file, although nothing keeps a fetch from       *)
(* reading files of several versions: the fetches of a problem never       *)
(* overlap, and Redis holds what the last of them has read.                *)
ContentsMoveForward ==
    \A c \in Caller : Answered(c) =>
        \A f \in before[c] : \A n \in Keys(Origin(c)) :
            got[Origin(c)][n] >= got[f][n]

(* The tests of a version: its inputs, with their outputs.                 *)
TestsOf(bucket) ==
    [t \in {t \in Test : bucket[In(t)] # Absent} |->
        [input |-> bucket[In(t)], output |-> bucket[Out(t)]]]

Overflows(f) == Cardinality(Held(listed[f])) > Page

(* What a judging is given is the tests as they were listed, apart from two*)
(* things nothing prevents: a file written after the listing may be read in*)
(* its new version, so that a suite may be mixed, and keys beyond the page *)
(* are not read, so that it may be cut.  But nothing older is mixed in, no *)
(* test appears or is missing otherwise, nor loses its output, and a cut   *)
(* takes the last tests only, or leaves the last one without its output.   *)
SuiteIsAsListed ==
    \A c \in Caller : Answered(c) =>
        LET f == Origin(c)
            suite == Suite(f)
            whole == TestsOf(listed[f])
            Newer(content) == content > value[c]
        IN  /\ DOMAIN suite \subseteq DOMAIN whole
            /\ \A t \in DOMAIN whole \ DOMAIN suite :
                   Overflows(f) /\ \A u \in DOMAIN suite : u < t
            /\ \A t \in DOMAIN suite :
                   /\ \/ suite[t].input = whole[t].input
                      \/ Newer(suite[t].input)
                   /\ \/ suite[t].output = whole[t].output
                      \/ Newer(suite[t].output)
                      \/ /\ suite[t].output = Absent /\ Overflows(f)
                         /\ \A u \in DOMAIN suite : u <= t

=============================================================================
