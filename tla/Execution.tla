------------------------------ MODULE Execution ------------------------------
(***************************************************************************)
(* executeBatch of src/src/execution/execution.service.ts: a submission is *)
(* compiled and run on each of its tests inside one isolate box.           *)
(*                                                                         *)
(* A step ends at an await of a command or of a file operation; what no    *)
(* other call can see in between is one step, because a box is given to    *)
(* one call at a time (the Semaphore's BoxExclusive).  isolate is modelled *)
(* from its commands: --init leaves an empty box or fails, --run leaves an *)
(* output and a meta file, --cleanup removes the box or fails.             *)
(*                                                                         *)
(* A file is represented by who wrote it, an output by the run it is of.   *)
(***************************************************************************)
EXTENDS Integers, Sequences

CONSTANTS
    Job,            \* the calls of executeBatch
    Box,            \* the box numbers the semaphore hands out
    Tests,          \* how many tests each call is given
    Compiled,       \* the calls whose language has a compile step (cpp)
    Unsupported,    \* the calls whose language is not in the table
    Oversize,       \* the calls with more than 64KB of code
    Large,          \* the runs that print more than exec's maxBuffer (1 MiB)
    KeeperDies,     \* whether isolate can be killed before it writes its report
    MaxCrashes      \* bound: crashes of the process

Run == {r \in Job \X (Nat \ {0}) : r[2] <= Tests[r[1]]}

ASSUME ExecutionAssumption ==
    /\ Box # {}
    /\ Tests \in [Job -> Nat]
    /\ Compiled \subseteq Job
    /\ Unsupported \subseteq Job
    /\ Oversize \subseteq Job
    /\ \A r \in Large : r \in Run
    /\ KeeperDies \in BOOLEAN
    /\ MaxCrashes \in Nat

VARIABLES
    step,       \* where a call is
    box,        \* the box it was given
    test,       \* the test it is at
    report,     \* what its meta file says
    results,    \* the ExecutionResults it has gathered
    files,      \* what is in each box
    uncleaned,  \* history: boxes whose cleanup failed or was never reached
    crashes

vars == <<step, box, test, report, results, files, uncleaned, crashes>>

Nobody == "nobody"

Nothing == <<"nothing", 0>>

Running == {"init", "source", "compile", "run", "collect", "cleanup"}

Step == {"idle", "done", "lost"} \union Running

\* A box that does not exist, and one that --init has just made.
NoBox == [exists |-> FALSE, source |-> Nobody, binary |-> Nobody, output |-> Nothing]

NewBox == [NoBox EXCEPT !.exists = TRUE]

Active(b) == {j \in Job : box[j] = b /\ step[j] \in Running}

-----------------------------------------------------------------------------
(* A meta file: the status line and the exit code, each of which may be    *)
(* absent, and whether it speaks of signal 9 and memory.                   *)
Absent == "absent"

NoCode == -1

Meta(status, exitcode, memory) ==
    [status |-> status, exitcode |-> exitcode, memory |-> memory]

(* What isolate reports of a program that ran: it ended well, ended with   *)
(* a code, ran out of time, or was killed by a signal.                     *)
Reports ==
    {Meta(Absent, 0, FALSE), Meta("RE", 1, FALSE), Meta("TO", NoCode, FALSE),
     Meta("SG", NoCode, FALSE), Meta("SG", NoCode, TRUE)}

(* What it leaves when the sandbox itself fails: its own error, or no file *)
(* (NoMeta); an empty file, when it is killed between opening and writing. *)
NoMeta == Meta("no_file", NoCode, FALSE)

EmptyMeta == Meta(Absent, NoCode, FALSE)

Failures ==
    {Meta("XX", NoCode, FALSE), NoMeta} \union (IF KeeperDies THEN {EmptyMeta} ELSE {})

(* parseMetaFile: a missing status is OK or RE by the exit code, and a     *)
(* missing exit code is then 0.                                            *)
ParseMetaFile(raw) ==
    [status   |-> IF raw.status # Absent THEN raw.status
                  ELSE IF raw.exitcode = 0 THEN "OK" ELSE "RE",
     exitCode |-> IF raw.exitcode = NoCode THEN 0 ELSE raw.exitcode,
     memory   |-> raw.memory]

(* buildResultFromMeta, the status of a result.                            *)
ResultStatus(meta) ==
    IF meta.status \in {"OK", "RE"} THEN IF meta.exitCode = 0 THEN "OK" ELSE "RE"
    ELSE IF meta.status = "SG" THEN IF meta.memory THEN "MLE" ELSE "RE"
    ELSE IF meta.status = "TO" THEN "TLE" ELSE "SE"

Result(status, output) == [status |-> status, output |-> output]

(* buildErrorResults: the same status for every test.                      *)
ErrorResults(j, status) == [i \in 1 .. Tests[j] |-> Result(status, Nothing)]

-----------------------------------------------------------------------------
Init ==
    /\ step = [j \in Job |-> "idle"]
    /\ box = [j \in Job |-> CHOOSE b \in Box : TRUE]
    /\ test = [j \in Job |-> 1]
    /\ report = [j \in Job |-> NoMeta]
    /\ results = [j \in Job |-> <<>>]
    /\ files = [b \in Box |-> NoBox]
    /\ uncleaned = {}
    /\ crashes = 0

Goto(j, s) == step' = [step EXCEPT ![j] = s]

(* The call gives up with one status for all the tests.                    *)
GiveUp(j, status, s) ==
    /\ results' = [results EXCEPT ![j] = ErrorResults(j, status)]
    /\ Goto(j, s)

(* executeBatch(boxId, ...), called with a box nobody else has.            *)
Call(j, b) ==
    /\ step[j] = "idle"
    /\ Active(b) = {}
    /\ box' = [box EXCEPT ![j] = b]
    /\ IF j \in Unsupported
       THEN GiveUp(j, "SE", "done")
       ELSE Goto(j, "init") /\ UNCHANGED results
    /\ UNCHANGED <<test, report, files, uncleaned, crashes>>

InitBox(j) ==
    /\ step[j] = "init"
    /\ files' = [files EXCEPT ![box[j]] = NewBox]
    /\ uncleaned' = uncleaned \ {box[j]}
    /\ Goto(j, "source")
    /\ UNCHANGED <<box, test, report, results, crashes>>

(* initBox throws before the try: there is no cleanup.                     *)
InitBoxFails(j) ==
    /\ step[j] = "init"
    /\ GiveUp(j, "SE", "done")
    /\ UNCHANGED <<box, test, report, files, uncleaned, crashes>>

WriteSource(j) ==
    /\ step[j] = "source"
    /\ j \notin Oversize
    /\ files' = [files EXCEPT ![box[j]].source = j]
    /\ Goto(j, IF j \in Compiled THEN "compile" ELSE "run")
    /\ UNCHANGED <<box, test, report, results, uncleaned, crashes>>

(* validateCode or writeFile throws.                                       *)
WriteSourceFails(j) ==
    /\ step[j] = "source"
    /\ GiveUp(j, "SE", "cleanup")
    /\ UNCHANGED <<box, test, report, files, uncleaned, crashes>>

CompileSource(j) ==
    /\ step[j] = "compile"
    /\ files' = [files EXCEPT ![box[j]].binary = files[box[j]].source]
    /\ Goto(j, "run")
    /\ UNCHANGED <<box, test, report, results, uncleaned, crashes>>

(* Faulty variants: the tests run although compiling failed; the call      *)
(* returns without the finally block; it returns no result.                *)
CompileFailsAndRuns(j) ==
    /\ step[j] = "compile"
    /\ Goto(j, "run")
    /\ UNCHANGED <<box, test, report, results, files, uncleaned, crashes>>

CompileFailsNoCleanup(j) ==
    /\ step[j] = "compile"
    /\ GiveUp(j, "CE", "done")
    /\ UNCHANGED <<box, test, report, files, uncleaned, crashes>>

CompileFailsNoResults(j) ==
    /\ step[j] = "compile"
    /\ Goto(j, "cleanup")
    /\ UNCHANGED <<box, test, report, results, files, uncleaned, crashes>>

(* The compiler, or the sandbox it runs in, exits with an error.           *)
CompileSourceFails(j) ==
    /\ step[j] = "compile"
    /\ GiveUp(j, "CE", "cleanup")
    /\ UNCHANGED <<box, test, report, files, uncleaned, crashes>>

-----------------------------------------------------------------------------
(* Faulty variant: one test too many.                                      *)
AtTestOrPast(j) == step[j] = "run" /\ test[j] <= Tests[j] + 1

AtTest(j) == step[j] = "run" /\ test[j] <= Tests[j]

(* runTestCase writes input.txt and runs the program; the shell truncates  *)
(* output.txt before the program starts.                                   *)
RunProgram(j) ==
    /\ AtTest(j)
    /\ files' = [files EXCEPT ![box[j]].output = <<j, test[j]>>]
    /\ \E m \in Reports : report' = [report EXCEPT ![j] = m]
    /\ Goto(j, "collect")
    /\ UNCHANGED <<box, test, results, uncleaned, crashes>>

(* The command fails ("Execution command failed" is only logged), before   *)
(* or after the shell has truncated output.txt.                            *)
SandboxFails(j) ==
    /\ AtTest(j)
    /\ files' \in {files, [files EXCEPT ![box[j]].output = <<j, test[j]>>]}
    /\ \E m \in Failures : report' = [report EXCEPT ![j] = m]
    /\ Goto(j, "collect")
    /\ UNCHANGED <<box, test, results, uncleaned, crashes>>

(* writeFile of input.txt throws: the results so far are given up.         *)
WriteInputFails(j) ==
    /\ AtTest(j)
    /\ GiveUp(j, "SE", "cleanup")
    /\ UNCHANGED <<box, test, report, files, uncleaned, crashes>>

(* readBoxFile: a file that is not there, or larger than the buffer of     *)
(* exec, reads as the empty string.                                        *)
ReadBoxFile(b) == IF files[b].output \in Large THEN Nothing ELSE files[b].output

(* Faulty variants: a missing meta file is read as an empty one; the test  *)
(* counter is not advanced.                                                *)
ResultOfAny(j) ==
    Result(ResultStatus(ParseMetaFile(IF report[j] = NoMeta THEN EmptyMeta ELSE report[j])),
           ReadBoxFile(box[j]))

CollectResultAgain(j) ==
    /\ step[j] = "collect"
    /\ Goto(j, "run")
    /\ UNCHANGED <<box, test, report, results, files, uncleaned, crashes>>

(* Without a meta file the result is SE; otherwise meta and output decide. *)
ResultOf(j) ==
    IF report[j] = NoMeta
    THEN Result("SE", Nothing)
    ELSE Result(ResultStatus(ParseMetaFile(report[j])), ReadBoxFile(box[j]))

CollectResult(j) ==
    /\ step[j] = "collect"
    /\ results' = [results EXCEPT ![j] = Append(@, ResultOf(j))]
    /\ test' = [test EXCEPT ![j] = @ + 1]
    /\ Goto(j, "run")
    /\ UNCHANGED <<box, report, files, uncleaned, crashes>>

TestsOver(j) ==
    /\ step[j] = "run"
    /\ test[j] > Tests[j]
    /\ Goto(j, "cleanup")
    /\ UNCHANGED <<box, test, report, results, files, uncleaned, crashes>>

(* The finally block, whose failure is only logged.                        *)
DestroyBox(j) ==
    /\ step[j] = "cleanup"
    /\ files' = [files EXCEPT ![box[j]] = NoBox]
    /\ Goto(j, "done")
    /\ UNCHANGED <<box, test, report, results, uncleaned, crashes>>

DestroyBoxFails(j) ==
    /\ step[j] = "cleanup"
    /\ uncleaned' = uncleaned \union {box[j]}
    /\ Goto(j, "done")
    /\ UNCHANGED <<box, test, report, results, files, crashes>>

(* The process dies; the boxes stay as they are.                           *)
Crash ==
    /\ crashes < MaxCrashes
    /\ crashes' = crashes + 1
    /\ step' = [j \in Job |-> IF step[j] \in Running THEN "lost" ELSE step[j]]
    /\ uncleaned' = uncleaned \union {b \in Box : Active(b) # {}}
    /\ UNCHANGED <<box, test, report, results, files>>

JobStep(j) ==
    \/ InitBox(j) \/ InitBoxFails(j)
    \/ WriteSource(j) \/ WriteSourceFails(j)
    \/ CompileSource(j) \/ CompileSourceFails(j)
    \/ RunProgram(j) \/ SandboxFails(j) \/ WriteInputFails(j)
    \/ CollectResult(j) \/ TestsOver(j)
    \/ DestroyBox(j) \/ DestroyBoxFails(j)

Next ==
    \/ \E j \in Job : JobStep(j) \/ \E b \in Box : Call(j, b)
    \/ Crash

Spec == Init /\ [][Next]_vars

(* Commands end: isolate is given a time and a wall-time limit and exec a  *)
(* timeout, and file operations are answered.                              *)
FairSpec == Spec /\ \A j \in Job : WF_vars(JobStep(j))

-----------------------------------------------------------------------------
Output == Job \X Nat \union {Nothing}

Writer == Job \union {Nobody}

(* Types of what a call keeps and of the boxes.                            *)
TypeOK ==
    /\ step \in [Job -> Step]
    /\ box \in [Job -> Box]
    /\ test \in [Job -> Nat]
    /\ \A j \in Job : test[j] \in 1 .. Tests[j] + 1
    /\ report \in [Job -> Reports \union Failures]
    /\ results \in
           [Job -> Seq([status : {"OK", "RE", "TLE", "MLE", "SE", "CE"}, output : Output])]
    /\ files \in
           [Box -> [exists : BOOLEAN, source : Writer, binary : Writer, output : Output]]
    /\ uncleaned \subseteq Box
    /\ crashes \in 0 .. MaxCrashes

(* The program that runs on the tests is the one of this call, not what an *)
(* earlier call, a failed cleanup or a crash has left in the box.          *)
RunsOwnProgram ==
    \A j \in Job : step[j] \in {"run", "collect"} =>
        /\ files[box[j]].exists
        /\ files[box[j]].source = j
        /\ j \in Compiled => files[box[j]].binary = j

(* The output of a result that says OK was printed by this call on this    *)
(* test: the judge compares no left-over of an earlier test with the       *)
(* expected output.                                                        *)
NoForeignOutput ==
    \A j \in Job : \A i \in DOMAIN results[j] :
        results[j][i].status = "OK" => results[j][i].output \in {<<j, i>>, Nothing}

(* A box that no call uses is gone, unless its cleanup failed or a crash   *)
(* came first: no return path skips the finally block.                     *)
BoxesAreCleaned ==
    \A b \in Box : files[b].exists /\ Active(b) = {} => b \in uncleaned

(* Every call of executeBatch ends, so that the worker gets its box back,  *)
(* or is taken by a crash.                                                 *)
BatchEnds ==
    \A j \in Job : step[j] \in Running ~> step[j] \in {"done", "lost"}

(* The caller is promised one status per test and nothing of the box.      *)
CallState(j) ==
    IF step[j] \in Running THEN "running"
    ELSE [idle |-> "pending", done |-> "answered", lost |-> "lost"][step[j]]

Statuses(j) == [i \in DOMAIN results[j] |-> results[j][i].status]

Promise == INSTANCE Batch
               WITH state <- [j \in Job |-> CallState(j)],
                    answer <- [j \in Job |->
                                  IF step[j] = "done" THEN Statuses(j) ELSE <<>>]

ImplementsBatch == Promise!BatchSpec

=============================================================================
