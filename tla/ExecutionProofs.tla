--------------------------- MODULE ExecutionProofs ----------------------------
(* executeBatch in any number of boxes, for any number of calls, tests and *)
(* crashes: whose program runs, whose output is reported, what is left in  *)
(* the boxes, and that nothing of it shows in what the judge is promised.  *)
EXTENDS Execution, TLAPS

RunStatus == {"OK", "RE", "TLE", "MLE", "SE"}

ResultType == [status : {"OK", "RE", "TLE", "MLE", "SE", "CE"}, output : Output]

BoxType == [exists : BOOLEAN, source : Writer, binary : Writer, output : Output]

(* buildResultFromMeta gives one of five statuses, whatever the report is. *)
LEMMA ResultStatusRange == \A m : ResultStatus(m) \in RunStatus
BY DEF ResultStatus, RunStatus

(* What a test is given as its result.                                     *)
LEMMA ResultOfType ==
  ASSUME TypeOK, NEW j \in Job
  PROVE  /\ ResultOf(j).status \in RunStatus
         /\ ResultOf(j).output \in Output
         /\ ResultOf(j) \in ResultType
<1>1. Nothing \in Output /\ files[box[j]].output \in Output
  BY DEF TypeOK, Output
<1>2. ReadBoxFile(box[j]) \in Output
  BY <1>1 DEF ReadBoxFile
<1>3. CASE report[j] = NoMeta
  BY <1>1, <1>3 DEF ResultOf, Result, RunStatus, ResultType
<1>4. CASE report[j] # NoMeta
  <2> DEFINE s == ResultStatus(ParseMetaFile(report[j]))
  <2>1. s \in RunStatus
    BY ResultStatusRange
  <2>2. ResultOf(j) = Result(s, ReadBoxFile(box[j]))
    BY <1>4 DEF ResultOf
  <2> HIDE DEF s
  <2> QED
    BY <1>2, <2>1, <2>2 DEF Result, RunStatus, ResultType
<1> QED
  BY <1>3, <1>4

LEMMA ErrorResultsType ==
  ASSUME NEW j \in Job, NEW status \in {"SE", "CE"}
  PROVE  /\ ErrorResults(j, status) \in Seq(ResultType)
         /\ DOMAIN ErrorResults(j, status) = 1 .. Tests[j]
         /\ \A i \in 1 .. Tests[j] : ErrorResults(j, status)[i].status = status
<1>1. Tests[j] \in Nat
  BY ExecutionAssumption
<1>2. Result(status, Nothing) \in ResultType
  BY DEF Result, ResultType, Output
<1> QED
  BY <1>1, <1>2 DEF ErrorResults, Result

-----------------------------------------------------------------------------
(* While a call gathers, it has one result for each test before the one it *)
(* is at; a test past the last is only looked for.                         *)
Gathers(j) ==
    /\ step[j] \in {"idle", "init", "source", "compile"} => test[j] = 1
    /\ step[j] = "collect" => test[j] <= Tests[j]
    /\ step[j] \in {"idle", "init", "source", "compile", "run", "collect"} =>
           /\ Len(results[j]) = test[j] - 1
           /\ \A i \in DOMAIN results[j] : results[j][i].status \in RunStatus
    /\ step[j] \in {"cleanup", "done"} =>
           Statuses(j) \in [1 .. Tests[j] -> RunStatus] \union {[i \in 1 .. Tests[j] |-> "CE"]}

GatherInv == \A j \in Job : Gathers(j)

(* One call at a time uses a box.                                          *)
ExclusiveInv ==
    \A j, k \in Job :
        step[j] \in Running /\ step[k] \in Running /\ box[j] = box[k] => j = k

(* What a call has put into its box by the time it is somewhere.           *)
OwnsProgram(j) ==
    /\ step[j] \in {"source", "compile", "run", "collect"} => files[box[j]].exists
    /\ step[j] \in {"compile", "run", "collect"} => files[box[j]].source = j
    /\ step[j] \in {"run", "collect"} /\ j \in Compiled => files[box[j]].binary = j

ProgramInv == \A j \in Job : OwnsProgram(j)

(* A box that is there although nobody uses it, or although --init has not *)
(* made it anew, has not been cleaned.                                     *)
CleanInv ==
    /\ BoxesAreCleaned
    /\ \A j \in Job : step[j] = "init" /\ files[box[j]].exists => box[j] \in uncleaned

ExecInv == TypeOK /\ GatherInv /\ ExclusiveInv /\ ProgramInv /\ CleanInv

-----------------------------------------------------------------------------
LEMMA TypeInit == Init => TypeOK
<1> SUFFICES ASSUME Init
             PROVE  TypeOK
  OBVIOUS
<1> USE ExecutionAssumption DEF Init
<1>1. step \in [Job -> Step]
  BY DEF Step
<1>2. box \in [Job -> Box]
  OBVIOUS
<1>3. test \in [Job -> Nat] /\ \A j \in Job : test[j] \in 1 .. Tests[j] + 1
  <2>1. \A j \in Job : Tests[j] \in Nat
    OBVIOUS
  <2> QED
    BY <2>1
<1>4. report \in [Job -> Reports \union Failures]
  BY DEF Failures
<1>5. results \in [Job -> Seq(ResultType)]
  OBVIOUS
<1>6. files \in [Box -> [exists : BOOLEAN, source : Writer, binary : Writer, output : Output]]
  BY DEF NoBox, Writer, Output
<1>7. uncleaned \subseteq Box /\ crashes \in 0 .. MaxCrashes
  OBVIOUS
<1> QED
  BY <1>1, <1>2, <1>3, <1>4, <1>5, <1>6, <1>7 DEF TypeOK, ResultType

(* A step of one call keeps the types.                                     *)
LEMMA JobStepType ==
  ASSUME TypeOK, GatherInv, NEW j \in Job, JobStep(j)
  PROVE  TypeOK'
<1> USE DEF TypeOK, Goto, Step, Running, vars
<1>0. \A s \in {"SE", "CE"} : ErrorResults(j, s) \in Seq(ResultType)
  BY ErrorResultsType
<1>1. CASE InitBox(j)
  BY <1>1 DEF InitBox, NewBox, NoBox, Writer, Output
<1>2. CASE InitBoxFails(j)
  BY <1>0, <1>2 DEF InitBoxFails, GiveUp, ResultType
<1>3. CASE WriteSource(j)
  BY <1>3 DEF WriteSource, Writer
<1>4. CASE WriteSourceFails(j)
  BY <1>0, <1>4 DEF WriteSourceFails, GiveUp, ResultType
<1>5. CASE CompileSource(j)
  BY <1>5 DEF CompileSource
<1>6. CASE CompileSourceFails(j)
  BY <1>0, <1>6 DEF CompileSourceFails, GiveUp, ResultType
<1>7. CASE RunProgram(j)
  <2>1. <<j, test[j]>> \in Output
    BY DEF Output
  <2>2. files' \in [Box -> BoxType]
    BY <1>7, <2>1 DEF RunProgram, BoxType
  <2>3. report' \in [Job -> Reports \union Failures]
    BY <1>7 DEF RunProgram
  <2> QED
    BY <1>7, <2>2, <2>3 DEF RunProgram, AtTest, BoxType
<1>8. CASE SandboxFails(j)
  <2>1. <<j, test[j]>> \in Output
    BY DEF Output
  <2>2. files' \in [Box -> BoxType]
    <3>1. [files EXCEPT ![box[j]].output = <<j, test[j]>>] \in [Box -> BoxType]
      BY <2>1 DEF BoxType
    <3> QED
      BY <1>8, <3>1 DEF SandboxFails, BoxType
  <2>3. report' \in [Job -> Reports \union Failures]
    BY <1>8 DEF SandboxFails
  <2> QED
    BY <1>8, <2>2, <2>3 DEF SandboxFails, AtTest, BoxType
<1>9. CASE WriteInputFails(j)
  BY <1>0, <1>9 DEF WriteInputFails, AtTest, GiveUp, ResultType
<1>10. CASE CollectResult(j)
  <2>1. ResultOf(j) \in ResultType
    BY ResultOfType
  <2>2. results' \in [Job -> Seq(ResultType)]
    <3>1. results \in [Job -> Seq(ResultType)]
      BY DEF ResultType
    <3>2. Append(results[j], ResultOf(j)) \in Seq(ResultType)
      BY <2>1, <3>1
    <3> QED
      BY <1>10, <3>1, <3>2 DEF CollectResult
  <2>3. test[j] <= Tests[j] /\ Tests[j] \in Nat
    BY <1>10, ExecutionAssumption DEF CollectResult, GatherInv, Gathers
  <2>4. test' \in [Job -> Nat] /\ \A k \in Job : test'[k] \in 1 .. Tests[k] + 1
    BY <1>10, <2>3 DEF CollectResult
  <2>5. UNCHANGED <<box, report, files, uncleaned, crashes>> /\ step' \in [Job -> Step]
    BY <1>10 DEF CollectResult
  <2> QED
    BY <2>2, <2>4, <2>5 DEF ResultType
<1>11. CASE TestsOver(j)
  BY <1>11 DEF TestsOver
<1>12. CASE DestroyBox(j)
  BY <1>12 DEF DestroyBox, NoBox, Writer, Output
<1>13. CASE DestroyBoxFails(j)
  BY <1>13 DEF DestroyBoxFails
<1> QED
  BY <1>1, <1>2, <1>3, <1>4, <1>5, <1>6, <1>7, <1>8, <1>9, <1>10, <1>11, <1>12, <1>13
     DEF JobStep

LEMMA StepType ==
  ASSUME TypeOK, GatherInv, [Next]_vars
  PROVE  TypeOK'
<1>1. ASSUME NEW j \in Job, NEW b \in Box, Call(j, b)
      PROVE  TypeOK'
  <2>1. ErrorResults(j, "SE") \in Seq(ResultType)
    BY ErrorResultsType
  <2> QED
    <3>1. CASE j \in Unsupported
      BY <1>1, <2>1, <3>1 DEF Call, GiveUp, Goto, TypeOK, Step, ResultType
    <3>2. CASE j \notin Unsupported
      BY <1>1, <3>2 DEF Call, Goto, TypeOK, Step, Running
    <3> QED
      BY <3>1, <3>2
<1>2. CASE Crash
  <2>1. step' \in [Job -> Step]
    BY <1>2 DEF Crash, TypeOK, Step
  <2>2. uncleaned' \subseteq Box /\ crashes' \in 0 .. MaxCrashes
    BY <1>2, ExecutionAssumption DEF Crash, TypeOK
  <2> QED
    BY <1>2, <2>1, <2>2 DEF Crash, TypeOK
<1>3. CASE UNCHANGED vars
  BY <1>3 DEF vars, TypeOK
<1> QED
  BY <1>1, <1>2, <1>3, JobStepType DEF Next

-----------------------------------------------------------------------------
(* A step of one call leaves the other calls and the other boxes alone.    *)
LEMMA OthersKeep ==
  ASSUME TypeOK, NEW j \in Job, JobStep(j)
  PROVE  /\ step[j] \in Running /\ step'[j] \in Running \union {"done"}
         /\ UNCHANGED <<box, crashes>>
         /\ \A k \in Job \ {j} :
               /\ step'[k] = step[k] /\ test'[k] = test[k]
               /\ report'[k] = report[k] /\ results'[k] = results[k]
         /\ \A b \in Box \ {box[j]} :
               files'[b] = files[b] /\ (b \in uncleaned <=> b \in uncleaned')
<1> USE DEF TypeOK, Goto, GiveUp, Running
<1>1. CASE InitBox(j) \/ InitBoxFails(j)
  BY <1>1 DEF InitBox, InitBoxFails
<1>2. CASE WriteSource(j) \/ WriteSourceFails(j)
  BY <1>2 DEF WriteSource, WriteSourceFails
<1>3. CASE CompileSource(j) \/ CompileSourceFails(j)
  BY <1>3 DEF CompileSource, CompileSourceFails
<1>4. CASE RunProgram(j)
  BY <1>4 DEF RunProgram, AtTest
<1>5. CASE SandboxFails(j)
  BY <1>5 DEF SandboxFails, AtTest
<1>6. CASE WriteInputFails(j)
  BY <1>6 DEF WriteInputFails, AtTest
<1>7. CASE CollectResult(j) \/ TestsOver(j)
  BY <1>7 DEF CollectResult, TestsOver
<1>8. CASE DestroyBox(j) \/ DestroyBoxFails(j)
  BY <1>8 DEF DestroyBox, DestroyBoxFails
<1> QED
  BY <1>1, <1>2, <1>3, <1>4, <1>5, <1>6, <1>7, <1>8 DEF JobStep

(* What a call that gives up returns.                                      *)
LEMMA GivesUp ==
  ASSUME TypeOK, NEW j \in Job, NEW status \in {"SE", "CE"}, NEW s, GiveUp(j, status, s)
  PROVE  Statuses(j)' \in [1 .. Tests[j] -> RunStatus] \union {[i \in 1 .. Tests[j] |-> "CE"]}
<1>1. results'[j] = ErrorResults(j, status)
  BY DEF TypeOK, GiveUp
<1>2. /\ DOMAIN results'[j] = 1 .. Tests[j]
      /\ \A i \in 1 .. Tests[j] : results'[j][i].status = status
  BY <1>1, ErrorResultsType
<1>3. Statuses(j)' = [i \in 1 .. Tests[j] |-> status]
  BY <1>2 DEF Statuses
<1> QED
  BY <1>3 DEF RunStatus

LEMMA CollectGathers ==
  ASSUME TypeOK, NEW j \in Job, Gathers(j), CollectResult(j)
  PROVE  Gathers(j)'
<1>1. results[j] \in Seq(ResultType) /\ test[j] \in Nat
  BY DEF TypeOK, ResultType
<1>2. /\ step'[j] = "run" /\ test'[j] = test[j] + 1
      /\ results'[j] = Append(results[j], ResultOf(j))
  BY DEF CollectResult, Goto, TypeOK
<1>3. /\ Len(results[j]) = test[j] - 1
      /\ \A i \in DOMAIN results[j] : results[j][i].status \in RunStatus
  BY DEF Gathers, CollectResult
<1>4. ResultOf(j).status \in RunStatus /\ ResultOf(j) \in ResultType
  BY ResultOfType
<1>5. /\ Len(results'[j]) = Len(results[j]) + 1
      /\ DOMAIN results'[j] = 1 .. Len(results[j]) + 1
      /\ \A i \in 1 .. Len(results[j]) : results'[j][i] = results[j][i]
      /\ results'[j][Len(results[j]) + 1] = ResultOf(j)
  BY <1>1, <1>2, <1>4
<1>6. ASSUME NEW i \in DOMAIN results'[j]
      PROVE  results'[j][i].status \in RunStatus
  <2>1. Len(results[j]) \in Nat /\ DOMAIN results[j] = 1 .. Len(results[j])
    BY <1>1
  <2>2. CASE i = Len(results[j]) + 1
    BY <1>4, <1>5, <2>2
  <2>3. CASE i \in 1 .. Len(results[j])
    BY <1>3, <1>5, <2>1, <2>3
  <2> QED
    BY <1>5, <2>1, <2>2, <2>3
<1> QED
  BY <1>1, <1>2, <1>3, <1>5, <1>6 DEF Gathers

LEMMA TestsOverGathers ==
  ASSUME TypeOK, NEW j \in Job, Gathers(j), TestsOver(j)
  PROVE  Gathers(j)'
<1>1. results[j] \in Seq(ResultType) /\ test[j] \in 1 .. Tests[j] + 1 /\ Tests[j] \in Nat
  BY ExecutionAssumption DEF TypeOK, ResultType
<1>2. /\ Len(results[j]) = Tests[j]
      /\ \A i \in DOMAIN results[j] : results[j][i].status \in RunStatus
  BY <1>1 DEF Gathers, TestsOver
<1>3. Statuses(j) \in [1 .. Tests[j] -> RunStatus]
  BY <1>1, <1>2 DEF Statuses
<1>4. step'[j] = "cleanup" /\ results' = results
  BY DEF TestsOver, Goto, TypeOK
<1> QED
  BY <1>3, <1>4 DEF Gathers, Statuses

LEMMA JobStepGathers ==
  ASSUME TypeOK, GatherInv, NEW j \in Job, JobStep(j)
  PROVE  GatherInv'
<1>1. ASSUME NEW k \in Job \ {j}
      PROVE  Gathers(k)'
  BY <1>1, OthersKeep DEF GatherInv, Gathers, Statuses
<1>2. Gathers(j)'
  <2> USE DEF Goto, TypeOK
  <2>0. Gathers(j)
    BY DEF GatherInv, Gathers
  <2>1. CASE InitBox(j)
    BY <2>0, <2>1 DEF InitBox, Gathers
  <2>2. CASE InitBoxFails(j)
    BY <2>2, GivesUp DEF InitBoxFails, GiveUp, Gathers
  <2>3. CASE WriteSource(j)
    BY <2>0, <2>3 DEF WriteSource, Gathers
  <2>4. CASE WriteSourceFails(j)
    BY <2>4, GivesUp DEF WriteSourceFails, GiveUp, Gathers
  <2>5. CASE CompileSource(j)
    BY <2>0, <2>5 DEF CompileSource, Gathers
  <2>6. CASE CompileSourceFails(j)
    BY <2>6, GivesUp DEF CompileSourceFails, GiveUp, Gathers
  <2>7. CASE RunProgram(j)
    BY <2>0, <2>7 DEF RunProgram, AtTest, Gathers
  <2>8. CASE SandboxFails(j)
    BY <2>0, <2>8 DEF SandboxFails, AtTest, Gathers
  <2>9. CASE WriteInputFails(j)
    BY <2>9, GivesUp DEF WriteInputFails, GiveUp, Gathers
  <2>10. CASE CollectResult(j)
    BY <2>0, <2>10, CollectGathers
  <2>11. CASE TestsOver(j)
    BY <2>0, <2>11, TestsOverGathers
  <2>12. CASE DestroyBox(j)
    BY <2>0, <2>12 DEF DestroyBox, Gathers, Statuses
  <2>13. CASE DestroyBoxFails(j)
    BY <2>0, <2>13 DEF DestroyBoxFails, Gathers, Statuses
  <2> QED
    BY <2>1, <2>2, <2>3, <2>4, <2>5, <2>6, <2>7, <2>8, <2>9, <2>10, <2>11, <2>12, <2>13
       DEF JobStep
<1> QED
  BY <1>1, <1>2 DEF GatherInv, Gathers

LEMMA StepGathers ==
  ASSUME TypeOK, GatherInv, [Next]_vars
  PROVE  GatherInv'
<1>1. ASSUME NEW j \in Job, NEW b \in Box, Call(j, b)
      PROVE  GatherInv'
  <2>1. ASSUME NEW k \in Job \ {j}
        PROVE  Gathers(k)'
    BY <1>1, <2>1 DEF Call, GiveUp, Goto, TypeOK, GatherInv, Gathers, Statuses
  <2>2. CASE j \in Unsupported
    <3>1. GiveUp(j, "SE", "done")
      BY <1>1, <2>2 DEF Call
    <3>2. step'[j] = "done"
      BY <3>1 DEF GiveUp, Goto, TypeOK
    <3> QED
      BY <2>1, <3>1, <3>2, GivesUp DEF GatherInv, Gathers
  <2>3. CASE j \notin Unsupported
    <3>1. Gathers(j)'
      BY <1>1, <2>3 DEF Call, Goto, TypeOK, GatherInv, Gathers
    <3> QED
      BY <2>1, <3>1 DEF GatherInv, Gathers
  <2> QED
    BY <2>2, <2>3
<1>2. CASE Crash
  BY <1>2 DEF Crash, Running, TypeOK, GatherInv, Gathers, Statuses
<1>3. CASE UNCHANGED vars
  BY <1>3 DEF vars, GatherInv, Gathers, Statuses
<1> QED
  BY <1>1, <1>2, <1>3, JobStepGathers DEF Next

-----------------------------------------------------------------------------
LEMMA StepExclusive ==
  ASSUME TypeOK, ExclusiveInv, [Next]_vars
  PROVE  ExclusiveInv'
<1>1. ASSUME NEW j \in Job, JobStep(j)
      PROVE  ExclusiveInv'
  BY <1>1, OthersKeep DEF ExclusiveInv
<1>2. ASSUME NEW j \in Job, NEW b \in Box, Call(j, b)
      PROVE  ExclusiveInv'
  <2>1. \A k \in Job : ~ (step[k] \in Running /\ box[k] = b)
    BY <1>2 DEF Call, Active
  <2>2. \A k \in Job \ {j} : step'[k] = step[k] /\ box'[k] = box[k]
    BY <1>2 DEF Call, GiveUp, Goto, TypeOK
  <2>3. box'[j] = b
    BY <1>2 DEF Call, TypeOK
  <2> QED
    BY <2>1, <2>2, <2>3 DEF ExclusiveInv
<1>3. CASE Crash
  BY <1>3 DEF Crash, TypeOK, Running, ExclusiveInv
<1>4. CASE UNCHANGED vars
  BY <1>4 DEF vars, ExclusiveInv
<1> QED
  BY <1>1, <1>2, <1>3, <1>4 DEF Next

LEMMA StepProgram ==
  ASSUME TypeOK, ExclusiveInv, ProgramInv, [Next]_vars
  PROVE  ProgramInv'
<1>1. ASSUME NEW j \in Job, JobStep(j)
      PROVE  ProgramInv'
  <2>1. ASSUME NEW k \in Job \ {j}
        PROVE  OwnsProgram(k)'
    <3>1. step[k] \in Running => box[k] # box[j]
      BY <1>1, OthersKeep DEF ExclusiveInv
    <3>2. step'[k] = step[k] /\ box'[k] = box[k]
      BY <1>1, OthersKeep
    <3>3. step[k] \in Running => files'[box[k]] = files[box[k]]
      <4>1. box[k] \in Box
        BY DEF TypeOK
      <4>2. \A b \in Box \ {box[j]} : files'[b] = files[b]
        BY <1>1, OthersKeep
      <4> QED
        BY <3>1, <4>1, <4>2
    <3> QED
      BY <3>2, <3>3 DEF ProgramInv, OwnsProgram, Running
  <2>2. OwnsProgram(j)'
    <3>0. files[box[j]] \in BoxType /\ box[j] \in Box /\ OwnsProgram(j)
      BY DEF TypeOK, BoxType, ProgramInv, OwnsProgram
    <3> USE DEF Goto, GiveUp, TypeOK, OwnsProgram
    <3>1. CASE InitBox(j) \/ InitBoxFails(j)
      BY <3>1 DEF InitBox, InitBoxFails, NewBox, NoBox
    <3>2. CASE WriteSource(j)
      <4>1. files'[box[j]] = [files[box[j]] EXCEPT !.source = j]
        BY <3>0, <3>2 DEF WriteSource
      <4>2. step'[j] = (IF j \in Compiled THEN "compile" ELSE "run") /\ box' = box
        BY <3>2 DEF WriteSource
      <4>3. files[box[j]].exists
        BY <3>0, <3>2 DEF WriteSource
      <4> QED
        BY <3>0, <4>1, <4>2, <4>3 DEF BoxType
    <3>3. CASE CompileSource(j)
      <4>1. files'[box[j]] = [files[box[j]] EXCEPT !.binary = files[box[j]].source]
        BY <3>0, <3>3 DEF CompileSource
      <4>2. step'[j] = "run" /\ box' = box
        BY <3>3 DEF CompileSource
      <4>3. files[box[j]].exists /\ files[box[j]].source = j
        BY <3>0, <3>3 DEF CompileSource
      <4> QED
        BY <3>0, <4>1, <4>2, <4>3 DEF BoxType
    <3>9. CASE WriteSourceFails(j) \/ CompileSourceFails(j)
      BY <3>9 DEF WriteSourceFails, CompileSourceFails
    <3>5. CASE RunProgram(j) \/ SandboxFails(j)
      <4>1. files'[box[j]] \in
                {files[box[j]], [files[box[j]] EXCEPT !.output = <<j, test[j]>>]}
        BY <3>0, <3>5 DEF RunProgram, SandboxFails
      <4>2. step[j] = "run" /\ step'[j] = "collect" /\ box' = box
        BY <3>5 DEF RunProgram, SandboxFails, AtTest
      <4>3. /\ files'[box[j]].exists = files[box[j]].exists
            /\ files'[box[j]].source = files[box[j]].source
            /\ files'[box[j]].binary = files[box[j]].binary
        BY <3>0, <4>1 DEF BoxType
      <4> QED
        BY <3>0, <4>2, <4>3
    <3>6. CASE WriteInputFails(j)
      BY <3>6 DEF WriteInputFails, AtTest
    <3>7. CASE CollectResult(j) \/ TestsOver(j)
      BY <3>0, <3>7 DEF CollectResult, TestsOver
    <3>8. CASE DestroyBox(j) \/ DestroyBoxFails(j)
      BY <3>8 DEF DestroyBox, DestroyBoxFails
    <3> QED
      BY <1>1, <3>1, <3>2, <3>3, <3>5, <3>6, <3>7, <3>8, <3>9 DEF JobStep
  <2> QED
    BY <2>1, <2>2 DEF ProgramInv, OwnsProgram
<1>2. ASSUME NEW j \in Job, NEW b \in Box, Call(j, b)
      PROVE  ProgramInv'
  BY <1>2 DEF Call, GiveUp, Goto, TypeOK, ProgramInv, OwnsProgram
<1>3. CASE Crash
  BY <1>3 DEF Crash, Running, TypeOK, ProgramInv, OwnsProgram
<1>4. CASE UNCHANGED vars
  BY <1>4 DEF vars, ProgramInv, OwnsProgram
<1> QED
  BY <1>1, <1>2, <1>3, <1>4 DEF Next

-----------------------------------------------------------------------------
(* Every box that is there is in use and made anew, or has not been        *)
(* cleaned.                                                                *)
Cleaned(b) ==
    files[b].exists =>
        \/ b \in uncleaned
        \/ \E k \in Job : box[k] = b /\ step[k] \in Running \ {"init"}

LEMMA CleanedEach ==
  ASSUME TypeOK, ExclusiveInv
  PROVE  CleanInv <=> \A b \in Box : Cleaned(b)
<1>1. ASSUME CleanInv, NEW b \in Box, files[b].exists, b \notin uncleaned
      PROVE  \E k \in Job : box[k] = b /\ step[k] \in Running \ {"init"}
  BY <1>1 DEF CleanInv, BoxesAreCleaned, Active
<1>2. ASSUME \A b \in Box : Cleaned(b)
      PROVE  CleanInv
  <2>1. BoxesAreCleaned
    BY <1>2 DEF Cleaned, BoxesAreCleaned, Active
  <2>2. ASSUME NEW j \in Job, step[j] = "init", files[box[j]].exists
        PROVE  box[j] \in uncleaned
    <3>1. box[j] \in Box /\ step[j] \in Running
      BY <2>2 DEF TypeOK, Running
    <3>2. \A k \in Job : step[k] \in Running /\ box[k] = box[j] => k = j
      BY <3>1 DEF ExclusiveInv
    <3> QED
      BY <1>2, <2>2, <3>1, <3>2 DEF Cleaned
  <2> QED
    BY <2>1, <2>2 DEF CleanInv
<1> QED
  BY <1>1, <1>2 DEF Cleaned

LEMMA StepClean ==
  ASSUME TypeOK, ExclusiveInv, CleanInv, [Next]_vars
  PROVE  \A b \in Box : Cleaned(b)'
<1>0. \A b \in Box : Cleaned(b)
  BY CleanedEach
<1>1. ASSUME NEW j \in Job, JobStep(j), NEW b \in Box
      PROVE  Cleaned(b)'
  <2>1. CASE b # box[j]
    <3>1. files'[b] = files[b] /\ (b \in uncleaned <=> b \in uncleaned') /\ box' = box
      BY <1>1, <2>1, OthersKeep
    <3>2. \A k \in Job : box[k] = b => step'[k] = step[k]
      BY <1>1, <2>1, OthersKeep
    <3> QED
      BY <1>0, <3>1, <3>2 DEF Cleaned
  <2>2. CASE b = box[j]
    <3> USE DEF Goto, GiveUp, TypeOK, Running
    <3>1. CASE InitBox(j)
      BY <2>2, <3>1 DEF InitBox, Cleaned
    <3>2. CASE InitBoxFails(j)
      BY <2>2, <3>2 DEF InitBoxFails, Cleaned, CleanInv
    <3>3. CASE DestroyBox(j)
      BY <2>2, <3>3 DEF DestroyBox, NoBox, Cleaned
    <3>4. CASE DestroyBoxFails(j)
      BY <2>2, <3>4 DEF DestroyBoxFails, Cleaned
    <3>5. step'[j] \in Running \ {"init"} /\ box'[j] = b => Cleaned(b)'
      BY DEF Cleaned
    <3>6. CASE WriteSource(j) \/ WriteSourceFails(j) \/ CompileSource(j)
                 \/ CompileSourceFails(j)
      BY <2>2, <3>5, <3>6 DEF WriteSource, WriteSourceFails, CompileSource, CompileSourceFails
    <3>7. CASE RunProgram(j) \/ SandboxFails(j) \/ WriteInputFails(j)
      BY <2>2, <3>5, <3>7 DEF RunProgram, SandboxFails, WriteInputFails
    <3>8. CASE CollectResult(j) \/ TestsOver(j)
      BY <2>2, <3>5, <3>8 DEF CollectResult, TestsOver
    <3> QED
      BY <1>1, <3>1, <3>2, <3>3, <3>4, <3>6, <3>7, <3>8 DEF JobStep
  <2> QED
    BY <2>1, <2>2
<1>2. ASSUME NEW j \in Job, NEW b \in Box, Call(j, b), NEW c \in Box
      PROVE  Cleaned(c)'
  <2>1. UNCHANGED <<files, uncleaned>>
    BY <1>2 DEF Call
  <2>2. \A k \in Job : step[k] \in Running => step'[k] = step[k] /\ box'[k] = box[k]
    BY <1>2 DEF Call, GiveUp, Goto, TypeOK, Running
  <2> QED
    BY <1>0, <2>1, <2>2 DEF Cleaned
<1>3. CASE Crash
  <2>1. \A b \in Box : (\E k \in Job : box[k] = b /\ step[k] \in Running) => b \in uncleaned'
    BY <1>3 DEF Crash, Active
  <2>2. files' = files /\ uncleaned \subseteq uncleaned'
    BY <1>3 DEF Crash
  <2> QED
    BY <1>0, <2>1, <2>2 DEF Cleaned
<1>4. CASE UNCHANGED vars
  BY <1>0, <1>4 DEF vars, Cleaned
<1> QED
  BY <1>1, <1>2, <1>3, <1>4 DEF Next

-----------------------------------------------------------------------------
LEMMA ExecInitInv == Init => ExecInv
<1> SUFFICES ASSUME Init
             PROVE  ExecInv
  OBVIOUS
<1>1. TypeOK
  BY TypeInit
<1>2. GatherInv /\ ExclusiveInv /\ ProgramInv /\ CleanInv
  BY DEF Init, GatherInv, Gathers, ExclusiveInv, ProgramInv, OwnsProgram, CleanInv,
         BoxesAreCleaned, NoBox, Running
<1> QED
  BY <1>1, <1>2 DEF ExecInv

LEMMA ExecStepInv == ExecInv /\ [Next]_vars => ExecInv'
<1> SUFFICES ASSUME ExecInv, [Next]_vars
             PROVE  ExecInv'
  OBVIOUS
<1>1. TypeOK' /\ GatherInv' /\ ExclusiveInv' /\ ProgramInv'
  BY StepType, StepGathers, StepExclusive, StepProgram DEF ExecInv
<1>2. (TypeOK /\ ExclusiveInv => (CleanInv <=> \A b \in Box : Cleaned(b)))'
  BY CleanedEach, PTL
<1>3. CleanInv'
  BY <1>1, <1>2, StepClean DEF ExecInv
<1> QED
  BY <1>1, <1>3 DEF ExecInv

LEMMA ExecInvariance == Spec => []ExecInv
<1> QED
  BY ExecInitInv, ExecStepInv, PTL DEF Spec

(* The types of a batch, with any number of calls and boxes.               *)
THEOREM ExecTypeCorrect == Spec => []TypeOK
<1>1. ExecInv => TypeOK
  BY DEF ExecInv
<1> QED
  BY <1>1, ExecInvariance, PTL

(* The program that isolate runs on the tests is the one of this call,     *)
(* whatever a failed cleanup, a failed --init or a crash had left in the   *)
(* box (executeBatch, initBox before writeFile).                           *)
THEOREM ExecRunsOwnProgram == Spec => []RunsOwnProgram
<1>1. ExecInv => RunsOwnProgram
  BY DEF ExecInv, ProgramInv, OwnsProgram, RunsOwnProgram
<1> QED
  BY <1>1, ExecInvariance, PTL

(* No path through executeBatch leaves a box behind, but for a cleanup     *)
(* that failed and a crash.                                                *)
THEOREM ExecCleansBoxes == Spec => []BoxesAreCleaned
<1>1. ExecInv => BoxesAreCleaned
  BY DEF ExecInv, CleanInv
<1> QED
  BY <1>1, ExecInvariance, PTL

-----------------------------------------------------------------------------
(* output.txt is this call's on this test once the program has run; when   *)
(* the sandbox has failed it may be another's, but the report says so.     *)
OutputInv ==
    /\ \A j \in Job : step[j] = "collect" /\ report[j] \in Reports =>
           files[box[j]].output = <<j, test[j]>>
    /\ NoForeignOutput

(* A report of a failed sandbox is never OK, unless isolate itself has     *)
(* been killed while it wrote the report.                                  *)
LEMMA FailureIsNotOK ==
  ASSUME ~ KeeperDies, NEW m \in Failures
  PROVE  m = NoMeta \/ ResultStatus(ParseMetaFile(m)) = "SE"
<1>1. m = NoMeta \/ m = Meta("XX", NoCode, FALSE)
  BY DEF Failures
<1> QED
  BY <1>1 DEF Meta, ParseMetaFile, ResultStatus, Absent

LEMMA ReportOrFailure ==
  ASSUME ~ KeeperDies
  PROVE  Reports \cap Failures = {}
<1>1. \A m \in Reports : m.status \in {"absent", "RE", "TO", "SG"}
  BY DEF Reports, Meta, Absent
<1>2. Failures = {Meta("XX", NoCode, FALSE), NoMeta}
  BY DEF Failures
<1>3. Meta("XX", NoCode, FALSE).status = "XX" /\ NoMeta.status = "no_file"
  BY DEF NoMeta, Meta
<1> QED
  BY <1>1, <1>2, <1>3

(* The result that is gathered for a test is of this test.                 *)
LEMMA ResultIsOwn ==
  ASSUME TypeOK, OutputInv, ~ KeeperDies, NEW j \in Job, step[j] = "collect"
  PROVE  ResultOf(j).status = "OK" => ResultOf(j).output \in {<<j, test[j]>>, Nothing}
<1>1. CASE report[j] \in Reports
  <2>1. ReadBoxFile(box[j]) \in {<<j, test[j]>>, Nothing}
    BY <1>1 DEF OutputInv, ReadBoxFile
  <2> QED
    BY <2>1 DEF ResultOf, Result
<1>2. CASE report[j] \in Failures
  <2>1. ResultOf(j).status = "SE"
    BY <1>2, FailureIsNotOK DEF ResultOf, Result
  <2> QED
    BY <2>1
<1> QED
  BY <1>1, <1>2 DEF TypeOK

(* The conjunct of NoForeignOutput for one call.                           *)
OwnOutput(j) ==
    \A i \in DOMAIN results[j] :
        results[j][i].status = "OK" => results[j][i].output \in {<<j, i>>, Nothing}

LEMMA CollectIsOwn ==
  ASSUME TypeOK, GatherInv, OutputInv, ~ KeeperDies, NEW j \in Job, CollectResult(j)
  PROVE  OwnOutput(j)'
<1>1. results[j] \in Seq(ResultType) /\ test[j] \in Nat /\ Len(results[j]) = test[j] - 1
  BY DEF TypeOK, ResultType, GatherInv, Gathers, CollectResult
<1>2. results'[j] = Append(results[j], ResultOf(j))
  BY DEF CollectResult, TypeOK
<1>3. /\ DOMAIN results[j] = 1 .. test[j] - 1
      /\ DOMAIN results'[j] = 1 .. test[j]
      /\ \A i \in 1 .. test[j] - 1 : results'[j][i] = results[j][i]
      /\ results'[j][test[j]] = ResultOf(j)
  BY <1>1, <1>2, ResultOfType
<1>4. ResultOf(j).status = "OK" => ResultOf(j).output \in {<<j, test[j]>>, Nothing}
  BY ResultIsOwn DEF CollectResult
<1>5. ASSUME NEW i \in DOMAIN results'[j], results'[j][i].status = "OK"
      PROVE  results'[j][i].output \in {<<j, i>>, Nothing}
  <2>1. CASE i = test[j]
    BY <1>3, <1>4, <1>5, <2>1
  <2>2. CASE i \in 1 .. test[j] - 1
    BY <1>3, <1>5, <2>2 DEF OutputInv, NoForeignOutput
  <2> QED
    BY <1>1, <1>3, <2>1, <2>2
<1> QED
  BY <1>5 DEF OwnOutput

LEMMA ErrorIsOwn ==
  ASSUME TypeOK, NEW j \in Job, NEW status \in {"SE", "CE"}, NEW s, GiveUp(j, status, s)
  PROVE  OwnOutput(j)'
<1>1. results'[j] = ErrorResults(j, status)
  BY DEF TypeOK, GiveUp
<1> QED
  BY <1>1, ErrorResultsType DEF OwnOutput

LEMMA JobStepOutput ==
  ASSUME ExecInv, OutputInv, ~ KeeperDies, NEW j \in Job, JobStep(j)
  PROVE  OutputInv'
<1> USE DEF ExecInv
<1>1. \A k \in Job \ {j} : OwnOutput(k)'
  BY OthersKeep DEF OutputInv, NoForeignOutput, OwnOutput
<1>2. OwnOutput(j)'
  <2>0. OwnOutput(j)
    BY DEF OutputInv, NoForeignOutput, OwnOutput
  <2>1. CASE CollectResult(j)
    BY <2>1, CollectIsOwn
  <2>2. CASE \E status \in {"SE", "CE"} : \E s \in {"done", "cleanup"} : GiveUp(j, status, s)
    BY <2>2, ErrorIsOwn
  <2>3. CASE results' = results
    BY <2>0, <2>3 DEF OwnOutput
  <2> QED
    BY <2>1, <2>2, <2>3
       DEF JobStep, InitBox, InitBoxFails, WriteSource, WriteSourceFails, CompileSource,
           CompileSourceFails, RunProgram, SandboxFails, WriteInputFails, TestsOver,
           DestroyBox, DestroyBoxFails
<1>3. ASSUME NEW k \in Job \ {j}, step'[k] = "collect", report'[k] \in Reports
      PROVE  files'[box'[k]].output = <<k, test'[k]>>
  <2>1. step[k] = "collect" /\ report[k] \in Reports /\ test'[k] = test[k] /\ box' = box
    BY <1>3, OthersKeep
  <2>2. box[k] \in Box /\ box[k] # box[j]
    BY <2>1, OthersKeep DEF ExclusiveInv, Running, TypeOK
  <2> QED
    BY <2>1, <2>2, OthersKeep DEF OutputInv
<1>4. ASSUME step'[j] = "collect", report'[j] \in Reports
      PROVE  files'[box'[j]].output = <<j, test'[j]>>
  <2>1. RunProgram(j) \/ SandboxFails(j)
    BY <1>4 DEF JobStep, InitBox, InitBoxFails, WriteSource, WriteSourceFails,
                CompileSource, CompileSourceFails, WriteInputFails, CollectResult,
                TestsOver, DestroyBox, DestroyBoxFails, Goto, GiveUp, TypeOK
  <2>2. CASE RunProgram(j)
    <3>1. files[box[j]] \in BoxType /\ files \in [Box -> BoxType] /\ box[j] \in Box
      BY DEF TypeOK, BoxType
    <3>2. files'[box[j]] = [files[box[j]] EXCEPT !.output = <<j, test[j]>>]
      BY <2>2, <3>1 DEF RunProgram
    <3>3. UNCHANGED <<box, test>>
      BY <2>2 DEF RunProgram
    <3>4. files'[box[j]].output = <<j, test[j]>>
      BY <3>1, <3>2 DEF BoxType
    <3> QED
      BY <3>3, <3>4
  <2>3. CASE SandboxFails(j)
    <3>1. report'[j] \in Failures
      BY <2>3 DEF SandboxFails, TypeOK
    <3> QED
      BY <1>4, <3>1, ReportOrFailure
  <2> QED
    BY <2>1, <2>2, <2>3
<1> QED
  BY <1>1, <1>2, <1>3, <1>4 DEF OutputInv, NoForeignOutput, OwnOutput

LEMMA StepOutput ==
  ASSUME ExecInv, OutputInv, ~ KeeperDies, [Next]_vars
  PROVE  OutputInv'
<1> USE DEF ExecInv
<1>1. ASSUME NEW j \in Job, NEW b \in Box, Call(j, b)
      PROVE  OutputInv'
  <2>1. \A k \in Job \ {j} : OwnOutput(k)'
    BY <1>1 DEF Call, GiveUp, TypeOK, OutputInv, NoForeignOutput, OwnOutput
  <2>2. OwnOutput(j)'
    <3>1. CASE j \in Unsupported
      BY <1>1, <3>1, ErrorIsOwn DEF Call
    <3>2. CASE j \notin Unsupported
      BY <1>1, <3>2 DEF Call, OutputInv, NoForeignOutput, OwnOutput
    <3> QED
      BY <3>1, <3>2
  <2>3. \A k \in Job : step'[k] = "collect" =>
            step[k] = "collect" /\ box'[k] = box[k]
    BY <1>1 DEF Call, GiveUp, Goto, TypeOK
  <2>4. UNCHANGED <<test, report, files>>
    BY <1>1 DEF Call
  <2> QED
    BY <2>1, <2>2, <2>3, <2>4 DEF OutputInv, NoForeignOutput, OwnOutput
<1>2. CASE Crash
  BY <1>2 DEF Crash, Running, TypeOK, OutputInv, NoForeignOutput
<1>3. CASE UNCHANGED vars
  BY <1>3 DEF vars, OutputInv, NoForeignOutput
<1> QED
  BY <1>1, <1>2, <1>3, JobStepOutput DEF Next

(* The output of a result that says OK was printed by this call on this    *)
(* test, or was too large to be read: buildResultFromMeta calls a failed   *)
(* sandbox SE, which is what keeps the output of an earlier test from      *)
(* being taken for this one's.  isolate must finish its own report.        *)
THEOREM ExecReportsOwnOutput ==
  ASSUME ~ KeeperDies
  PROVE  Spec => []NoForeignOutput
<1>1. Init => OutputInv
  BY DEF Init, OutputInv, NoForeignOutput
<1>2. ExecInv /\ OutputInv /\ [Next]_vars => OutputInv'
  BY StepOutput
<1>3. OutputInv => NoForeignOutput
  BY DEF OutputInv
<1> QED
  BY <1>1, <1>2, <1>3, ExecInvariance, PTL DEF Spec

-----------------------------------------------------------------------------
(* What the program of a call may have printed, on any of its tests.       *)
Prints(j) == ({j} \X Nat) \union {Nothing}

(* A box that has been made anew holds no output of another call.          *)
Inside(j) == step[j] \in {"source", "compile", "run", "collect"}

BoxPrints(j) == Inside(j) => files[box[j]].output \in Prints(j)

ResultsPrint(j) == \A i \in DOMAIN results[j] : results[j][i].output \in Prints(j)

ApartInv == \A j \in Job : BoxPrints(j) /\ ResultsPrint(j)

LEMMA ErrorPrints ==
  ASSUME TypeOK, NEW j \in Job, NEW status \in {"SE", "CE"}, NEW s, GiveUp(j, status, s)
  PROVE  ResultsPrint(j)'
<1>1. results'[j] = ErrorResults(j, status)
  BY DEF TypeOK, GiveUp
<1>2. Result(status, Nothing).output \in Prints(j)
  BY DEF Result, Prints
<1> QED
  BY <1>1, <1>2 DEF ErrorResults, ResultsPrint, Prints

LEMMA CollectPrints ==
  ASSUME TypeOK, NEW j \in Job, BoxPrints(j), ResultsPrint(j), CollectResult(j)
  PROVE  ResultsPrint(j)'
<1>1. results[j] \in Seq(ResultType) /\ ResultOf(j) \in ResultType
  BY ResultOfType DEF TypeOK, ResultType
<1>2. results'[j] = Append(results[j], ResultOf(j))
  BY DEF CollectResult, TypeOK
<1>3. ResultOf(j).output \in Prints(j)
  BY DEF CollectResult, BoxPrints, Inside, ResultOf, Result, ReadBoxFile, Prints
<1>4. \A i \in DOMAIN results'[j] : \/ i \in DOMAIN results[j] /\ results'[j][i] = results[j][i]
                                    \/ results'[j][i] = ResultOf(j)
  BY <1>1, <1>2
<1> QED
  BY <1>3, <1>4 DEF ResultsPrint, Prints

LEMMA JobStepApart ==
  ASSUME ExecInv, ApartInv, NEW j \in Job, JobStep(j)
  PROVE  ApartInv'
<1> USE DEF ExecInv
<1>1. ASSUME NEW k \in Job \ {j}
      PROVE  BoxPrints(k)' /\ ResultsPrint(k)'
  <2>1. /\ step'[k] = step[k] /\ box'[k] = box[k] /\ results'[k] = results[k]
    BY OthersKeep
  <2>2. Inside(k) => box[k] \in Box /\ box[k] # box[j]
    <3>1. box[k] \in Box
      BY DEF TypeOK
    <3>2. step[j] \in Running
      BY OthersKeep
    <3>3. Inside(k) => step[k] \in Running
      BY DEF Inside, Running
    <3> QED
      BY <3>1, <3>2, <3>3 DEF ExclusiveInv
  <2>3. Inside(k) => files'[box[k]] = files[box[k]]
    BY <2>2, OthersKeep
  <2> QED
    BY <2>1, <2>3 DEF ApartInv, BoxPrints, ResultsPrint, Inside, Prints
<1>2. BoxPrints(j) /\ ResultsPrint(j)
  BY DEF ApartInv
<1>3. ResultsPrint(j)'
  <2>1. CASE CollectResult(j)
    BY <1>2, <2>1, CollectPrints
  <2>2. CASE \E status \in {"SE", "CE"} : \E s \in {"done", "cleanup"} : GiveUp(j, status, s)
    BY <2>2, ErrorPrints
  <2>3. CASE results' = results
    BY <1>2, <2>3 DEF ResultsPrint, Prints
  <2> QED
    BY <2>1, <2>2, <2>3
       DEF JobStep, InitBox, InitBoxFails, WriteSource, WriteSourceFails, CompileSource,
           CompileSourceFails, RunProgram, SandboxFails, WriteInputFails, TestsOver,
           DestroyBox, DestroyBoxFails
<1>4. BoxPrints(j)'
  <2>0. files \in [Box -> BoxType] /\ box[j] \in Box /\ files[box[j]] \in BoxType
        /\ test[j] \in Nat
    BY DEF TypeOK, BoxType
  <2> USE DEF Goto, GiveUp, TypeOK
  <2>1. ASSUME Inside(j), files'[box[j]].output \in {files[box[j]].output, <<j, test[j]>>},
               box' = box
        PROVE  BoxPrints(j)'
    BY <1>2, <2>0, <2>1 DEF BoxPrints, Inside, Prints
  <2>2. CASE InitBox(j)
    <3>1. files'[box[j]].output = Nothing /\ box' = box
      BY <2>0, <2>2 DEF InitBox, NewBox, NoBox
    <3> QED
      BY <3>1 DEF BoxPrints, Prints
  <2>3. CASE WriteSource(j) \/ CompileSource(j)
    <3>1. files'[box[j]].output = files[box[j]].output /\ box' = box /\ Inside(j)
      BY <2>0, <2>3 DEF WriteSource, CompileSource, BoxType, Inside
    <3> QED
      BY <2>1, <3>1
  <2>4. CASE RunProgram(j) \/ SandboxFails(j)
    <3>1. /\ files'[box[j]].output \in {files[box[j]].output, <<j, test[j]>>}
          /\ box' = box /\ Inside(j)
      BY <2>0, <2>4 DEF RunProgram, SandboxFails, AtTest, BoxType, Inside
    <3> QED
      BY <2>1, <3>1
  <2>5. CASE CollectResult(j)
    <3>1. UNCHANGED <<files, box>> /\ Inside(j)
      BY <2>5 DEF CollectResult, Inside
    <3> QED
      BY <2>1, <3>1
  <2>6. CASE InitBoxFails(j) \/ WriteSourceFails(j) \/ CompileSourceFails(j)
             \/ WriteInputFails(j) \/ TestsOver(j) \/ DestroyBox(j) \/ DestroyBoxFails(j)
    <3>1. step'[j] \in {"cleanup", "done"}
      BY <2>6 DEF InitBoxFails, WriteSourceFails, CompileSourceFails, WriteInputFails,
                  TestsOver, DestroyBox, DestroyBoxFails
    <3> QED
      BY <3>1 DEF BoxPrints, Inside
  <2> QED
    BY <2>2, <2>3, <2>4, <2>5, <2>6 DEF JobStep
<1> QED
  BY <1>1, <1>3, <1>4 DEF ApartInv

LEMMA StepApart ==
  ASSUME ExecInv, ApartInv, [Next]_vars
  PROVE  ApartInv'
<1> USE DEF ExecInv
<1>1. ASSUME NEW j \in Job, NEW b \in Box, Call(j, b)
      PROVE  ApartInv'
  <2>1. ASSUME NEW k \in Job
        PROVE  BoxPrints(k)'
    <3>1. Inside(k)' => Inside(k) /\ box'[k] = box[k]
      BY <1>1 DEF Call, GiveUp, Goto, TypeOK, Inside
    <3> QED
      BY <1>1, <3>1 DEF Call, ApartInv, BoxPrints, Prints
  <2>2. ASSUME NEW k \in Job
        PROVE  ResultsPrint(k)'
    <3>1. CASE k = j /\ j \in Unsupported
      BY <1>1, <3>1, ErrorPrints DEF Call
    <3>2. CASE k # j \/ j \notin Unsupported
      <4>1. results'[k] = results[k]
        BY <1>1, <3>2 DEF Call, GiveUp, TypeOK
      <4> QED
        BY <4>1 DEF ApartInv, ResultsPrint, Prints
    <3> QED
      BY <3>1, <3>2
  <2> QED
    BY <2>1, <2>2 DEF ApartInv
<1>2. CASE Crash
  BY <1>2 DEF Crash, Running, TypeOK, ApartInv, BoxPrints, ResultsPrint, Inside, Prints
<1>3. CASE UNCHANGED vars
  BY <1>3 DEF vars, ApartInv, BoxPrints, ResultsPrint, Inside, Prints
<1> QED
  BY <1>1, <1>2, <1>3, JobStepApart DEF Next

(* No result of a submission shows what another one has printed, whether   *)
(* or not isolate finishes its report, and whatever a crash or a failed    *)
(* cleanup has left: --init comes before anything is read from the box.    *)
THEOREM ExecKeepsOutputsApart ==
  Spec => [](\A j \in Job : \A i \in DOMAIN results[j] :
                 results[j][i].output # Nothing => results[j][i].output[1] = j)
<1>1. Init => ApartInv
  <2>1. DOMAIN <<>> = {}
    OBVIOUS
  <2>2. Init => \A j \in Job : step[j] = "idle" /\ results[j] = <<>>
    BY DEF Init
  <2>3. Init => \A j \in Job : ~ Inside(j) /\ DOMAIN results[j] = {}
    BY <2>1, <2>2 DEF Inside
  <2> QED
    BY <2>3 DEF ApartInv, BoxPrints, ResultsPrint
<1>2. ExecInv /\ ApartInv /\ [Next]_vars => ApartInv'
  BY StepApart
<1>3. ApartInv => \A j \in Job : \A i \in DOMAIN results[j] :
                      results[j][i].output # Nothing => results[j][i].output[1] = j
  BY DEF ApartInv, ResultsPrint, Prints
<1> QED
  BY <1>1, <1>2, <1>3, ExecInvariance, PTL DEF Spec

-----------------------------------------------------------------------------
(* What the caller sees of a call, as Batch names it.                      *)
Seen(j) == IF step[j] = "done" THEN Statuses(j) ELSE <<>>

(* A call that ends returns to its caller; until then it changes nothing   *)
(* that the caller sees.                                                   *)
LEMMA JobStepImplements ==
  ASSUME ExecInv, ExecInv', NEW j \in Job, JobStep(j)
  PROVE  Promise!Return(j) \/ UNCHANGED Promise!batchVars
<1>1. /\ step[j] \in Running /\ step'[j] \in Running \union {"done"}
      /\ \A k \in Job \ {j} : step'[k] = step[k] /\ results'[k] = results[k]
  BY OthersKeep DEF ExecInv
<1>2. CallState(j) = "running" /\ Seen(j) = <<>>
  BY <1>1 DEF CallState, Seen, Running
<1>3. \A k \in Job \ {j} : CallState(k)' = CallState(k) /\ Seen(k)' = Seen(k)
  BY <1>1 DEF CallState, Seen, Statuses
<1>4. CASE step'[j] \in Running
  <2>1. CallState(j)' = "running" /\ Seen(j)' = <<>>
    BY <1>4 DEF CallState, Seen, Running
  <2>2. \A k \in Job : CallState(k)' = CallState(k) /\ Seen(k)' = Seen(k)
    BY <1>2, <1>3, <2>1
  <2> QED
    BY <2>2 DEF Promise!batchVars, Seen
<1>5. CASE step'[j] = "done"
  <2>1. CallState(j)' = "answered"
    BY <1>5 DEF CallState, Running
  <2>2. Seen(j)' \in Promise!Answers(Tests[j])
    <3>1. GatherInv'
      BY DEF ExecInv
    <3> QED
      BY <1>5, <3>1
         DEF Seen, Statuses, GatherInv, Gathers, Promise!Answers, Promise!RunStatus,
             Promise!Uniform, RunStatus
  <2>3. [k \in Job |-> CallState(k)]' = [[k \in Job |-> CallState(k)] EXCEPT ![j] = "answered"]
    BY <1>3, <2>1
  <2>4. [k \in Job |-> Seen(k)]' = [[k \in Job |-> Seen(k)] EXCEPT ![j] = Seen(j)']
    BY <1>3
  <2> QED
    BY <1>2, <2>2, <2>3, <2>4 DEF Promise!Return, Seen
<1> QED
  BY <1>1, <1>4, <1>5

LEMMA StepImplements ==
  ASSUME ExecInv, ExecInv', [Next]_vars
  PROVE  [Promise!Next]_(Promise!batchVars)
<1>1. ASSUME NEW j \in Job, JobStep(j)
      PROVE  [Promise!Next]_(Promise!batchVars)
  BY <1>1, JobStepImplements DEF Promise!Next
<1>2. ASSUME NEW j \in Job, NEW b \in Box, Call(j, b)
      PROVE  Promise!Next
  <2>1. step[j] = "idle" /\ CallState(j) = "pending" /\ Seen(j) = <<>>
    BY <1>2 DEF Call, CallState, Seen, Running
  <2>2. \A k \in Job \ {j} : step'[k] = step[k] /\ results'[k] = results[k]
    BY <1>2 DEF Call, GiveUp, Goto, ExecInv, TypeOK
  <2>3. \A k \in Job \ {j} : CallState(k)' = CallState(k) /\ Seen(k)' = Seen(k)
    BY <2>2 DEF CallState, Seen, Statuses
  <2>4. CASE j \in Unsupported
    <3>1. step'[j] = "done"
      BY <1>2, <2>4 DEF Call, GiveUp, Goto, ExecInv, TypeOK
    <3>2. CallState(j)' = "answered"
      BY <3>1 DEF CallState, Running
    <3>3. Seen(j)' \in Promise!Answers(Tests[j])
      BY <3>1 DEF ExecInv, GatherInv, Gathers, Seen, Statuses, Promise!Answers,
                  Promise!RunStatus, Promise!Uniform, RunStatus
    <3>4. /\ [k \in Job |-> CallState(k)]'
             = [[k \in Job |-> CallState(k)] EXCEPT ![j] = "answered"]
          /\ [k \in Job |-> Seen(k)]' = [[k \in Job |-> Seen(k)] EXCEPT ![j] = Seen(j)']
      BY <2>3, <3>2
    <3> QED
      BY <2>1, <3>3, <3>4 DEF Promise!Next, Promise!Return, Seen
  <2>5. CASE j \notin Unsupported
    <3>1. step'[j] = "init"
      BY <1>2, <2>5 DEF Call, Goto, ExecInv, TypeOK
    <3>2. CallState(j)' = "running" /\ Seen(j)' = <<>>
      BY <3>1 DEF CallState, Running, Seen
    <3>3. [k \in Job |-> CallState(k)]'
             = [[k \in Job |-> CallState(k)] EXCEPT ![j] = "running"]
      BY <2>3, <3>2
    <3>4. [k \in Job |-> Seen(k)]' = [k \in Job |-> Seen(k)]
      BY <2>1, <2>3, <3>2
    <3> QED
      BY <2>1, <3>3, <3>4 DEF Promise!Next, Promise!Begin, Seen
  <2> QED
    BY <2>4, <2>5
<1>3. CASE Crash
  <2>1. /\ results' = results
        /\ \A j \in Job : step'[j] = IF step[j] \in Running THEN "lost" ELSE step[j]
    BY <1>3 DEF Crash
  <2>2. \A j \in Job : step[j] \in Running <=> CallState(j) = "running"
    BY DEF CallState, Running, ExecInv, TypeOK, Step
  <2>3. \A j \in Job :
           CallState(j)' = IF CallState(j) = "running" THEN "lost" ELSE CallState(j)
    BY <2>1, <2>2 DEF CallState, Running
  <2>4. \A j \in Job : Seen(j)' = Seen(j)
    BY <2>1 DEF Seen, Statuses, Running
  <2> QED
    BY <2>3, <2>4 DEF Promise!Next, Promise!Lose, Seen
<1>4. CASE UNCHANGED vars
  BY <1>4 DEF vars, Promise!batchVars, CallState, Statuses
<1> QED
  BY <1>1, <1>2, <1>3, <1>4 DEF Next

(* Whatever fails inside the box, the judge is given one status for each   *)
(* test, and CE for all of them or for none: executeBatch keeps the        *)
(* promise that judgeSubmission is modelled from.                          *)
THEOREM ExecImplementsBatch == Spec => ImplementsBatch
<1>1. Init => Promise!Init
  BY DEF Init, Promise!Init, CallState, Running
<1>2. ExecInv /\ ExecInv' /\ [Next]_vars => [Promise!Next]_(Promise!batchVars)
  BY StepImplements
<1> QED
  BY <1>1, <1>2, ExecInvariance, PTL DEF Spec, ImplementsBatch, Promise!BatchSpec

-----------------------------------------------------------------------------
(* How many steps a call has left at most: two for each test that remains, *)
(* and those before the first test and after the last.                     *)
StepsLeft(j) ==
    [idle    |-> 2 * Tests[j] + 6,
     init    |-> 2 * Tests[j] + 5,
     source  |-> 2 * Tests[j] + 4,
     compile |-> 2 * Tests[j] + 3,
     run     |-> 2 * (Tests[j] - test[j]) + 4,
     collect |-> 2 * (Tests[j] - test[j]) + 3,
     cleanup |-> 1, done |-> 0, lost |-> 0][step[j]]

LEMMA StepsLeftNatural ==
  ASSUME TypeOK, NEW j \in Job
  PROVE  /\ StepsLeft(j) \in Nat
         /\ StepsLeft(j) <= 2 * Tests[j] + 6
         /\ StepsLeft(j) = 0 <=> step[j] \in {"done", "lost"}
<1>1. Tests[j] \in Nat /\ test[j] \in Nat /\ 1 <= test[j] /\ test[j] <= Tests[j] + 1
      /\ step[j] \in Step
  BY ExecutionAssumption DEF TypeOK
<1> QED
  BY <1>1 DEF StepsLeft, Step, Running

LEMMA JobStepCounts ==
  ASSUME TypeOK, NEW j \in Job, JobStep(j)
  PROVE  StepsLeft(j)' < StepsLeft(j)
<1>1. Tests[j] \in Nat /\ test[j] \in Nat /\ 1 <= test[j] /\ test[j] <= Tests[j] + 1
  BY ExecutionAssumption DEF TypeOK
<1>2. step \in [Job -> Step] /\ test \in [Job -> Nat]
  BY DEF TypeOK
<1> USE <1>2 DEF Goto, GiveUp
<1>3. CASE InitBox(j) \/ InitBoxFails(j)
  <2>1. step[j] = "init" /\ step'[j] \in {"source", "done"} /\ test' = test
    BY <1>3 DEF InitBox, InitBoxFails
  <2> QED
    BY <1>1, <2>1 DEF StepsLeft
<1>4. CASE WriteSource(j) \/ WriteSourceFails(j)
  <2>1. /\ step[j] = "source" /\ step'[j] \in {"compile", "run", "cleanup"}
        /\ test' = test
    BY <1>4 DEF WriteSource, WriteSourceFails
  <2> QED
    BY <1>1, <2>1 DEF StepsLeft
<1>5. CASE CompileSource(j) \/ CompileSourceFails(j)
  <2>1. step[j] = "compile" /\ step'[j] \in {"run", "cleanup"} /\ test' = test
    BY <1>5 DEF CompileSource, CompileSourceFails
  <2> QED
    BY <1>1, <2>1 DEF StepsLeft
<1>6. CASE RunProgram(j) \/ SandboxFails(j) \/ WriteInputFails(j) \/ TestsOver(j)
  <2>1. step[j] = "run" /\ step'[j] \in {"collect", "cleanup"} /\ test' = test
    BY <1>6 DEF RunProgram, SandboxFails, WriteInputFails, TestsOver, AtTest
  <2> QED
    BY <1>1, <2>1 DEF StepsLeft
<1>7. CASE CollectResult(j)
  <2>1. step[j] = "collect" /\ step'[j] = "run" /\ test'[j] = test[j] + 1
    BY <1>7 DEF CollectResult
  <2> QED
    BY <1>1, <2>1 DEF StepsLeft
<1>8. CASE DestroyBox(j) \/ DestroyBoxFails(j)
  <2>1. step[j] = "cleanup" /\ step'[j] = "done"
    BY <1>8 DEF DestroyBox, DestroyBoxFails
  <2> QED
    BY <1>1, <2>1 DEF StepsLeft
<1> QED
  BY <1>3, <1>4, <1>5, <1>6, <1>7, <1>8 DEF JobStep

(* No call of executeBatch goes on for ever: each of its steps leaves it   *)
(* fewer, a call begins with at most six more than two for each test, and  *)
(* neither other calls nor a crash give it any back.                       *)
THEOREM ExecCountsDown ==
  Spec =>
    /\ [](\A j \in Job : /\ StepsLeft(j) \in 0 .. 2 * Tests[j] + 6
                         /\ StepsLeft(j) = 0 <=> step[j] \in {"done", "lost"})
    /\ [][\A j \in Job :
             /\ StepsLeft(j)' <= StepsLeft(j)
             /\ JobStep(j) => StepsLeft(j)' < StepsLeft(j)]_vars
<1> DEFINE Bounded == \A j \in Job : /\ StepsLeft(j) \in 0 .. 2 * Tests[j] + 6
                                     /\ StepsLeft(j) = 0 <=> step[j] \in {"done", "lost"}
           Down == \A j \in Job : /\ StepsLeft(j)' <= StepsLeft(j)
                                  /\ JobStep(j) => StepsLeft(j)' < StepsLeft(j)
           Natural == \A j \in Job : StepsLeft(j) \in Nat
<1>1. TypeOK => Bounded
  <2> SUFFICES ASSUME TypeOK, NEW j \in Job
               PROVE  /\ StepsLeft(j) \in 0 .. 2 * Tests[j] + 6
                      /\ StepsLeft(j) = 0 <=> step[j] \in {"done", "lost"}
    OBVIOUS
  <2>1. Tests[j] \in Nat
    BY ExecutionAssumption
  <2> QED
    BY <2>1, StepsLeftNatural
<1>2. TypeOK => Natural
  BY StepsLeftNatural
<1>3. TypeOK' => Natural'
  BY <1>2, PTL
<1>4. ASSUME TypeOK, TypeOK', Next, NEW j \in Job
      PROVE  StepsLeft(j)' <= StepsLeft(j)
  <2>1. StepsLeft(j) \in Nat /\ StepsLeft(j)' \in Nat
    BY <1>2, <1>3, <1>4
  <2>2. ASSUME UNCHANGED <<step[j], test[j]>>
        PROVE  StepsLeft(j)' = StepsLeft(j)
    BY <2>2 DEF StepsLeft
  <2>3. ASSUME NEW k \in Job, JobStep(k)
        PROVE  StepsLeft(j)' <= StepsLeft(j)
    <3>1. CASE k = j
      BY <1>4, <2>1, <2>3, <3>1, JobStepCounts
    <3>2. CASE k # j
      BY <1>4, <2>1, <2>2, <2>3, <3>2, OthersKeep
    <3> QED
      BY <3>1, <3>2
  <2>4. ASSUME NEW k \in Job, NEW b \in Box, Call(k, b)
        PROVE  StepsLeft(j)' <= StepsLeft(j)
    <3>1. CASE k = j
      <4>1. step[j] = "idle" /\ step'[j] \in {"done", "init"}
        BY <1>4, <2>4, <3>1 DEF Call, Goto, GiveUp, TypeOK
      <4>2. Tests[j] \in Nat
        BY ExecutionAssumption
      <4> QED
        BY <4>1, <4>2 DEF StepsLeft
    <3>2. CASE k # j
      <4>1. UNCHANGED <<step[j], test[j]>>
        BY <1>4, <2>4, <3>2 DEF Call, Goto, GiveUp, TypeOK
      <4> QED
        BY <2>1, <2>2, <4>1
    <3> QED
      BY <3>1, <3>2
  <2>5. CASE Crash
    <3>1. test' = test /\ step'[j] \in {step[j], "lost"}
      BY <2>5, <1>4 DEF Crash, TypeOK
    <3>2. CASE step'[j] = step[j]
      BY <2>1, <2>2, <3>1, <3>2
    <3>3. CASE step'[j] = "lost"
      BY <2>1, <3>3 DEF StepsLeft
    <3> QED
      BY <3>1, <3>2, <3>3
  <2> QED
    BY <1>4, <2>3, <2>4, <2>5 DEF Next
<1>5. TypeOK /\ TypeOK' /\ [Next]_vars => [Down]_vars
  BY <1>4, JobStepCounts
<1> QED
  BY <1>1, <1>5, ExecTypeCorrect, PTL DEF Spec

=============================================================================
