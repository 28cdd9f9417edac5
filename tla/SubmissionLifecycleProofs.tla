---------------------- MODULE SubmissionLifecycleProofs -----------------------
(* What the database says of a submission, for every number of             *)
(* submissions, tests, deliveries and crashes.                             *)
EXTENDS SubmissionLifecycle, WellFoundedInduction, TLAPS

-----------------------------------------------------------------------------
(* SelectInSeq finds the first element that satisfies a test.  The tests   *)
(* it is used with here are a status that is not OK and a verdict that is  *)
(* not ACC; both say that the element is not a given one.                  *)
LEMMA LeastIndex ==
  ASSUME NEW S \in SUBSET Nat, S # {}
  PROVE  /\ Min(S) \in S
         /\ \A x \in S : Min(S) <= x
<1>1. PICK m \in S : \A x \in S : <<x, m>> \notin OpToRel(<, Nat)
  BY WFMin, NatLessThanWellFounded, Zenon
<1>2. \A x \in S : ~ (x < m)
  BY <1>1, Zenon DEF OpToRel
<1>3. \A x \in S : m <= x
  BY <1>2
<1>4. \E y \in S : \A x \in S : y <= x
  BY <1>3
<1> QED
  BY <1>4 DEF Min

LEMMA FirstOther ==
  ASSUME NEW S, NEW seq \in Seq(S), NEW e
  PROVE  LET i == SelectInSeq(seq, LAMBDA x : x # e) IN
         \/ i = 0 /\ \A j \in 1 .. Len(seq) : seq[j] = e
         \/ i \in 1 .. Len(seq) /\ seq[i] # e /\ \A j \in 1 .. i - 1 : seq[j] = e
<1> DEFINE I == {j \in 1 .. Len(seq) : seq[j] # e}
           least == Min(I)
<1>1. SelectInSeq(seq, LAMBDA x : x # e) = IF I # {} THEN least ELSE 0
  BY DEF SelectInSeq
<1>2. CASE I = {}
  BY <1>1, <1>2
<1>3. CASE I # {}
  <2>1. I \in SUBSET Nat
    OBVIOUS
  <2>2. least \in I /\ \A j \in I : least <= j
    BY <1>3, <2>1, LeastIndex
  <2> HIDE DEF least
  <2>3. least \in 1 .. Len(seq) /\ seq[least] # e
    BY <2>2
  <2>4. \A j \in 1 .. least - 1 : j \in 1 .. Len(seq) /\ ~ (least <= j)
    BY <2>3
  <2>5. \A j \in 1 .. least - 1 : seq[j] = e
    BY <2>2, <2>4
  <2> QED
    BY <1>1, <1>3, <2>3, <2>5
<1> QED
  BY <1>2, <1>3

-----------------------------------------------------------------------------
(* Where validateResults stops.                                            *)
LEMMA FirstNotOkIs ==
  ASSUME NEW S, NEW status \in Seq(S)
  PROVE  /\ FirstNotOk(status) \in 0 .. Len(status)
         /\ \A j \in 1 .. FirstNotOk(status) - 1 : status[j] = "OK"
         /\ \/ /\ FirstNotOk(status) = Len(status)
               /\ \A j \in 1 .. Len(status) : status[j] = "OK"
            \/ FirstNotOk(status) # 0 /\ status[FirstNotOk(status)] # "OK"
<1> DEFINE bad == SelectInSeq(status, LAMBDA s : s # "OK")
<1>1. \/ bad = 0 /\ \A j \in 1 .. Len(status) : status[j] = "OK"
      \/ bad \in 1 .. Len(status) /\ status[bad] # "OK" /\ \A j \in 1 .. bad - 1 : status[j] = "OK"
  BY FirstOther
<1>2. FirstNotOk(status) = IF bad = 0 THEN Len(status) ELSE bad
  BY DEF FirstNotOk
<1> HIDE DEF bad
<1> QED
  BY <1>1, <1>2

(* What judgeSubmission makes of a list of verdicts.                       *)
LEMMA FinalVerdictIs ==
  ASSUME NEW S, NEW verdicts \in Seq(S)
  PROVE  \/ FinalVerdict(verdicts) = "ACC" /\ \A j \in 1 .. Len(verdicts) : verdicts[j] = "ACC"
         \/ \E k \in 1 .. Len(verdicts) :
               /\ verdicts[k] # "ACC" /\ FinalVerdict(verdicts) = verdicts[k]
               /\ \A j \in 1 .. k - 1 : verdicts[j] = "ACC"
<1> DEFINE failed == SelectInSeq(verdicts, LAMBDA v : v # "ACC")
<1>1. \/ failed = 0 /\ \A j \in 1 .. Len(verdicts) : verdicts[j] = "ACC"
      \/ /\ failed \in 1 .. Len(verdicts) /\ verdicts[failed] # "ACC"
         /\ \A j \in 1 .. failed - 1 : verdicts[j] = "ACC"
  BY FirstOther
<1>2. FinalVerdict(verdicts) = IF failed = 0 THEN "ACC" ELSE verdicts[failed]
  BY DEF FinalVerdict
<1> HIDE DEF failed
<1> QED
  BY <1>1, <1>2

LEMMA VerdictsOf ==
  ASSUME TypeOK, NEW d \in Delivery
  PROVE  LET last == FirstNotOk(answer[d]) IN
         /\ Verdicts(d) \in Seq(Verdict)
         /\ Len(Verdicts(d)) = last
         /\ \A i \in 1 .. last :
               Verdicts(d)[i] = IF answer[d][i] # "OK" THEN answer[d][i]
                                ELSE IF i \in matching[d] THEN "ACC" ELSE "WA"
<1> DEFINE last == FirstNotOk(answer[d])
<1>1. answer[d] \in Seq(Exec!Status)
  BY DEF TypeOK
<1>2. last \in 0 .. Len(answer[d])
  BY <1>1, FirstNotOkIs
<1>3. \A i \in 1 .. last : answer[d][i] \in Exec!Status
  BY <1>1, <1>2
<1>4. Verdicts(d) = [i \in 1 .. last |-> IF answer[d][i] # "OK" THEN answer[d][i]
                                         ELSE IF i \in matching[d] THEN "ACC" ELSE "WA"]
  BY DEF Verdicts, ValidateResults
<1> HIDE DEF last
<1>5. \A i \in 1 .. last : Verdicts(d)[i] \in Verdict
  BY <1>3, <1>4 DEF Verdict, Exec!Status, Exec!RunStatus
<1>6. Verdicts(d) \in [1 .. last -> Verdict] /\ last \in Nat
  BY <1>2, <1>4, <1>5
<1> QED
  BY <1>4, <1>6 DEF last

(* The verdict of a judging is the first failure it has seen: the tests    *)
(* that validateResults leaves out come after one that failed.             *)
LEMMA FinalVerdictExplained ==
  ASSUME TypeOK, NEW d \in Delivery
  PROVE  /\ FinalVerdict(Verdicts(d)) \in Verdict
         /\ Explains(d, FinalVerdict(Verdicts(d)))
<1> DEFINE a == answer[d]
           last == FirstNotOk(a)
           V == Verdicts(d)
           final == FinalVerdict(V)
<1>1. a \in Seq(Exec!Status) /\ Len(a) \in Nat /\ DOMAIN a = 1 .. Len(a)
  BY DEF TypeOK
<1>2. /\ last \in 0 .. Len(a)
      /\ \A j \in 1 .. last - 1 : a[j] = "OK"
      /\ \/ last = Len(a) /\ \A j \in 1 .. Len(a) : a[j] = "OK"
         \/ last # 0 /\ a[last] # "OK"
  BY <1>1, FirstNotOkIs
<1>3. /\ V \in Seq(Verdict) /\ Len(V) = last
      /\ \A i \in 1 .. last :
            V[i] = IF a[i] # "OK" THEN a[i] ELSE IF i \in matching[d] THEN "ACC" ELSE "WA"
  BY VerdictsOf
<1>4. \/ final = "ACC" /\ \A j \in 1 .. last : V[j] = "ACC"
      \/ \E k \in 1 .. last :
            V[k] # "ACC" /\ final = V[k] /\ \A j \in 1 .. k - 1 : V[j] = "ACC"
  BY <1>3, FinalVerdictIs
<1> HIDE DEF a, last, V, final
<1>0. last \in Nat /\ \A k \in 1 .. last : k \in Nat /\ k \in 1 .. Len(a)
  <2>1. last \in 0 .. Len(a) /\ Len(a) \in Nat
    BY <1>1, <1>2
  <2> QED
    BY <2>1
<1>5. \A i \in 1 .. last : a[i] # "ACC" /\ V[i] \in Verdict
  <2>1. \A i \in 1 .. last : a[i] \in Exec!Status
    BY <1>0, <1>1
  <2>2. V \in Seq(Verdict) /\ Len(V) = last
    BY <1>3
  <2> QED
    BY <1>0, <2>1, <2>2 DEF Exec!Status, Exec!RunStatus
<1>6. \A i \in 1 .. last : V[i] = "ACC" => a[i] = "OK" /\ i \in matching[d]
  BY <1>3, <1>5
<1>7. final \in Verdict
  BY <1>4, <1>5 DEF Verdict
<1>8. CASE final = "ACC" /\ \A j \in 1 .. last : V[j] = "ACC"
  <2>1. last # 0 => a[last] = "OK"
    BY <1>0, <1>6, <1>8
  <2>2. last = Len(a) /\ \A j \in 1 .. Len(a) : a[j] = "OK"
    BY <1>2, <2>1
  <2>3. \A i \in DOMAIN a : a[i] = "OK" /\ i \in matching[d]
    BY <1>1, <1>6, <1>8, <2>2
  <2> QED
    BY <1>7, <1>8, <2>3 DEF Explains, Passed, a, final, V
<1>9. ASSUME NEW k \in 1 .. last, V[k] # "ACC", final = V[k],
             \A j \in 1 .. k - 1 : V[j] = "ACC"
      PROVE  Explains(d, final)
  <2>1. k \in DOMAIN a
    BY <1>0, <1>1
  <2>2. \A j \in 1 .. k - 1 : a[j] = "OK" /\ j \in matching[d]
    BY <1>2, <1>6, <1>9
  <2>3. ~ (a[k] = "OK" /\ k \in matching[d]) /\ final = IF a[k] = "OK" THEN "WA" ELSE a[k]
    BY <1>3, <1>9
  <2> QED
    BY <2>1, <2>2, <2>3 DEF Explains, Passed, a
<1> QED
  BY <1>4, <1>7, <1>8, <1>9 DEF final, V

-----------------------------------------------------------------------------
LEMMA TypeInit == Init => TypeOK
BY LifecycleAssumption DEF Init, TypeOK, Verdict, Judging, Ended

(* The types of the steps of the submit handler and of a delivery.         *)
LEMMA HandlerType ==
  ASSUME TypeOK, NEW s \in Submission,
         StoreSubmission(s) \/ RefuseSubmission(s) \/ Handle(s)
  PROVE  TypeOK'
<1> USE DEF TypeOK, judge
<1>1. CASE StoreSubmission(s)
  BY <1>1 DEF StoreSubmission
<1>2. CASE RefuseSubmission(s)
  BY <1>2 DEF RefuseSubmission
<1>3. CASE SendMessage(s)
  BY <1>3 DEF SendMessage
<1>4. CASE SendFails(s)
  BY <1>4 DEF SendFails
<1> QED
  BY <1>1, <1>2, <1>3, <1>4 DEF Handle

(* executeBatch returns statuses, and the outputs are compared.            *)
LEMMA ExecuteType ==
  ASSUME TypeOK, NEW d \in Delivery, Execute(d)
  PROVE  TypeOK'
<1>1. PICK r \in Exec!Answers(Tests[d[1]]) :
         /\ answer' = [answer EXCEPT ![d] = r]
         /\ \E ok \in SUBSET {i \in DOMAIN r : r[i] = "OK"} :
               matching' = [matching EXCEPT ![d] = ok]
  BY DEF Execute
<1>2. PICK ok \in SUBSET {i \in DOMAIN r : r[i] = "OK"} :
         matching' = [matching EXCEPT ![d] = ok]
  BY <1>1
<1>3. Tests[d[1]] \in Nat
  BY LifecycleAssumption DEF Delivery
<1>4. r \in Seq(Exec!Status) /\ DOMAIN r \subseteq Nat
  BY <1>3 DEF Exec!Answers, Exec!Uniform, Exec!Status
<1>5. answer' \in [Delivery -> Seq(Exec!Status)] /\ matching' \in [Delivery -> SUBSET Nat]
  BY <1>1, <1>2, <1>4 DEF TypeOK
<1>6. \A e \in Delivery :
         /\ answer'[e] \in Exec!Answers(Tests[e[1]]) \union {<<>>}
         /\ matching'[e] \subseteq {i \in DOMAIN answer'[e] : answer'[e][i] = "OK"}
  BY <1>1, <1>2 DEF TypeOK
<1>7. stage' \in [Delivery -> Judging \union Ended \union {"none", "lost"}]
  BY DEF Execute, Goto, TypeOK, Judging
<1>8. UNCHANGED <<request, queued, row, resultRows, crashes>>
  BY DEF Execute, handlers
<1> QED
  BY <1>5, <1>6, <1>7, <1>8 DEF TypeOK

LEMMA JudgeType ==
  ASSUME TypeOK, NEW d \in Delivery, Judge(d)
  PROVE  TypeOK'
<1>0. d[1] \in Submission
  BY DEF Delivery
<1> USE DEF Goto, handlers, Judging, Ended
<1>1. CASE Load(d)
  BY <1>1 DEF Load, TypeOK
<1>2. CASE Execute(d)
  BY <1>2, ExecuteType
<1>3. CASE Update(d)
  <2>1. FinalVerdict(Verdicts(d)) \in Verdict
    BY FinalVerdictExplained
  <2>2. row' \in [Submission -> Verdict \union {"PENDING", NoRow}]
    BY <1>0, <1>3, <2>1 DEF Update, TypeOK
  <2> QED
    BY <1>3, <2>2 DEF Update, TypeOK
<1>4. CASE UpdateRefused(d)
  BY <1>4 DEF UpdateRefused, TypeOK
<1>5. CASE InsertResults(d)
  <2>1. Verdicts(d) \in Seq(Verdict)
    BY VerdictsOf
  <2>2. resultRows' \in [Submission -> Seq(Seq(Verdict))]
    BY <1>0, <1>5, <2>1 DEF InsertResults, TypeOK
  <2> QED
    BY <1>5, <2>2 DEF InsertResults, TypeOK
<1>6. CASE JudgeFails(d)
  BY <1>6 DEF JudgeFails, TypeOK
<1> QED
  BY <1>1, <1>2, <1>3, <1>4, <1>5, <1>6 DEF Judge

LEMMA StepType ==
  ASSUME TypeOK, [Next]_vars
  PROVE  TypeOK'
<1>1. ASSUME NEW s \in Submission, NEW n \in 1 .. MaxDeliveries, Deliver(s, n)
      PROVE  TypeOK'
  <2>1. <<s, n>> \in Delivery
    BY DEF Delivery
  <2> QED
    BY <1>1, <2>1 DEF Deliver, Goto, handlers, TypeOK, Judging
<1>2. CASE Crash
  BY <1>2, LifecycleAssumption DEF Crash, TypeOK
<1>3. CASE UNCHANGED vars
  BY <1>3 DEF vars, TypeOK
<1> QED
  BY <1>1, <1>2, <1>3, HandlerType, JudgeType DEF Next

-----------------------------------------------------------------------------
(* What a delivery has been told, once executeBatch has returned to it, is *)
(* never told again.                                                       *)
Told(d) == stage[d] \notin {"none", "load", "execute"}

LEMMA ToldForGood ==
  ASSUME TypeOK, [Next]_vars, NEW d \in Delivery, Told(d)
  PROVE  Told(d)' /\ answer'[d] = answer[d] /\ matching'[d] = matching[d]
<1> USE DEF Told, TypeOK
<1>1. ASSUME NEW s \in Submission,
             StoreSubmission(s) \/ RefuseSubmission(s) \/ Handle(s)
      PROVE  UNCHANGED <<stage, answer, matching>>
  BY <1>1 DEF StoreSubmission, RefuseSubmission, Handle, SendMessage, SendFails, judge
<1>2. ASSUME NEW s \in Submission, NEW n \in 1 .. MaxDeliveries, Deliver(s, n)
      PROVE  stage'[d] = stage[d] /\ UNCHANGED <<answer, matching>>
  BY <1>2 DEF Deliver, Goto
<1>3. ASSUME NEW e \in Delivery, Execute(e)
      PROVE  stage'[d] = stage[d] /\ answer'[d] = answer[d] /\ matching'[d] = matching[d]
  BY <1>3 DEF Execute, Goto
<1>4. ASSUME NEW e \in Delivery,
             Load(e) \/ Update(e) \/ UpdateRefused(e) \/ InsertResults(e) \/ JudgeFails(e)
      PROVE  Told(d)' /\ UNCHANGED <<answer, matching>>
  BY <1>4 DEF Load, Update, UpdateRefused, InsertResults, JudgeFails, Goto
<1>5. CASE Crash
  BY <1>5 DEF Crash
<1>6. CASE UNCHANGED vars
  BY <1>6 DEF vars
<1> QED
  BY <1>1, <1>2, <1>3, <1>4, <1>5, <1>6 DEF Next, Judge

(* Who changes the row of a submission.                                    *)
LEMMA WhoWrites ==
  ASSUME TypeOK, [Next]_vars, NEW s \in Submission
  PROVE  \/ row'[s] = row[s]
         \/ request[s] = "new" /\ row'[s] = "PENDING"
         \/ \E n \in 1 .. MaxDeliveries :
               Update(<<s, n>>) /\ row'[s] = FinalVerdict(Verdicts(<<s, n>>))
<1> USE DEF TypeOK
<1>1. ASSUME NEW t \in Submission,
             StoreSubmission(t) \/ RefuseSubmission(t) \/ Handle(t)
      PROVE  row'[s] = row[s] \/ (request[s] = "new" /\ row'[s] = "PENDING")
  BY <1>1 DEF StoreSubmission, RefuseSubmission, Handle, SendMessage, SendFails
<1>2. ASSUME NEW t \in Submission, NEW n \in 1 .. MaxDeliveries, Deliver(t, n)
      PROVE  row' = row
  BY <1>2 DEF Deliver
<1>3. ASSUME NEW d \in Delivery, Update(d)
      PROVE  \/ row'[s] = row[s]
             \/ \E n \in 1 .. MaxDeliveries :
                   Update(<<s, n>>) /\ row'[s] = FinalVerdict(Verdicts(<<s, n>>))
  <2>1. PICK n \in 1 .. MaxDeliveries : d = <<d[1], n>> /\ d[1] \in Submission
    BY DEF Delivery
  <2>2. row' = [row EXCEPT ![d[1]] = FinalVerdict(Verdicts(d))]
    BY <1>3 DEF Update
  <2>3. CASE d[1] = s
    <3>1. d = <<s, n>>
      BY <2>1, <2>3
    <3>2. row'[s] = FinalVerdict(Verdicts(d))
      BY <2>2, <2>3
    <3> QED
      BY <1>3, <3>1, <3>2
  <2>4. CASE d[1] # s
    BY <2>2, <2>4
  <2> QED
    BY <2>3, <2>4
<1>4. ASSUME NEW d \in Delivery,
             Load(d) \/ Execute(d) \/ UpdateRefused(d) \/ InsertResults(d) \/ JudgeFails(d)
      PROVE  row' = row
  BY <1>4 DEF Load, Execute, UpdateRefused, InsertResults, JudgeFails
<1>5. CASE Crash \/ UNCHANGED vars
  BY <1>5 DEF Crash, vars
<1> QED
  BY <1>1, <1>2, <1>3, <1>4, <1>5 DEF Next, Judge

(* A row that is there stays there.                                        *)
LEMMA RowsStay ==
  ASSUME TypeOK, [Next]_vars, NEW s \in Submission, row[s] # NoRow
  PROVE  row'[s] # NoRow
<1>1. ASSUME NEW n \in 1 .. MaxDeliveries
      PROVE  FinalVerdict(Verdicts(<<s, n>>)) # NoRow
  <2>1. <<s, n>> \in Delivery
    BY DEF Delivery
  <2>2. FinalVerdict(Verdicts(<<s, n>>)) \in Verdict
    BY <2>1, FinalVerdictExplained
  <2> QED
    BY <2>2 DEF Verdict, NoRow
<1> QED
  BY <1>1, WhoWrites DEF NoRow

LEMMA StepVerdict ==
  ASSUME TypeOK, VerdictIsFirstFailure, [Next]_vars
  PROVE  VerdictIsFirstFailure'
<1> SUFFICES ASSUME NEW s \in Submission, row'[s] \in Verdict
             PROVE  \E n \in 1 .. MaxDeliveries :
                       Told(<<s, n>>)' /\ Explains(<<s, n>>, row[s])'
  BY DEF VerdictIsFirstFailure, Told
<1>1. ASSUME NEW n \in 1 .. MaxDeliveries, Told(<<s, n>>), Explains(<<s, n>>, row'[s])
      PROVE  Told(<<s, n>>)' /\ Explains(<<s, n>>, row[s])'
  <2>1. <<s, n>> \in Delivery
    BY DEF Delivery
  <2>2. /\ Told(<<s, n>>)' /\ answer'[<<s, n>>] = answer[<<s, n>>]
        /\ matching'[<<s, n>>] = matching[<<s, n>>]
    BY <1>1, <2>1, ToldForGood
  <2> QED
    BY <1>1, <2>2 DEF Explains, Passed
<1>2. CASE row'[s] = row[s]
  BY <1>1, <1>2 DEF VerdictIsFirstFailure, Told
<1>3. ASSUME NEW n \in 1 .. MaxDeliveries, Update(<<s, n>>),
             row'[s] = FinalVerdict(Verdicts(<<s, n>>))
      PROVE  Told(<<s, n>>) /\ Explains(<<s, n>>, row'[s])
  <2>1. <<s, n>> \in Delivery
    BY DEF Delivery
  <2> QED
    BY <1>3, <2>1, FinalVerdictExplained DEF Told, Update
<1>4. row'[s] # "PENDING"
  BY DEF Verdict
<1> QED
  BY <1>1, <1>2, <1>3, <1>4, WhoWrites

-----------------------------------------------------------------------------
(* A verdict that is stored is that of a delivery which still has to write *)
(* its rows, or of rows that are there; or a delivery was cut off between  *)
(* its two writes, or at a place nobody knows.                             *)
Cut(d) == stage[d] \in {"torn", "lost"}

Due(d) == stage[d] = "insert" /\ FinalVerdict(Verdicts(d)) = row[d[1]]

Shown(s) == \E k \in DOMAIN resultRows[s] : FinalVerdict(resultRows[s][k]) = row[s]

WitnessInv ==
    \A s \in Submission : row[s] \in Verdict =>
        Shown(s) \/ \E n \in 1 .. MaxDeliveries : Cut(<<s, n>>) \/ Due(<<s, n>>)

(* A delivery that has ended stays where it is, and one that is about to   *)
(* write its rows writes them or is cut off.                               *)
LEMMA WhoInserts ==
  ASSUME TypeOK, [Next]_vars, NEW d \in Delivery
  PROVE  /\ Cut(d) => Cut(d)'
         /\ stage[d] = "insert" => stage'[d] = "insert" \/ Cut(d)' \/ InsertResults(d)
<1> USE DEF Cut, TypeOK
<1>1. ASSUME NEW s \in Submission,
             StoreSubmission(s) \/ RefuseSubmission(s) \/ Handle(s)
      PROVE  stage' = stage
  BY <1>1 DEF StoreSubmission, RefuseSubmission, Handle, SendMessage, SendFails, judge
<1>2. ASSUME NEW s \in Submission, NEW n \in 1 .. MaxDeliveries, Deliver(s, n)
      PROVE  stage[d] # "none" => stage'[d] = stage[d]
  BY <1>2 DEF Deliver, Goto
<1>3. ASSUME NEW e \in Delivery, e # d, Judge(e)
      PROVE  stage'[d] = stage[d]
  BY <1>3 DEF Judge, Load, Execute, Update, UpdateRefused, InsertResults, JudgeFails, Goto
<1>4. CASE Judge(d)
  <2>1. CASE Load(d) \/ Execute(d) \/ Update(d) \/ UpdateRefused(d)
    BY <2>1 DEF Load, Execute, Update, UpdateRefused
  <2>2. CASE JudgeFails(d)
    BY <2>2 DEF JudgeFails, Goto
  <2> QED
    BY <1>4, <2>1, <2>2 DEF Judge, InsertResults
<1>5. CASE Crash
  BY <1>5 DEF Crash, Judging
<1>6. CASE UNCHANGED vars
  BY <1>6 DEF vars
<1> QED
  BY <1>1, <1>2, <1>3, <1>4, <1>5, <1>6 DEF Next

(* Rows are only added.                                                    *)
LEMMA RowsGrow ==
  ASSUME TypeOK, [Next]_vars, NEW s \in Submission
  PROVE  \A k \in DOMAIN resultRows[s] :
            k \in DOMAIN resultRows'[s] /\ resultRows'[s][k] = resultRows[s][k]
<1>1. CASE UNCHANGED resultRows
  BY <1>1
<1>2. ASSUME NEW d \in Delivery, InsertResults(d)
      PROVE  \A k \in DOMAIN resultRows[s] :
                k \in DOMAIN resultRows'[s] /\ resultRows'[s][k] = resultRows[s][k]
  <2>1. resultRows[s] \in Seq(Seq(Verdict)) /\ Verdicts(d) \in Seq(Verdict)
    BY VerdictsOf DEF TypeOK
  <2>2. resultRows'[s] \in {resultRows[s], Append(resultRows[s], Verdicts(d))}
    BY <1>2 DEF InsertResults, TypeOK
  <2>3. \A k \in DOMAIN resultRows[s] :
           /\ k \in DOMAIN Append(resultRows[s], Verdicts(d))
           /\ Append(resultRows[s], Verdicts(d))[k] = resultRows[s][k]
    <3> DEFINE rows == resultRows[s]
               V == Verdicts(d)
    <3>1. rows \in Seq(Seq(Verdict)) /\ V \in Seq(Verdict)
      BY <2>1
    <3> HIDE DEF rows, V
    <3>2. \A k \in DOMAIN rows : k \in DOMAIN Append(rows, V) /\ Append(rows, V)[k] = rows[k]
      BY <3>1
    <3> QED
      BY <3>2 DEF rows, V
  <2> QED
    BY <2>2, <2>3
<1>3. UNCHANGED resultRows \/ \E d \in Delivery : InsertResults(d)
  BY DEF Next, vars, StoreSubmission, RefuseSubmission, Handle, SendMessage, SendFails,
         judge, Deliver, Judge, Load, Execute, Update, UpdateRefused, JudgeFails, Crash
<1> QED
  BY <1>1, <1>2, <1>3

(* The rows a delivery inserts give the verdict it has stored.             *)
LEMMA InsertShows ==
  ASSUME TypeOK, NEW s \in Submission, NEW n \in 1 .. MaxDeliveries,
         InsertResults(<<s, n>>), FinalVerdict(Verdicts(<<s, n>>)) = row'[s]
  PROVE  Shown(s)'
<1> DEFINE rows == resultRows[s]
           V == Verdicts(<<s, n>>)
<1>1. <<s, n>> \in Delivery
  BY DEF Delivery
<1>2. rows \in Seq(Seq(Verdict)) /\ V \in Seq(Verdict)
  BY <1>1, VerdictsOf DEF TypeOK
<1>3. resultRows'[s] = Append(rows, V)
  BY DEF InsertResults, TypeOK
<1> HIDE DEF rows, V
<1>4. /\ Len(rows) + 1 \in DOMAIN Append(rows, V)
      /\ Append(rows, V)[Len(rows) + 1] = V
  BY <1>2
<1> QED
  BY <1>3, <1>4 DEF Shown, V

LEMMA StepWitness ==
  ASSUME TypeOK, WitnessInv, [Next]_vars
  PROVE  WitnessInv'
<1> SUFFICES ASSUME NEW s \in Submission, row'[s] \in Verdict
             PROVE  Shown(s)' \/ \E n \in 1 .. MaxDeliveries : Cut(<<s, n>>)' \/ Due(<<s, n>>)'
  BY DEF WitnessInv
<1>0. \A n \in 1 .. MaxDeliveries : <<s, n>> \in Delivery
  BY DEF Delivery
<1>1. CASE row'[s] = row[s]
  <2>1. CASE Shown(s)
    BY <1>1, <2>1, RowsGrow DEF Shown
  <2>2. ASSUME NEW n \in 1 .. MaxDeliveries, Cut(<<s, n>>)
        PROVE  Cut(<<s, n>>)'
    BY <1>0, <2>2, WhoInserts
  <2>3. ASSUME NEW n \in 1 .. MaxDeliveries, Due(<<s, n>>)
        PROVE  Shown(s)' \/ Cut(<<s, n>>)' \/ Due(<<s, n>>)'
    <3>1. stage[<<s, n>>] = "insert" /\ FinalVerdict(Verdicts(<<s, n>>)) = row'[s]
      BY <1>1, <2>3 DEF Due
    <3>2. Verdicts(<<s, n>>)' = Verdicts(<<s, n>>)
      BY <1>0, <3>1, ToldForGood DEF Told, Verdicts
    <3>3. \/ stage'[<<s, n>>] = "insert" \/ Cut(<<s, n>>)'
          \/ InsertResults(<<s, n>>)
      BY <1>0, <3>1, WhoInserts
    <3>4. CASE InsertResults(<<s, n>>)
      BY <3>1, <3>4, InsertShows
    <3>5. CASE stage'[<<s, n>>] = "insert"
      BY <3>1, <3>2, <3>5 DEF Due
    <3> QED
      BY <3>3, <3>4, <3>5
  <2> QED
    BY <1>1, <2>1, <2>2, <2>3 DEF WitnessInv
<1>2. ASSUME NEW n \in 1 .. MaxDeliveries, Update(<<s, n>>),
             row'[s] = FinalVerdict(Verdicts(<<s, n>>))
      PROVE  Due(<<s, n>>)'
  <2>1. stage'[<<s, n>>] = "insert" /\ UNCHANGED <<answer, matching>>
    BY <1>0, <1>2 DEF Update, Goto, TypeOK
  <2> QED
    BY <1>2, <2>1 DEF Due, Verdicts
<1>3. row'[s] # "PENDING"
  BY DEF Verdict
<1> QED
  BY <1>1, <1>2, <1>3, WhoWrites

-----------------------------------------------------------------------------
(* submit goes on to send only what it has stored.                         *)
StoredInv ==
    \A s \in Submission : request[s] = "stored" \/ s \in queued => row[s] # NoRow

LEMMA StepStored ==
  ASSUME TypeOK, StoredInv, [Next]_vars
  PROVE  StoredInv'
<1> SUFFICES ASSUME NEW s \in Submission, request'[s] = "stored" \/ s \in queued'
             PROVE  row'[s] # NoRow
  BY DEF StoredInv
<1>1. CASE request[s] = "stored" \/ s \in queued
  BY <1>1, RowsStay DEF StoredInv
<1>2. CASE ~ (request[s] = "stored" \/ s \in queued)
  <2>1. StoreSubmission(s)
    <3>1. ASSUME NEW t \in Submission, StoreSubmission(t)
          PROVE  t = s
      BY <1>2, <3>1 DEF StoreSubmission, TypeOK
    <3>2. ASSUME NEW t \in Submission, RefuseSubmission(t) \/ SendMessage(t) \/ SendFails(t)
          PROVE  FALSE
      BY <1>2, <3>2 DEF RefuseSubmission, SendMessage, SendFails, TypeOK
    <3>3. ~ UNCHANGED <<request, queued>>
      BY <1>2
    <3>4. ~ Crash
      BY <1>2 DEF Crash, TypeOK
    <3>5. ASSUME NEW d \in Delivery, Judge(d)
          PROVE  UNCHANGED <<request, queued>>
      BY <3>5 DEF Judge, Load, Execute, Update, UpdateRefused, InsertResults, JudgeFails,
                  handlers
    <3> QED
      BY <3>1, <3>2, <3>3, <3>4, <3>5 DEF Next, Handle, Deliver, handlers, vars
  <2> QED
    BY <2>1 DEF StoreSubmission, TypeOK, NoRow
<1> QED
  BY <1>1, <1>2

(* A delivery is of a message that is queued, which is sent only by a      *)
(* handler that has stored the row: a row is made once, before any verdict *)
(* is written to it.  What is acknowledged has been sent.                  *)
NewInv ==
    /\ \A s \in Submission : request[s] = "new" => row[s] = NoRow
    /\ \A s \in Submission : request[s] = "acknowledged" => s \in queued
    /\ \A d \in Delivery : stage[d] # "none" => d[1] \in queued

LEMMA StepNew ==
  ASSUME TypeOK, StoredInv, NewInv, [Next]_vars
  PROVE  NewInv'
<1> USE DEF TypeOK
<1>1. ASSUME NEW s \in Submission,
             StoreSubmission(s) \/ RefuseSubmission(s) \/ Handle(s)
      PROVE  NewInv'
  BY <1>1 DEF NewInv, StoreSubmission, RefuseSubmission, Handle, SendMessage, SendFails,
              judge
<1>2. ASSUME NEW s \in Submission, NEW n \in 1 .. MaxDeliveries, Deliver(s, n)
      PROVE  NewInv'
  <2>1. /\ s \in queued /\ UNCHANGED <<request, queued, row>>
        /\ \A d \in Delivery : d # <<s, n>> => stage'[d] = stage[d]
    BY <1>2 DEF Deliver, Goto, handlers
  <2> QED
    BY <2>1 DEF NewInv
<1>3. ASSUME NEW d \in Delivery, Judge(d)
      PROVE  /\ UNCHANGED <<request, queued>>
             /\ \A e \in Delivery : stage[e] = "none" => stage'[e] = "none"
             /\ stage[d] # "none"
             /\ \A s \in Submission \ {d[1]} : row'[s] = row[s]
  BY <1>3 DEF Judge, Load, Execute, Update, UpdateRefused, InsertResults, JudgeFails,
              Goto, handlers
<1>4. ASSUME NEW d \in Delivery, Judge(d)
      PROVE  NewInv'
  <2>1. d[1] \in queued /\ request[d[1]] # "new"
    BY <1>3, <1>4 DEF NewInv, StoredInv, Delivery
  <2> QED
    BY <1>3, <1>4, <2>1 DEF NewInv
<1>5. CASE Crash
  <2>1. /\ UNCHANGED <<row, queued>>
        /\ \A s \in Submission : request'[s] \in {"new", "acknowledged"} =>
                                    request'[s] = request[s]
        /\ \A d \in Delivery : stage'[d] # "none" => stage[d] # "none"
    BY <1>5 DEF Crash, Judging
  <2> QED
    BY <2>1 DEF NewInv
<1>6. CASE UNCHANGED vars
  BY <1>6 DEF vars, NewInv
<1> QED
  BY <1>1, <1>2, <1>4, <1>5, <1>6 DEF Next

(* A verdict is never taken back, whatever is delivered again.             *)
LEMMA VerdictStays ==
  ASSUME TypeOK, NewInv, [Next]_vars, NEW s \in Submission, row[s] \in Verdict
  PROVE  row'[s] \in Verdict
<1>1. request[s] # "new"
  BY DEF NewInv, Verdict, NoRow
<1>2. ASSUME NEW n \in 1 .. MaxDeliveries
      PROVE  FinalVerdict(Verdicts(<<s, n>>)) \in Verdict
  <2>1. <<s, n>> \in Delivery
    BY DEF Delivery
  <2> QED
    BY <2>1, FinalVerdictExplained
<1> QED
  BY <1>1, <1>2, WhoWrites

(* A delivery that has come past its update has written a verdict, and the *)
(* row keeps one.                                                          *)
WrittenInv ==
    \A d \in Delivery : stage[d] \in {"insert", "ended", "torn"} => row[d[1]] \in Verdict

LEMMA StepWritten ==
  ASSUME TypeOK, NewInv, WrittenInv, [Next]_vars
  PROVE  WrittenInv'
<1> SUFFICES ASSUME NEW d \in Delivery, stage'[d] \in {"insert", "ended", "torn"}
             PROVE  row'[d[1]] \in Verdict
  BY DEF WrittenInv
<1>0. d[1] \in Submission
  BY DEF Delivery
<1>1. CASE stage[d] \in {"insert", "ended", "torn"}
  BY <1>0, <1>1, VerdictStays DEF WrittenInv
<1>2. CASE Update(d)
  BY <1>0, <1>2, FinalVerdictExplained DEF Update, TypeOK
<1>3. stage[d] \in {"insert", "ended", "torn"} \/ Update(d)
  <2> USE DEF TypeOK
  <2>1. ASSUME NEW s \in Submission,
               StoreSubmission(s) \/ RefuseSubmission(s) \/ Handle(s)
        PROVE  stage' = stage
    BY <2>1 DEF StoreSubmission, RefuseSubmission, Handle, SendMessage, SendFails, judge
  <2>2. ASSUME NEW s \in Submission, NEW n \in 1 .. MaxDeliveries, Deliver(s, n)
        PROVE  stage'[d] = stage[d] \/ stage'[d] = "load"
    BY <2>2 DEF Deliver, Goto
  <2>3. ASSUME NEW e \in Delivery, e # d, Judge(e)
        PROVE  stage'[d] = stage[d]
    BY <2>3 DEF Judge, Load, Execute, Update, UpdateRefused, InsertResults, JudgeFails, Goto
  <2>4. CASE Judge(d)
    BY <2>4 DEF Judge, Load, Execute, UpdateRefused, InsertResults, JudgeFails, Goto
  <2>5. CASE Crash
    BY <2>5 DEF Crash
  <2>6. CASE UNCHANGED vars
    BY <2>6 DEF vars
  <2> QED
    BY <2>1, <2>2, <2>3, <2>4, <2>5, <2>6 DEF Next
<1> QED
  BY <1>1, <1>2, <1>3

LifeInv ==
    /\ TypeOK
    /\ StoredInv
    /\ VerdictIsFirstFailure
    /\ WitnessInv
    /\ NewInv
    /\ WrittenInv

LEMMA LifeInitInv == Init => LifeInv
<1> SUFFICES ASSUME Init
             PROVE  LifeInv
  OBVIOUS
<1>1. StoredInv /\ VerdictIsFirstFailure /\ WitnessInv /\ NewInv /\ WrittenInv
  BY DEF Init, StoredInv, VerdictIsFirstFailure, WitnessInv, NewInv, WrittenInv, Verdict,
         NoRow
<1> QED
  BY <1>1, TypeInit DEF LifeInv

LEMMA LifeInvariance == Spec => []LifeInv
<1>1. LifeInv /\ [Next]_vars => LifeInv'
  BY StepType, StepStored, StepVerdict, StepWitness, StepNew, StepWritten DEF LifeInv
<1> QED
  BY <1>1, LifeInitInv, PTL DEF Spec

(* The types of rows, messages and judgings.                               *)
THEOREM LifeTypeCorrect == Spec => []TypeOK
<1>1. LifeInv => TypeOK
  BY DEF LifeInv
<1> QED
  BY <1>1, LifeInvariance, PTL

(* No message is in the topic before its row is in the table (submit       *)
(* awaits the row, then sends), so updateSubmission always finds one.      *)
THEOREM LifeMessageHasRow == Spec => []MessageHasRow
<1>1. LifeInv => MessageHasRow
  BY DEF LifeInv, StoredInv, MessageHasRow, TypeOK
<1> QED
  BY <1>1, LifeInvariance, PTL

(* A stored verdict is the first failure that some judging of the          *)
(* submission has seen, although validateResults stops at a failed run and *)
(* not at a wrong answer, and deliveries overlap, fail and are cut off.    *)
THEOREM LifeVerdictIsFirstFailure == Spec => []VerdictIsFirstFailure
<1>1. LifeInv => VerdictIsFirstFailure
  BY DEF LifeInv
<1> QED
  BY <1>1, LifeInvariance, PTL

(* Unless a delivery was cut off between its two writes or is still there, *)
(* some rows of the submission give the verdict that is stored, whichever  *)
(* of its deliveries wrote last.                                           *)
THEOREM LifeRowsExplainVerdict == Spec => []RowsExplainVerdict
<1>1. LifeInv => RowsExplainVerdict
  BY DEF LifeInv, WitnessInv, Shown, Cut, Due, RowsExplainVerdict
<1> QED
  BY <1>1, LifeInvariance, PTL

(* A submission that has a verdict has one for good: a second delivery may *)
(* write another one, but submit never makes the row pending again.        *)
THEOREM LifeVerdictStays ==
  Spec => [][\A s \in Submission : row[s] \in Verdict => row'[s] \in Verdict]_vars
<1>1. LifeInv /\ [Next]_vars
      => \A s \in Submission : row[s] \in Verdict => row'[s] \in Verdict
  BY VerdictStays DEF LifeInv
<1> QED
  BY <1>1, LifeInvariance, PTL DEF Spec

(* A message that has been processed leaves a verdict, or a delivery of it *)
(* has thrown before it wrote anything: nothing else makes processMessage  *)
(* complete an undecided submission.                                       *)
THEOREM LifeProcessedIsDecided ==
  Spec => [](\A s \in Submission : Processed(s) =>
                \/ row[s] \in Verdict
                \/ \E n \in 1 .. MaxDeliveries : stage[<<s, n>>] = "failed")
<1>1. LifeInv => \A s \in Submission : Processed(s) =>
                    \/ row[s] \in Verdict
                    \/ \E n \in 1 .. MaxDeliveries : stage[<<s, n>>] = "failed"
  BY DEF LifeInv, WrittenInv, Processed, Ended, Delivery
<1> QED
  BY <1>1, LifeInvariance, PTL

(* A judging throws only where a service fails or Prisma refuses a value.  *)
NoneFailed == \A d \in Delivery : stage[d] # "failed"

LEMMA NoneFails ==
  ASSUME ~ Faults, \A kb \in Memory : WholeMegabytes(kb)
  PROVE  Spec => []NoneFailed
<1> USE DEF NoneFailed
<1>1. Init => NoneFailed
  BY DEF Init
<1>2. ASSUME TypeOK, NoneFailed, [Next]_vars
      PROVE  NoneFailed'
  <2> USE <1>2 DEF TypeOK
  <2>1. \A d \in Delivery : ~ UpdateRefused(d) /\ ~ JudgeFails(d)
    <3>1. WholeMegabytes(0)
      BY DEF WholeMegabytes
    <3> QED
      BY <3>1 DEF UpdateRefused, JudgeFails, Peak
  <2>2. ASSUME NEW s \in Submission,
               StoreSubmission(s) \/ RefuseSubmission(s) \/ Handle(s)
        PROVE  stage' = stage
    BY <2>2 DEF StoreSubmission, RefuseSubmission, Handle, SendMessage, SendFails, judge
  <2>3. ASSUME NEW s \in Submission, NEW n \in 1 .. MaxDeliveries, Deliver(s, n)
        PROVE  NoneFailed'
    BY <2>3 DEF Deliver, Goto
  <2>4. ASSUME NEW d \in Delivery, Judge(d)
        PROVE  NoneFailed'
    BY <2>1, <2>4 DEF Judge, Load, Execute, Update, InsertResults, Goto
  <2>5. CASE Crash
    BY <2>5 DEF Crash
  <2>6. CASE UNCHANGED vars
    BY <2>6 DEF vars
  <2> QED
    BY <2>2, <2>3, <2>4, <2>5, <2>6 DEF Next
<1>3. LifeInv => TypeOK
  BY DEF LifeInv
<1> HIDE DEF NoneFailed
<1> QED
  BY <1>1, <1>2, <1>3, LifeInvariance, PTL DEF Spec

(* So with every service working a processed message has its verdict, as   *)
(* the README has it, if no run's memory comes out as a fraction of a      *)
(* megabyte: the refused update is the only way to lose one.               *)
THEOREM LifeWholeMegabytesDecide ==
  ASSUME ~ Faults, \A kb \in Memory : WholeMegabytes(kb)
  PROVE  Spec => []ProcessedHasVerdict
<1>1. LifeInv /\ NoneFailed => ProcessedHasVerdict
  BY DEF LifeInv, WrittenInv, Processed, Ended, Delivery, ProcessedHasVerdict, NoneFailed
<1> QED
  BY <1>1, LifeInvariance, NoneFails, PTL

=============================================================================
