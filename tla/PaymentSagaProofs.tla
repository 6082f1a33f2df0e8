-------------------------- MODULE PaymentSagaProofs --------------------------
(***************************************************************************)
(* Proofs about PaymentSaga, for any number of attempts and refunds, any   *)
(* order, any retry limit and any number of crashes.                       *)
(*                                                                         *)
(* What makes them inductive: an attempt has made no effect whose step it  *)
(* has not reached (Before), no row of the outbox is there before its      *)
(* compensation failed, what the retry job has polled is still what the    *)
(* table has, and a payment row is only ever that of an attempt that took  *)
(* everything and never entered the catch block.                           *)
(***************************************************************************)
EXTENDS PaymentSaga, TLAPS

Running == Steps \ (Ended \cup {"idle"})

(* How often effect e has happened for attempt a, or still may. *)
Total(a, e) == applied[a][e] + late[a][e]

(* The steps an attempt takes before it makes effect e. *)
Before(e) ==
  CASE e = "use" -> {"idle", "check", "points"}
    [] e = "charge" -> {"idle", "check", "points", "card"}
    [] e = "refund" -> {"idle", "check", "points", "card", "save", "refundCard"}
    [] e = "cancel" -> {"idle", "check", "points", "card", "save", "refundCard", "CARD_REFUND", "cancelPoints"}
    [] e = "restock" -> {"idle", "check", "points", "card", "save", "refundCard", "CARD_REFUND", "cancelPoints",
                         "POINT_RESTORE", "restoreStock"}
    [] e = "revoke" -> {"idle", "check", "points", "card", "save", "refundCard", "CARD_REFUND", "cancelPoints",
                        "POINT_RESTORE", "restoreStock", "revokeEarn"}

(* The row in the hand of the retry job. *)
InHandOf(a, t) == job.row = <<a, t>> /\ job.step \in {"saveCompleted", "saveRetry", "saveRetryCompleted"}

(* What the job polled is what the table still has: PENDING, and under the limit. *)
JobInv ==
  /\ job.step \in {"saveCompleted", "saveRetry", "saveRetryCompleted"} =>
       job.row \in (Attempts \X Types) \ job.polled
  /\ \A a \in Attempts, t \in Types : <<a, t>> \in job.polled \/ InHandOf(a, t) =>
       outbox[a][t].status = "PENDING" /\ outbox[a][t].retries < MaxRetry

(* No row is there before its compensation failed, and none for an attempt that was answered. *)
RowsInv ==
  \A a \in Attempts, t \in Types :
    \/ t = "STOCK_RESTORE"
    \/ pc[a] \in Before(EffectOf[t]) \cup {t, "ok", "rejected"}
    => outbox[a][t].status = "none"

Refunding(a) == \E r \in Refunders : refund[r].step # "idle" /\ refund[r].of = a

(* What an attempt has done by each of its steps, and the answer it gave. *)
CountOf(a) ==
  /\ late[a]["charge"] = 0 /\ late[a]["refund"] = 0
  /\ \A e \in Effects : pc[a] \in Before(e) => Total(a, e) = 0
  /\ pc[a] \in {"card", "save"} \/ payment[a] # "none" =>
       applied[a]["use"] = (IF DeductsPoints THEN 1 ELSE 0) /\ late[a]["use"] = 0
  /\ pc[a] = "save" \/ payment[a] # "none" => applied[a]["charge"] = (IF ChargesCard THEN 1 ELSE 0)
  /\ pc[a] = "ok" => /\ Total(a, "restock") = 0 /\ Total(a, "revoke") = 0
                     /\ Total(a, "cancel") + Total(a, "refund") > 0 => Refunding(a)
  /\ payment[a] # "none" => pc[a] = "ok"

CountInv == \A a \in Attempts : CountOf(a)

(* A refund is of a payment. *)
RefundInv ==
  \A r \in Refunders : refund[r].step \in {"points", "card", "save"} =>
    refund[r].of \in Attempts /\ payment[refund[r].of] # "none"

(* The catch block leaves nothing behind that it has passed. *)
KnownOf(a) ==
  /\ pc[a] \in {"cancelPoints", "POINT_RESTORE", "restoreStock", "revokeEarn", "POINT_EARN_REVOKE", "failed"}
     /\ cardCharged[a] => Undone(a, "refund", "CARD_REFUND")
  /\ pc[a] \in {"restoreStock", "revokeEarn", "POINT_EARN_REVOKE", "failed"}
     /\ pointDeducted[a] => Undone(a, "cancel", "POINT_RESTORE")
  /\ pc[a] = "failed" => Undone(a, "revoke", "POINT_EARN_REVOKE")

KnownInv == \A a \in Attempts : KnownOf(a)

(* Without overlaps one attempt at most is running, and past its check nothing is completed. *)
SequenceInv ==
  ~overlapped =>
    /\ \A a, b \in Attempts : pc[a] \in Running /\ pc[b] \in Running => a = b
    /\ \A a \in Attempts : pc[a] \in Running \ {"check"} => Completed = {}
    /\ \A a, b \in Completed : a = b

-----------------------------------------------------------------------------
(* Calls *)

Counts == [Attempts -> [Effects -> Nat]]

(* At most one more effect e of attempt a, and nothing else. *)
Called(a, e) ==
  /\ applied' \in Counts /\ late' \in Counts
  /\ \A b \in Attempts, f \in Effects : b # a \/ f # e => applied'[b][f] = applied[b][f] /\ late'[b][f] = late[b][f]
  /\ applied'[a][e] \in {applied[a][e], applied[a][e] + 1} /\ late'[a][e] \in {late[a][e], late[a][e] + 1}
  /\ applied'[a][e] = applied[a][e] \/ late'[a][e] = late[a][e]

LEMMA HappensCalls ==
  ASSUME applied \in Counts, late \in Counts, NEW a \in Attempts, NEW e \in Effects, Happens(a, e)
  PROVE  Called(a, e) /\ applied'[a][e] = applied[a][e] + 1 /\ late' = late
<1>1. applied' = [applied EXCEPT ![a] = [applied[a] EXCEPT ![e] = applied[a][e] + 1]] /\ late' = late
  BY DEF Happens
<1>2. applied[a] \in [Effects -> Nat] /\ applied[a][e] + 1 \in Nat
  BY DEF Counts
<1>3. applied' \in Counts
  BY <1>1, <1>2 DEF Counts
<1>4. applied'[a] = [applied[a] EXCEPT ![e] = applied[a][e] + 1] /\ \A b \in Attempts \ {a} : applied'[b] = applied[b]
  BY <1>1 DEF Counts
<1>5. applied'[a][e] = applied[a][e] + 1 /\ \A f \in Effects \ {e} : applied'[a][f] = applied[a][f]
  BY <1>2, <1>4
<1> QED
  BY <1>1, <1>3, <1>4, <1>5 DEF Called

LEMMA UnansweredCalls ==
  ASSUME applied \in Counts, late \in Counts, NEW a \in Attempts, NEW e \in Effects, Unanswered(a, e)
  PROVE  Called(a, e) /\ late'[a][e] = late[a][e] + 1 /\ applied' = applied
<1>1. late' = [late EXCEPT ![a] = [late[a] EXCEPT ![e] = late[a][e] + 1]] /\ applied' = applied
  BY DEF Unanswered
<1>2. late[a] \in [Effects -> Nat] /\ late[a][e] + 1 \in Nat
  BY DEF Counts
<1>3. late' \in Counts
  BY <1>1, <1>2 DEF Counts
<1>4. late'[a] = [late[a] EXCEPT ![e] = late[a][e] + 1] /\ \A b \in Attempts \ {a} : late'[b] = late[b]
  BY <1>1 DEF Counts
<1>5. late'[a][e] = late[a][e] + 1 /\ \A f \in Effects \ {e} : late'[a][f] = late[a][f]
  BY <1>2, <1>4
<1> QED
  BY <1>1, <1>3, <1>4, <1>5 DEF Called

LEMMA RefusedCalls ==
  ASSUME applied \in Counts, late \in Counts, NEW a \in Attempts, NEW e \in Effects, Refused
  PROVE  Called(a, e) /\ applied' = applied /\ late' = late
  BY DEF Refused, Called

LEMMA FailsCalls ==
  ASSUME applied \in Counts, late \in Counts, NEW a \in Attempts, NEW e \in Effects, Fails(a, e)
  PROVE  Called(a, e) /\ applied' = applied
  BY UnansweredCalls, RefusedCalls DEF Fails

LEMMA LateCalls ==
  ASSUME applied \in Counts, late \in Counts, NEW a \in Attempts, NEW e \in Effects, LateArrives(a, e)
  PROVE  /\ applied' \in Counts /\ late' \in Counts
         /\ \A b \in Attempts, f \in Effects : b # a \/ f # e => applied'[b][f] = applied[b][f] /\ late'[b][f] = late[b][f]
         /\ late[a][e] > 0 /\ late'[a][e] = late[a][e] - 1
         /\ applied'[a][e] \in {applied[a][e], applied[a][e] + 1}
<1>1. /\ late[a][e] > 0 /\ late' = [late EXCEPT ![a] = [late[a] EXCEPT ![e] = late[a][e] - 1]]
      /\ applied' = applied \/ applied' = [applied EXCEPT ![a] = [applied[a] EXCEPT ![e] = applied[a][e] + 1]]
  BY DEF LateArrives
<1>2. /\ late[a] \in [Effects -> Nat] /\ late[a][e] - 1 \in Nat
      /\ applied[a] \in [Effects -> Nat] /\ applied[a][e] + 1 \in Nat
  BY <1>1 DEF Counts
<1>3. /\ late' \in Counts /\ late'[a] = [late[a] EXCEPT ![e] = late[a][e] - 1]
      /\ \A b \in Attempts \ {a} : late'[b] = late[b]
  BY <1>1, <1>2 DEF Counts
<1>4. late'[a][e] = late[a][e] - 1 /\ \A f \in Effects \ {e} : late'[a][f] = late[a][f]
  BY <1>2, <1>3
<1>5. CASE applied' = applied
  BY <1>1, <1>3, <1>4, <1>5
<1>6. CASE applied' # applied
  <2>1. /\ applied' \in Counts /\ applied'[a] = [applied[a] EXCEPT ![e] = applied[a][e] + 1]
        /\ \A b \in Attempts \ {a} : applied'[b] = applied[b]
    BY <1>1, <1>2, <1>6 DEF Counts
  <2>2. applied'[a][e] = applied[a][e] + 1 /\ \A f \in Effects \ {e} : applied'[a][f] = applied[a][f]
    BY <1>2, <2>1
  <2> QED
    BY <1>1, <1>3, <1>4, <2>1, <2>2
<1> QED
  BY <1>5, <1>6

-----------------------------------------------------------------------------
(* Types, and what the job has polled *)

LEMMA StepsAre ==
  /\ Steps = {"idle", "check", "points", "card", "save", "refundCard", "cancelPoints", "restoreStock", "revokeEarn",
              "CARD_REFUND", "POINT_RESTORE", "POINT_EARN_REVOKE", "ok", "rejected", "failed", "escaped", "dead"}
  /\ Ended = {"ok", "rejected", "failed", "escaped", "dead"}
  /\ DOMAIN AfterSaving = {"CARD_REFUND", "POINT_RESTORE", "POINT_EARN_REVOKE"}
  /\ AfterSaving["CARD_REFUND"] = "cancelPoints" /\ AfterSaving["POINT_RESTORE"] = "restoreStock"
  /\ AfterSaving["POINT_EARN_REVOKE"] = "failed"
<1>1. DOMAIN AfterSaving = {"CARD_REFUND", "POINT_RESTORE", "POINT_EARN_REVOKE"}
  BY DEF AfterSaving
<1>2. Ended = {"ok", "rejected", "failed", "escaped", "dead"}
  BY DEF Ended, Answered
<1>3. /\ AfterSaving["CARD_REFUND"] = "cancelPoints" /\ AfterSaving["POINT_RESTORE"] = "restoreStock"
      /\ AfterSaving["POINT_EARN_REVOKE"] = "failed"
  BY DEF AfterSaving
<1> QED
  BY <1>1, <1>2, <1>3 DEF Steps

Rows == [status : {"none", "PENDING", "COMPLETED", "FAILED"}, retries : 0 .. MaxRetry]

LEMMA TypeInit == Init => TypeOK /\ JobInv
<1> SUFFICES ASSUME Init PROVE TypeOK /\ JobInv
  OBVIOUS
<1>1. "idle" \in Steps /\ NoRow \in Rows /\ 0 \in 0 .. MaxCrashes
  BY StepsAre, MaxRetryAssumption, MaxCrashesAssumption DEF NoRow, Rows
<1>2. Idle \in [step : JobSteps, polled : SUBSET (Attempts \X Types), row : (Attempts \X Types) \cup {None}]
  BY DEF Idle, JobSteps
<1>3. \A r \in Refunders : refund[r] \in [step : RefundSteps, of : Attempts \cup {None}]
  BY DEF Init, RefundSteps
<1>4. JobInv
  BY DEF Init, JobInv, Idle, InHandOf
<1>5. refund \in [Refunders -> [step : RefundSteps, of : Attempts \cup {None}]]
  BY <1>3 DEF Init
<1> QED
  BY <1>1, <1>2, <1>4, <1>5 DEF Init, TypeOK, Rows

LEMMA JobFrame ==
  ASSUME JobInv, UNCHANGED <<outbox, job>>
  PROVE  JobInv'
  BY DEF JobInv, InHandOf

(* An attempt goes on, without a row of the outbox. *)
LEMMA TypeAttempt ==
  ASSUME TypeOK, JobInv, NEW a \in Attempts,
         Start(a) \/ CheckCompleted(a) \/ UsePoints(a) \/ ChargeCard(a) \/ SavePayment(a)
         \/ RefundCard(a) \/ CancelPoints(a) \/ RestoreStock(a) \/ RevokeEarn(a)
  PROVE  TypeOK' /\ JobInv'
<1>1. applied \in Counts /\ late \in Counts
  BY DEF TypeOK, Counts
<1>2. JobInv'
  BY JobFrame DEF Start, CheckCompleted, UsePoints, ChargeCard, SavePayment, RefundCard, CancelPoints, RestoreStock, RevokeEarn
<1>3. CASE Start(a) \/ CheckCompleted(a) \/ SavePayment(a)
  <2>1. /\ UNCHANGED <<order, pointDeducted, cardCharged, applied, late, outbox, job, refund, crashes>>
        /\ pc' \in [Attempts -> Steps] /\ overlapped' \in BOOLEAN
        /\ payment' \in [Attempts -> {"none", "COMPLETED", "REFUNDED"}]
    BY <1>3, StepsAre DEF TypeOK, Start, CheckCompleted, SavePayment, Goto
  <2> QED
    BY <1>2, <2>1 DEF TypeOK
<1>4. CASE UsePoints(a) \/ ChargeCard(a) \/ RefundCard(a) \/ CancelPoints(a) \/ RestoreStock(a) \/ RevokeEarn(a)
  <2>1. \E e \in Effects : Happens(a, e) \/ Fails(a, e) \/ Refused
    BY <1>4 DEF UsePoints, ChargeCard, RefundCard, CancelPoints, RestoreStock, RevokeEarn, Effects
  <2>2. applied' \in Counts /\ late' \in Counts
    BY <1>1, <2>1, HappensCalls, FailsCalls, RefusedCalls DEF Called
  <2>3. /\ UNCHANGED <<order, payment, outbox, job, refund, crashes, overlapped>>
        /\ pc' \in [Attempts -> Steps]
    BY <1>4, StepsAre DEF TypeOK, UsePoints, ChargeCard, RefundCard, CancelPoints, RestoreStock, RevokeEarn, Goto
  <2>4. pointDeducted' \in [Attempts -> BOOLEAN] /\ cardCharged' \in [Attempts -> BOOLEAN]
    BY <1>4 DEF TypeOK, UsePoints, ChargeCard, RefundCard, CancelPoints, RestoreStock, RevokeEarn
  <2> QED
    BY <1>2, <2>2, <2>3, <2>4 DEF TypeOK, Counts
<1> QED
  BY <1>3, <1>4

(* saveFailedCompensation puts a row, or lets its failure out. *)
LEMMA SavedRow ==
  ASSUME TypeOK, NEW a \in Attempts, SaveFailedCompensation(a)
  PROVE  /\ pc[a] \in {"CARD_REFUND", "POINT_RESTORE", "POINT_EARN_REVOKE"}
         /\ UNCHANGED <<order, pointDeducted, cardCharged, payment, applied, late, job, refund, crashes, overlapped>>
         /\ \/ /\ outbox' \in [Attempts -> [Types -> Rows]]
               /\ outbox'[a][pc[a]] = [status |-> "PENDING", retries |-> 0]
               /\ \A b \in Attempts, t \in Types : b # a \/ t # pc[a] => outbox'[b][t] = outbox[b][t]
               /\ pc' = [pc EXCEPT ![a] = AfterSaving[pc[a]]]
            \/ outbox' = outbox /\ pc' = [pc EXCEPT ![a] = "escaped"]
<1>1. pc[a] \in {"CARD_REFUND", "POINT_RESTORE", "POINT_EARN_REVOKE"}
  BY StepsAre DEF SaveFailedCompensation
<1>2. pc[a] \in Types
  BY <1>1 DEF Types
<1> DEFINE row == [status |-> "PENDING", retries |-> 0]
<1>3. row \in Rows
  BY MaxRetryAssumption DEF Rows
<1>4. /\ UNCHANGED <<order, pointDeducted, cardCharged, payment, applied, late, job, refund, crashes, overlapped>>
      /\ \/ /\ outbox' = [outbox EXCEPT ![a] = [outbox[a] EXCEPT ![pc[a]] = row]]
            /\ pc' = [pc EXCEPT ![a] = AfterSaving[pc[a]]]
         \/ outbox' = outbox /\ pc' = [pc EXCEPT ![a] = "escaped"]
  BY DEF SaveFailedCompensation, Goto
<1> HIDE DEF row
<1>5. CASE outbox' = [outbox EXCEPT ![a] = [outbox[a] EXCEPT ![pc[a]] = row]] /\ pc' = [pc EXCEPT ![a] = AfterSaving[pc[a]]]
  <2>1. outbox \in [Attempts -> [Types -> Rows]] /\ outbox[a] \in [Types -> Rows]
    BY DEF TypeOK, Rows
  <2>2. [outbox[a] EXCEPT ![pc[a]] = row] \in [Types -> Rows]
    BY <1>2, <1>3, <2>1
  <2>3. /\ outbox' \in [Attempts -> [Types -> Rows]]
        /\ outbox'[a] = [outbox[a] EXCEPT ![pc[a]] = row] /\ \A b \in Attempts \ {a} : outbox'[b] = outbox[b]
    BY <1>5, <2>1, <2>2
  <2>4. outbox'[a][pc[a]] = row /\ \A t \in Types \ {pc[a]} : outbox'[a][t] = outbox[a][t]
    BY <1>2, <2>1, <2>3
  <2> QED
    BY <1>1, <1>4, <1>5, <2>3, <2>4 DEF row
<1> QED
  BY <1>1, <1>4, <1>5

LEMMA TypeSaveFailed ==
  ASSUME TypeOK, JobInv, NEW a \in Attempts, SaveFailedCompensation(a)
  PROVE  TypeOK' /\ JobInv'
<1>1. pc' \in [Attempts -> Steps] /\ outbox' \in [Attempts -> [Types -> Rows]]
  <2>1. pc[a] \in {"CARD_REFUND", "POINT_RESTORE", "POINT_EARN_REVOKE"}
    BY SavedRow
  <2>2. AfterSaving[pc[a]] \in Steps /\ "escaped" \in Steps
    BY <2>1, StepsAre
  <2>3. pc \in [Attempts -> Steps] /\ outbox \in [Attempts -> [Types -> Rows]]
    BY DEF TypeOK, Rows
  <2> QED
    BY <2>2, <2>3, SavedRow
<1>2. TypeOK'
  BY <1>1, SavedRow DEF TypeOK, Rows
<1>3. \A b \in Attempts, t \in Types :
        \/ outbox'[b][t] = outbox[b][t]
        \/ outbox'[b][t].status = "PENDING" /\ outbox'[b][t].retries < MaxRetry
  BY SavedRow, MaxRetryAssumption
<1>4. job' = job
  BY SavedRow
<1>5. JobInv'
  BY <1>3, <1>4 DEF JobInv, InHandOf
<1> QED
  BY <1>2, <1>5

LEMMA SetRowMeans ==
  ASSUME TypeOK, NEW a \in Attempts, NEW t \in Types, job.row = <<a, t>>,
         NEW s \in {"PENDING", "COMPLETED", "FAILED"}, NEW n \in 0 .. MaxRetry, SetRow(s, n)
  PROVE  /\ outbox' \in [Attempts -> [Types -> Rows]]
         /\ outbox'[a][t].status = s /\ outbox'[a][t].retries = n
         /\ \A b \in Attempts, u \in Types : b # a \/ u # t => outbox'[b][u] = outbox[b][u]
<1> DEFINE row == [status |-> s, retries |-> n]
<1>1. row \in Rows /\ row.status = s /\ row.retries = n
  BY DEF Rows
<1>2. job.row[1] = a /\ job.row[2] = t
  OBVIOUS
<1>3. outbox' = [outbox EXCEPT ![a] = [outbox[a] EXCEPT ![t] = row]]
  BY <1>2 DEF SetRow
<1> HIDE DEF row
<1>4. outbox \in [Attempts -> [Types -> Rows]] /\ outbox[a] \in [Types -> Rows]
  BY DEF TypeOK, Rows
<1>5. [outbox[a] EXCEPT ![t] = row] \in [Types -> Rows]
  BY <1>1, <1>4
<1>6. /\ outbox' \in [Attempts -> [Types -> Rows]]
      /\ outbox'[a] = [outbox[a] EXCEPT ![t] = row] /\ \A b \in Attempts \ {a} : outbox'[b] = outbox[b]
  BY <1>3, <1>4, <1>5
<1>7. outbox'[a][t] = row /\ \A u \in Types \ {t} : outbox'[a][u] = outbox[a][u]
  BY <1>4, <1>6
<1> QED
  BY <1>1, <1>6, <1>7

(* The saves of the job: the row in its hand was PENDING, and is settled or counted. *)
LEMMA SavedByJob ==
  ASSUME TypeOK, JobInv, SaveCompleted \/ SaveRetry
  PROVE  \E a \in Attempts, t \in Types :
           /\ InHandOf(a, t) /\ outbox[a][t].status = "PENDING" /\ outbox[a][t].retries < MaxRetry
           /\ <<a, t>> \notin job.polled
           /\ UNCHANGED <<order, pc, pointDeducted, cardCharged, payment, applied, late, refund, crashes, overlapped>>
           /\ outbox' \in [Attempts -> [Types -> Rows]]
           /\ \A b \in Attempts, u \in Types : b # a \/ u # t => outbox'[b][u] = outbox[b][u]
           /\ \/ /\ outbox' = outbox
                 /\ job' = [step |-> "saveRetryCompleted", polled |-> job.polled, row |-> <<a, t>>]
              \/ /\ job' \in {Idle, [step |-> "next", polled |-> job.polled, row |-> None]}
                 /\ outbox'[a][t].status \in {"COMPLETED", "FAILED"}
              \/ /\ job' \in {Idle, [step |-> "next", polled |-> job.polled, row |-> None]}
                 /\ outbox'[a][t].status = "PENDING" /\ outbox'[a][t].retries = outbox[a][t].retries + 1
                 /\ outbox'[a][t].retries < MaxRetry
<1>1. job.step \in {"saveCompleted", "saveRetry", "saveRetryCompleted"}
  BY DEF SaveCompleted, SaveRetry
<1>2. PICK a \in Attempts, t \in Types : job.row = <<a, t>> /\ <<a, t>> \notin job.polled
  BY <1>1 DEF JobInv
<1>3. InHandOf(a, t) /\ outbox[a][t].status = "PENDING" /\ outbox[a][t].retries < MaxRetry
  BY <1>1, <1>2 DEF JobInv, InHandOf
<1>4. outbox[a][t].retries \in 0 .. MaxRetry /\ outbox \in [Attempts -> [Types -> Rows]]
  BY DEF TypeOK, Rows
<1>5. InHand = outbox[a][t]
  BY <1>2 DEF InHand
<1>6. CASE SaveCompleted
  <2>1. /\ UNCHANGED <<order, pc, pointDeducted, cardCharged, payment, applied, late, refund, crashes, overlapped>>
        /\ \/ /\ SetRow("COMPLETED", outbox[a][t].retries)
              /\ job' \in {Idle, [step |-> "next", polled |-> job.polled, row |-> None]}
           \/ /\ job' = [step |-> "saveRetryCompleted", polled |-> job.polled, row |-> <<a, t>>]
              /\ outbox' = outbox
    BY <1>2, <1>5, <1>6 DEF SaveCompleted, JobStep
  <2>2. CASE SetRow("COMPLETED", outbox[a][t].retries) /\ job' \in {Idle, [step |-> "next", polled |-> job.polled, row |-> None]}
    <3>1. /\ outbox' \in [Attempts -> [Types -> Rows]] /\ outbox'[a][t].status = "COMPLETED"
          /\ \A b \in Attempts, u \in Types : b # a \/ u # t => outbox'[b][u] = outbox[b][u]
      BY <1>2, <1>4, <2>2, SetRowMeans
    <3> QED
      BY <1>2, <1>3, <2>1, <2>2, <3>1
  <2>3. CASE outbox' = outbox /\ job' = [step |-> "saveRetryCompleted", polled |-> job.polled, row |-> <<a, t>>]
    BY <1>2, <1>3, <1>4, <2>1, <2>3
  <2> QED
    BY <2>1, <2>2, <2>3
<1>7. CASE SaveRetry
  <2> DEFINE n == outbox[a][t].retries + 1
             s == IF n >= MaxRetry THEN "FAILED" ELSE IF job.step = "saveRetry" THEN "PENDING" ELSE "COMPLETED"
  <2>1. /\ UNCHANGED <<order, pc, pointDeducted, cardCharged, payment, applied, late, refund, crashes, overlapped>>
        /\ SetRow(s, n) /\ job' \in {Idle, [step |-> "next", polled |-> job.polled, row |-> None]}
    BY <1>5, <1>7 DEF SaveRetry, JobStep, Counted, Exhausted
  <2>2. n \in 0 .. MaxRetry /\ s \in {"PENDING", "COMPLETED", "FAILED"} /\ (s = "PENDING" => n < MaxRetry)
    BY <1>3, <1>4, MaxRetryAssumption
  <2>3. n = outbox[a][t].retries + 1
    OBVIOUS
  <2> HIDE DEF n, s
  <2>4. /\ outbox' \in [Attempts -> [Types -> Rows]]
        /\ outbox'[a][t].status = s /\ outbox'[a][t].retries = n
        /\ \A b \in Attempts, u \in Types : b # a \/ u # t => outbox'[b][u] = outbox[b][u]
    BY <1>2, <2>1, <2>2, SetRowMeans
  <2> QED
    BY <1>2, <1>3, <2>1, <2>2, <2>3, <2>4
<1> QED
  BY <1>6, <1>7

(* The retry job: what it holds is a row it polled, as the table has it. *)
LEMMA TypeJob ==
  ASSUME TypeOK, JobInv, JobNext \/ SaveRetryFails
  PROVE  TypeOK' /\ JobInv'
<1> DEFINE Jobs == [step : JobSteps, polled : SUBSET (Attempts \X Types), row : (Attempts \X Types) \cup {None}]
<1>0. Idle \in Jobs /\ ~(Idle.step \in {"saveCompleted", "saveRetry", "saveRetryCompleted"}) /\ Idle.polled = {}
  BY DEF Idle, JobSteps
<1>1. CASE Poll
  <2>1. /\ UNCHANGED <<order, pc, pointDeducted, cardCharged, payment, applied, late, outbox, refund, crashes, overlapped>>
        /\ job' \in {Idle, [step |-> "next", polled |-> Pending, row |-> None]}
    BY <1>1 DEF Poll, JobStep
  <2>2. job' \in Jobs
    BY <1>0, <2>1 DEF Pending, JobSteps
  <2>3. TypeOK'
    BY <2>1, <2>2 DEF TypeOK
  <2>4. job'.polled \subseteq Pending /\ ~(job'.step \in {"saveCompleted", "saveRetry", "saveRetryCompleted"})
    BY <1>0, <2>1
  <2>5. \A a \in Attempts, t \in Types : <<a, t>> \in Pending => outbox[a][t].status = "PENDING" /\ outbox[a][t].retries < MaxRetry
    BY DEF Pending
  <2>6. JobInv'
    BY <2>1, <2>4, <2>5 DEF JobInv, InHandOf
  <2> QED
    BY <2>3, <2>6
<1>2. ASSUME NEW a \in Attempts, NEW t \in Types, RetryCall(a, t) PROVE TypeOK' /\ JobInv'
  <2>1. /\ UNCHANGED <<order, pc, pointDeducted, cardCharged, payment, outbox, refund, crashes, overlapped>>
        /\ <<a, t>> \in job.polled
        /\ Happens(a, EffectOf[t]) \/ Fails(a, EffectOf[t]) \/ Refused
        /\ \E s \in {"saveCompleted", "saveRetry"} : job' = [step |-> s, polled |-> job.polled \ {<<a, t>>}, row |-> <<a, t>>]
    BY <1>2 DEF RetryCall, JobStep
  <2>2. EffectOf[t] \in Effects
    BY DEF EffectOf, Types, Effects
  <2>3. applied' \in Counts /\ late' \in Counts
    BY <2>1, <2>2, HappensCalls, FailsCalls, RefusedCalls DEF Called, TypeOK, Counts
  <2>4. job' \in Jobs
    BY <2>1 DEF TypeOK, JobSteps
  <2>5. TypeOK'
    BY <2>1, <2>3, <2>4 DEF TypeOK, Counts
  <2>6. \A b \in Attempts, u \in Types : <<b, u>> \in job'.polled \/ InHandOf(b, u)' => <<b, u>> \in job.polled
    BY <2>1 DEF InHandOf
  <2>7. job'.row \in (Attempts \X Types) \ job'.polled
    BY <2>1
  <2>8. JobInv'
    BY <2>1, <2>6, <2>7 DEF JobInv
  <2> QED
    BY <2>5, <2>8
<1>3. CASE SaveCompleted \/ SaveRetry
  <2>1. PICK a \in Attempts, t \in Types :
           /\ InHandOf(a, t) /\ outbox[a][t].status = "PENDING" /\ outbox[a][t].retries < MaxRetry
           /\ <<a, t>> \notin job.polled
           /\ UNCHANGED <<order, pc, pointDeducted, cardCharged, payment, applied, late, refund, crashes, overlapped>>
           /\ outbox' \in [Attempts -> [Types -> Rows]]
           /\ \A b \in Attempts, u \in Types : b # a \/ u # t => outbox'[b][u] = outbox[b][u]
           /\ \/ /\ outbox' = outbox
                 /\ job' = [step |-> "saveRetryCompleted", polled |-> job.polled, row |-> <<a, t>>]
              \/ job' \in {Idle, [step |-> "next", polled |-> job.polled, row |-> None]}
    BY <1>3, SavedByJob
  <2>2. job' \in Jobs
    BY <1>0, <2>1 DEF TypeOK, JobSteps
  <2>3. TypeOK'
    BY <2>1, <2>2 DEF TypeOK, Rows
  <2>4. CASE job' = [step |-> "saveRetryCompleted", polled |-> job.polled, row |-> <<a, t>>] /\ outbox' = outbox
    <3>1. job'.step = "saveRetryCompleted" /\ job'.row = <<a, t>> /\ job'.polled = job.polled
      BY <2>4
    <3>2. \A b \in Attempts, u \in Types : <<b, u>> \in job'.polled \/ InHandOf(b, u)' => <<b, u>> \in job.polled \/ InHandOf(b, u)
      BY <2>1, <3>1 DEF InHandOf
    <3>3. ASSUME NEW b \in Attempts, NEW u \in Types, <<b, u>> \in job'.polled \/ InHandOf(b, u)'
          PROVE  outbox'[b][u].status = "PENDING" /\ outbox'[b][u].retries < MaxRetry
      BY <2>4, <3>2, <3>3 DEF JobInv
    <3>4. job'.row \in (Attempts \X Types) \ job'.polled
      BY <2>1, <3>1
    <3> QED
      BY <2>3, <3>3, <3>4 DEF JobInv
  <2>5. CASE job' \in {Idle, [step |-> "next", polled |-> job.polled, row |-> None]}
    <3>1. job'.polled \subseteq job.polled /\ ~(job'.step \in {"saveCompleted", "saveRetry", "saveRetryCompleted"})
      BY <1>0, <2>5
    <3>2. \A b \in Attempts, u \in Types : <<b, u>> \in job'.polled => <<b, u>> \in job.polled /\ outbox'[b][u] = outbox[b][u]
      BY <2>1, <3>1
    <3>3. \A b \in Attempts, u \in Types : ~InHandOf(b, u)'
      BY <3>1 DEF InHandOf
    <3>4. ASSUME NEW b \in Attempts, NEW u \in Types, <<b, u>> \in job'.polled \/ InHandOf(b, u)'
          PROVE  outbox'[b][u].status = "PENDING" /\ outbox'[b][u].retries < MaxRetry
      BY <3>2, <3>3, <3>4 DEF JobInv
    <3> QED
      BY <2>3, <3>1, <3>4 DEF JobInv
  <2> QED
    BY <2>1, <2>3, <2>4, <2>5
<1>4. CASE SaveRetryFails
  <2>1. /\ UNCHANGED <<order, pc, pointDeducted, cardCharged, payment, applied, late, outbox, refund, overlapped>>
        /\ job' = Idle /\ crashes' \in 0 .. MaxCrashes
    BY <1>4, MaxCrashesAssumption DEF SaveRetryFails, TypeOK
  <2>2. TypeOK'
    BY <1>0, <2>1 DEF TypeOK
  <2>3. JobInv'
    BY <1>0, <2>1 DEF JobInv, InHandOf
  <2> QED
    BY <2>2, <2>3
<1> QED
  BY <1>1, <1>2, <1>3, <1>4 DEF JobNext

LEMMA TypeRefunder ==
  ASSUME TypeOK, JobInv, RefundInv, NEW r \in Refunders,
         LoadPayment(r) \/ RefundPoints(r) \/ RefundToCard(r) \/ SaveRefunded(r)
  PROVE  TypeOK' /\ JobInv'
<1>1. JobInv'
  BY JobFrame DEF LoadPayment, RefundPoints, RefundToCard, SaveRefunded
<1>2. /\ UNCHANGED <<order, pc, pointDeducted, cardCharged, outbox, job, crashes, overlapped>>
      /\ \E a \in Attempts, s \in RefundSteps : refund' = [refund EXCEPT ![r] = [step |-> s, of |-> a]]
  BY DEF RefundInv, LoadPayment, RefundPoints, RefundToCard, SaveRefunded, RefundStep, RefundSteps, Completed
<1>3. refund' \in [Refunders -> [step : RefundSteps, of : Attempts \cup {None}]]
  BY <1>2 DEF TypeOK
<1>4. payment' \in [Attempts -> {"none", "COMPLETED", "REFUNDED"}]
  BY DEF TypeOK, LoadPayment, RefundPoints, RefundToCard, SaveRefunded, RefundedStatus
<1>5. applied' \in Counts /\ late' \in Counts
  <2>1. applied \in Counts /\ late \in Counts
    BY DEF TypeOK, Counts
  <2>2. CASE LoadPayment(r) \/ SaveRefunded(r)
    BY <2>1, <2>2 DEF LoadPayment, SaveRefunded
  <2>3. CASE RefundPoints(r) \/ RefundToCard(r)
    <3>1. /\ refund[r].of \in Attempts
          /\ \E e \in Effects : Happens(refund[r].of, e) \/ Fails(refund[r].of, e) \/ Refused
      BY <2>3 DEF RefundInv, RefundPoints, RefundToCard, Effects
    <3> QED
      BY <2>1, <3>1, HappensCalls, FailsCalls, RefusedCalls DEF Called
  <2> QED
    BY <2>2, <2>3
<1> QED
  BY <1>1, <1>2, <1>3, <1>4, <1>5 DEF TypeOK, Counts

LEMMA TypeRest ==
  ASSUME TypeOK, JobInv, (\E a \in Attempts, e \in Effects : LateArrives(a, e)) \/ Crash \/ UNCHANGED vars
  PROVE  TypeOK' /\ JobInv'
<1>1. ASSUME NEW a \in Attempts, NEW e \in Effects, LateArrives(a, e) PROVE TypeOK' /\ JobInv'
  <2>1. /\ UNCHANGED <<order, pc, pointDeducted, cardCharged, payment, outbox, job, refund, crashes, overlapped>>
        /\ applied' \in Counts /\ late' \in Counts
    BY <1>1, LateCalls DEF LateArrives, TypeOK, Counts
  <2> QED
    BY <2>1, JobFrame DEF TypeOK, Counts
<1>2. CASE Crash
  <2>1. /\ UNCHANGED <<order, pointDeducted, cardCharged, payment, applied, late, outbox, overlapped>>
        /\ job' = Idle /\ crashes' \in 0 .. MaxCrashes /\ pc' \in [Attempts -> Steps]
    BY <1>2, MaxCrashesAssumption, StepsAre DEF Crash, TypeOK
  <2>2. refund' \in [Refunders -> [step : RefundSteps, of : Attempts \cup {None}]]
    BY <1>2 DEF Crash, TypeOK, RefundSteps
  <2>3. /\ Idle \in [step : JobSteps, polled : SUBSET (Attempts \X Types), row : (Attempts \X Types) \cup {None}]
        /\ Idle.step = "idle" /\ Idle.polled = {}
    BY DEF Idle, JobSteps
  <2>4. JobInv'
    BY <2>1, <2>3 DEF JobInv, InHandOf
  <2> QED
    BY <2>1, <2>2, <2>3, <2>4 DEF TypeOK
<1>3. CASE UNCHANGED vars
  BY <1>3, JobFrame DEF vars, TypeOK
<1> QED
  BY <1>1, <1>2, <1>3

LEMMA TypeStep ==
  ASSUME TypeOK, JobInv, RefundInv, [Next]_vars
  PROVE  TypeOK' /\ JobInv'
  BY TypeAttempt, TypeSaveFailed, TypeJob, TypeRefunder, TypeRest DEF Next, AttemptStep, RefunderStep, AllSettled

-----------------------------------------------------------------------------
(* Rows of the outbox, payments, refunds *)

LEMMA BeforeMeans ==
  /\ Before("use") = {"idle", "check", "points"}
  /\ Before("charge") = {"idle", "check", "points", "card"}
  /\ Before("refund") = {"idle", "check", "points", "card", "save", "refundCard"}
  /\ Before("cancel") = {"idle", "check", "points", "card", "save", "refundCard", "CARD_REFUND", "cancelPoints"}
  /\ Before("restock") = {"idle", "check", "points", "card", "save", "refundCard", "CARD_REFUND", "cancelPoints",
                          "POINT_RESTORE", "restoreStock"}
  /\ Before("revoke") = {"idle", "check", "points", "card", "save", "refundCard", "CARD_REFUND", "cancelPoints",
                         "POINT_RESTORE", "restoreStock", "revokeEarn"}
  BY DEF Before

LEMMA EffectOfMeans ==
  /\ EffectOf["CARD_REFUND"] = "refund" /\ EffectOf["POINT_RESTORE"] = "cancel"
  /\ EffectOf["STOCK_RESTORE"] = "restock" /\ EffectOf["POINT_EARN_REVOKE"] = "revoke"
  BY DEF EffectOf

(* The steps of an attempt, in the order it takes them. *)
LEMMA AttemptMoves ==
  ASSUME TypeOK, NEW a \in Attempts, Start(a) \/ AttemptStep(a)
  PROVE  /\ \A b \in Attempts \ {a} : pc'[b] = pc[b]
         /\ \/ pc[a] = "idle" /\ pc'[a] = "check"
            \/ pc[a] = "check" /\ pc'[a] \in {"points", "ok", "rejected"}
            \/ pc[a] = "points" /\ pc'[a] \in {"card", "refundCard"}
            \/ pc[a] = "card" /\ pc'[a] \in {"save", "refundCard"}
            \/ pc[a] = "save" /\ pc'[a] \in {"ok", "refundCard"}
            \/ pc[a] = "refundCard" /\ pc'[a] \in {"cancelPoints", "CARD_REFUND"}
            \/ pc[a] = "CARD_REFUND" /\ pc'[a] \in {"cancelPoints", "escaped"}
            \/ pc[a] = "cancelPoints" /\ pc'[a] \in {"restoreStock", "POINT_RESTORE"}
            \/ pc[a] = "POINT_RESTORE" /\ pc'[a] \in {"restoreStock", "escaped"}
            \/ pc[a] = "restoreStock" /\ pc'[a] = "revokeEarn"
            \/ pc[a] = "revokeEarn" /\ pc'[a] \in {"failed", "POINT_EARN_REVOKE"}
            \/ pc[a] = "POINT_EARN_REVOKE" /\ pc'[a] \in {"failed", "escaped"}
<1>1. CASE SaveFailedCompensation(a)
  BY <1>1, SavedRow, StepsAre DEF TypeOK
<1>2. CASE ~SaveFailedCompensation(a)
  BY <1>2 DEF TypeOK, AttemptStep, Goto, Start, CheckCompleted, UsePoints, ChargeCard, SavePayment, RefundCard,
     CancelPoints, RestoreStock, RevokeEarn
<1> QED
  BY <1>1, <1>2

(* Who else moves an attempt. *)
LEMMA OthersStay ==
  ASSUME [Next]_vars, \A a \in Attempts : ~Start(a) /\ ~AttemptStep(a)
  PROVE  Crash \/ pc' = pc
  BY DEF Next, LateArrives, JobNext, Poll, RetryCall, SaveCompleted, SaveRetry, SaveRetryFails, LoadPayment, RefunderStep,
     RefundPoints, RefundToCard, SaveRefunded, AllSettled, vars

LEMMA CrashMoves ==
  ASSUME TypeOK, Crash, NEW a \in Attempts
  PROVE  /\ pc'[a] = pc[a] \/ pc'[a] = "dead"
         /\ pc[a] \in Ended \cup {"idle"} => pc'[a] = pc[a]
         /\ pc'[a] \in Ended \cup {"idle"}
  BY DEF Crash, TypeOK, Ended

(* A step to which an effect is still to come comes after steps to which it was. *)
LEMMA StillBefore ==
  ASSUME TypeOK, [Next]_vars, NEW a \in Attempts, NEW e \in Effects, pc'[a] \in Before(e)
  PROVE  pc[a] \in Before(e)
<1>1. CASE \E b \in Attempts : Start(b) \/ AttemptStep(b)
  <2>1. PICK b \in Attempts : Start(b) \/ AttemptStep(b)
    BY <1>1
  <2>2. CASE a # b
    BY <2>1, <2>2, AttemptMoves
  <2>3. CASE a = b
    <3>1. e \in {"use", "charge", "refund", "cancel", "restock", "revoke"}
      BY DEF Effects
    <3> QED
      BY <2>1, <2>3, <3>1, AttemptMoves, BeforeMeans
  <2> QED
    BY <2>2, <2>3
<1>2. CASE \A b \in Attempts : ~Start(b) /\ ~AttemptStep(b)
  <2>1. pc'[a] = pc[a] \/ pc'[a] = "dead"
    BY <1>2, OthersStay, CrashMoves
  <2>2. "dead" \notin Before(e)
    BY BeforeMeans DEF Effects
  <2> QED
    BY <2>1, <2>2
<1> QED
  BY <1>1, <1>2

(* The steps at which an attempt has no row of type t. *)
NoRowYet(t) == Before(EffectOf[t]) \cup {t, "ok", "rejected"}

LEMMA StillNoRow ==
  ASSUME TypeOK, [Next]_vars, NEW a \in Attempts, NEW t \in Types, pc'[a] \in NoRowYet(t)
  PROVE  pc[a] \in NoRowYet(t) /\ ~(SaveFailedCompensation(a) /\ pc[a] = t)
<1>1. t \in {"CARD_REFUND", "POINT_RESTORE", "STOCK_RESTORE", "POINT_EARN_REVOKE"}
  BY DEF Types
<1>2. CASE \E b \in Attempts : Start(b) \/ AttemptStep(b)
  <2>1. PICK b \in Attempts : Start(b) \/ AttemptStep(b)
    BY <1>2
  <2>2. CASE a # b
    <3>1. pc'[a] = pc[a]
      BY <2>1, <2>2, AttemptMoves
    <3>2. ~(SaveFailedCompensation(a) /\ pc[a] = t)
      BY <3>1, <1>1, AttemptMoves DEF AttemptStep
    <3> QED
      BY <3>1, <3>2
  <2>3. CASE a = b
    BY <1>1, <2>1, <2>3, AttemptMoves, BeforeMeans, EffectOfMeans DEF NoRowYet
  <2> QED
    BY <2>2, <2>3
<1>3. CASE \A b \in Attempts : ~Start(b) /\ ~AttemptStep(b)
  <2>1. CASE pc' = pc
    BY <1>3, <2>1 DEF AttemptStep
  <2>2. CASE Crash
    <3>1. pc'[a] = pc[a]
      BY <1>1, <2>2, CrashMoves, BeforeMeans, EffectOfMeans DEF NoRowYet
    <3> QED
      BY <1>3, <3>1 DEF AttemptStep
  <2> QED
    BY <1>3, <2>1, <2>2, OthersStay
<1> QED
  BY <1>2, <1>3

(* What writes to the outbox. *)
LEMMA OutboxChanges ==
  ASSUME TypeOK, JobInv, [Next]_vars
  PROVE  \/ outbox' = outbox
         \/ \E a \in Attempts : SaveFailedCompensation(a)
         \/ SaveCompleted \/ SaveRetry
  BY DEF Next, AttemptStep, Start, CheckCompleted, UsePoints, ChargeCard, SavePayment, RefundCard, CancelPoints, RestoreStock,
     RevokeEarn, LateArrives, JobNext, Poll, RetryCall, SaveRetryFails, LoadPayment, RefunderStep, RefundPoints, RefundToCard,
     SaveRefunded, Crash, AllSettled, vars

LEMMA RowsStep ==
  ASSUME TypeOK, JobInv, RowsInv, [Next]_vars
  PROVE  RowsInv'
<1> SUFFICES ASSUME NEW a \in Attempts, NEW t \in Types, t = "STOCK_RESTORE" \/ pc'[a] \in NoRowYet(t)
             PROVE  outbox'[a][t].status = "none"
  BY DEF RowsInv, NoRowYet
<1>1. t = "STOCK_RESTORE" \/ (pc[a] \in NoRowYet(t) /\ ~(SaveFailedCompensation(a) /\ pc[a] = t))
  BY StillNoRow
<1>2. outbox[a][t].status = "none"
  BY <1>1 DEF RowsInv, NoRowYet
<1>3. ASSUME NEW b \in Attempts, SaveFailedCompensation(b) PROVE outbox'[a][t] = outbox[a][t]
  <2>1. pc[b] # "STOCK_RESTORE"
    BY <1>3, SavedRow
  <2>2. b # a \/ t # pc[b]
    BY <1>1, <1>3, <2>1
  <2> QED
    BY <1>3, <2>2, SavedRow
<1>4. CASE SaveCompleted \/ SaveRetry
  <2>1. PICK b \in Attempts, u \in Types : /\ outbox[b][u].status = "PENDING"
                                           /\ \A c \in Attempts, v \in Types : c # b \/ v # u => outbox'[c][v] = outbox[c][v]
    BY <1>4, SavedByJob
  <2> QED
    BY <1>2, <2>1
<1> QED
  BY <1>2, <1>3, <1>4, OutboxChanges

(* What moves a refund. *)
LEMMA RefundChanges ==
  ASSUME [Next]_vars
  PROVE  refund' = refund \/ Crash \/ \E r \in Refunders : LoadPayment(r) \/ RefunderStep(r)
  BY DEF Next, AttemptStep, Start, CheckCompleted, UsePoints, ChargeCard, SavePayment, RefundCard, CancelPoints, RestoreStock,
     RevokeEarn, SaveFailedCompensation, LateArrives, JobNext, Poll, RetryCall, SaveCompleted, SaveRetry, SaveRetryFails,
     AllSettled, vars

LEMMA OrderStays == ASSUME [Next]_vars PROVE order' = order
  BY DEF Next, AttemptStep, Start, CheckCompleted, UsePoints, ChargeCard, SavePayment, RefundCard, CancelPoints,
     RestoreStock, RevokeEarn, SaveFailedCompensation, LateArrives, JobNext, Poll, RetryCall, SaveCompleted, SaveRetry,
     SaveRetryFails, LoadPayment, RefunderStep, RefundPoints, RefundToCard, SaveRefunded, Crash, AllSettled, vars

LEMMA PaymentStays ==
  ASSUME TypeOK, RefundInv, [Next]_vars, NEW a \in Attempts
  PROVE  /\ payment[a] # "none" => payment'[a] # "none"
         /\ payment'[a] # "none" /\ ~(SavePayment(a) /\ pc'[a] = "ok") => payment[a] # "none"
         /\ payment'[a] = "COMPLETED" /\ ~(SavePayment(a) /\ pc'[a] = "ok") => payment[a] = "COMPLETED"
<1>1. CASE \E b \in Attempts : SavePayment(b)
  BY <1>1 DEF SavePayment, TypeOK, Goto
<1>2. CASE \E r \in Refunders : SaveRefunded(r)
  BY <1>2 DEF SaveRefunded, RefundInv, TypeOK, RefundedStatus
<1>3. CASE (\A b \in Attempts : ~SavePayment(b)) /\ \A r \in Refunders : ~SaveRefunded(r)
  <2>1. payment' = payment
    BY <1>3 DEF Next, AttemptStep, Start, CheckCompleted, UsePoints, ChargeCard, RefundCard, CancelPoints,
       RestoreStock, RevokeEarn, SaveFailedCompensation, LateArrives, JobNext, Poll, RetryCall, SaveCompleted, SaveRetry,
       SaveRetryFails, LoadPayment, RefunderStep, RefundPoints, RefundToCard, Crash, AllSettled, vars
  <2> QED
    BY <2>1
<1> QED
  BY <1>1, <1>2, <1>3

LEMMA RefundInvStep ==
  ASSUME TypeOK, RefundInv, [Next]_vars
  PROVE  RefundInv'
<1> SUFFICES ASSUME NEW r \in Refunders, refund'[r].step \in {"points", "card", "save"}
             PROVE  refund'[r].of \in Attempts /\ payment'[refund'[r].of] # "none"
  BY DEF RefundInv
<1>1. \/ refund[r].of = refund'[r].of /\ refund[r].step \in {"points", "card", "save"}
      \/ refund'[r].of \in Completed
  <2>1. CASE \E q \in Refunders : LoadPayment(q) \/ RefunderStep(q)
    <3>1. PICK q \in Refunders : LoadPayment(q) \/ RefunderStep(q)
      BY <2>1
    <3>2. PICK s \in RefundSteps, a \in Attempts \cup {None} :
            /\ refund' = [refund EXCEPT ![q] = [step |-> s, of |-> a]]
            /\ \/ a \in Completed
               \/ a = refund[q].of /\ refund[q].step \in {"points", "card", "save"}
      BY <3>1 DEF TypeOK, LoadPayment, RefunderStep, RefundPoints, RefundToCard, SaveRefunded, RefundStep, RefundSteps, Completed
    <3>3. refund \in [Refunders -> [step : RefundSteps, of : Attempts \cup {None}]]
      BY DEF TypeOK
    <3>4. CASE r = q
      BY <3>2, <3>3, <3>4
    <3>5. CASE r # q
      BY <3>2, <3>3, <3>5
    <3> QED
      BY <3>4, <3>5
  <2>2. CASE Crash
    BY <2>2 DEF Crash, TypeOK
  <2>3. CASE refund' = refund
    BY <2>3
  <2> QED
    BY <2>1, <2>2, <2>3, RefundChanges
<1>2. refund'[r].of \in Attempts /\ payment[refund'[r].of] # "none"
  BY <1>1 DEF RefundInv, Completed
<1> QED
  BY <1>2, PaymentStays

-----------------------------------------------------------------------------
(* Effects *)

(* Who makes a call, for whom. *)
LEMMA EffectChanges ==
  ASSUME TypeOK, RefundInv, [Next]_vars
  PROVE  \/ applied' = applied /\ late' = late
         \/ \E a \in Attempts, e \in Effects : Called(a, e) \/ LateArrives(a, e)
<1>1. applied \in Counts /\ late \in Counts
  BY DEF TypeOK, Counts
<1>2. ASSUME NEW a \in Attempts, UsePoints(a) \/ ChargeCard(a) \/ RefundCard(a) \/ CancelPoints(a) \/ RestoreStock(a) \/ RevokeEarn(a)
      PROVE  \E e \in Effects : Called(a, e)
  <2>1. \E e \in Effects : Happens(a, e) \/ Fails(a, e) \/ Refused
    BY <1>2 DEF UsePoints, ChargeCard, RefundCard, CancelPoints, RestoreStock, RevokeEarn, Effects
  <2> QED
    BY <1>1, <2>1, HappensCalls, FailsCalls, RefusedCalls
<1>3. ASSUME NEW a \in Attempts, NEW t \in Types, RetryCall(a, t) PROVE Called(a, EffectOf[t]) /\ EffectOf[t] \in Effects
  <2>1. Happens(a, EffectOf[t]) \/ Fails(a, EffectOf[t]) \/ Refused
    BY <1>3 DEF RetryCall
  <2>2. EffectOf[t] \in Effects
    BY EffectOfMeans DEF Types, Effects
  <2> QED
    BY <1>1, <2>1, <2>2, HappensCalls, FailsCalls, RefusedCalls
<1>4. ASSUME NEW r \in Refunders, RefundPoints(r) \/ RefundToCard(r)
      PROVE  \E a \in Attempts, e \in Effects : Called(a, e)
  <2>1. /\ refund[r].of \in Attempts
        /\ \E e \in Effects : Happens(refund[r].of, e) \/ Fails(refund[r].of, e) \/ Refused
    BY <1>4 DEF RefundInv, RefundPoints, RefundToCard, Effects
  <2> QED
    BY <1>1, <2>1, HappensCalls, FailsCalls, RefusedCalls
<1>5. \/ applied' = applied /\ late' = late
      \/ \E a \in Attempts : UsePoints(a) \/ ChargeCard(a) \/ RefundCard(a) \/ CancelPoints(a) \/ RestoreStock(a) \/ RevokeEarn(a)
      \/ \E a \in Attempts, t \in Types : RetryCall(a, t)
      \/ \E r \in Refunders : RefundPoints(r) \/ RefundToCard(r)
      \/ \E a \in Attempts, e \in Effects : LateArrives(a, e)
  BY DEF Next, AttemptStep, Start, CheckCompleted, SavePayment, SaveFailedCompensation, JobNext, Poll, SaveCompleted, SaveRetry,
     SaveRetryFails, LoadPayment, RefunderStep, SaveRefunded, Crash, AllSettled, vars
<1> QED
  BY <1>2, <1>3, <1>4, <1>5

LEMMA AppliedGrows ==
  ASSUME TypeOK, RefundInv, [Next]_vars, NEW a \in Attempts, NEW e \in Effects
  PROVE  applied[a][e] \in Nat /\ applied'[a][e] \in Nat /\ applied'[a][e] >= applied[a][e]
<1>1. applied \in Counts /\ late \in Counts
  BY DEF TypeOK, Counts
<1>2. CASE applied' = applied /\ late' = late
  BY <1>1, <1>2 DEF Counts
<1>3. ASSUME NEW b \in Attempts, NEW f \in Effects, Called(b, f) \/ LateArrives(b, f)
      PROVE  applied'[a][e] \in Nat /\ applied'[a][e] >= applied[a][e]
  <2>1. /\ applied' \in Counts
        /\ b # a \/ f # e => applied'[a][e] = applied[a][e]
        /\ applied'[b][f] \in {applied[b][f], applied[b][f] + 1}
    BY <1>1, <1>3, LateCalls DEF Called
  <2> QED
    BY <1>1, <2>1 DEF Counts
<1> QED
  BY <1>1, <1>2, <1>3, EffectChanges DEF Counts

LEMMA UndoneStays ==
  ASSUME TypeOK, JobInv, RefundInv, [Next]_vars, NEW a \in Attempts, NEW e \in Effects, NEW t \in Types, Undone(a, e, t)
  PROVE  Undone(a, e, t)'
<1>1. applied[a][e] > 0 => applied'[a][e] > 0
  BY AppliedGrows
<1>2. outbox[a][t].status # "none" => outbox'[a][t].status # "none"
  <2>1. ASSUME NEW b \in Attempts, SaveFailedCompensation(b), outbox[a][t].status # "none" PROVE outbox'[a][t].status # "none"
    BY <2>1, SavedRow
  <2>2. ASSUME SaveCompleted \/ SaveRetry, outbox[a][t].status # "none" PROVE outbox'[a][t].status # "none"
    <3>1. PICK b \in Attempts, u \in Types :
            /\ outbox[b][u].status = "PENDING"
            /\ \A c \in Attempts, v \in Types : c # b \/ v # u => outbox'[c][v] = outbox[c][v]
            /\ \/ outbox' = outbox
               \/ outbox'[b][u].status \in {"COMPLETED", "FAILED"}
               \/ outbox'[b][u].status = "PENDING"
      BY <2>2, SavedByJob
    <3> QED
      BY <2>2, <3>1
  <2> QED
    BY <2>1, <2>2, OutboxChanges
<1> QED
  BY <1>1, <1>2 DEF Undone

(* The flags are set before the catch block. *)
LEMMA FlagsStay ==
  ASSUME TypeOK, [Next]_vars, NEW a \in Attempts, pc'[a] \notin {"card", "save"}
  PROVE  pointDeducted'[a] = pointDeducted[a] /\ cardCharged'[a] = cardCharged[a]
<1>1. CASE \E b \in Attempts : UsePoints(b) \/ ChargeCard(b)
  BY <1>1 DEF UsePoints, ChargeCard, TypeOK, Goto
<1>2. CASE \A b \in Attempts : ~UsePoints(b) /\ ~ChargeCard(b)
  BY <1>2 DEF Next, AttemptStep, Start, CheckCompleted, SavePayment, RefundCard, CancelPoints, RestoreStock, RevokeEarn,
     SaveFailedCompensation, LateArrives, JobNext, Poll, RetryCall, SaveCompleted, SaveRetry,
     SaveRetryFails, LoadPayment, RefunderStep, RefundPoints, RefundToCard, SaveRefunded, Crash, AllSettled, vars
<1> QED
  BY <1>1, <1>2

LEMMA KnownStep ==
  ASSUME TypeOK, JobInv, RefundInv, KnownInv, [Next]_vars
  PROVE  KnownInv'
<1> SUFFICES ASSUME NEW a \in Attempts PROVE KnownOf(a)'
  BY DEF KnownInv
<1> DEFINE Card == Undone(a, "refund", "CARD_REFUND")
           Points == Undone(a, "cancel", "POINT_RESTORE")
           Earned == Undone(a, "revoke", "POINT_EARN_REVOKE")
           Passed == {"cancelPoints", "POINT_RESTORE", "restoreStock", "revokeEarn", "POINT_EARN_REVOKE", "failed"}
<1>1. KnownOf(a)
  BY DEF KnownInv
<1>2. (Card => Card') /\ (Points => Points') /\ (Earned => Earned')
  BY UndoneStays DEF Effects, Types
<1>3. applied \in Counts /\ late \in Counts
  BY DEF TypeOK, Counts
<1>4. CASE pc'[a] \notin Passed
  BY <1>4 DEF KnownOf
<1>5. CASE pc'[a] \in Passed /\ pc'[a] = pc[a]
  BY <1>1, <1>2, <1>5, FlagsStay DEF KnownOf
<1>6. CASE pc'[a] \in Passed /\ pc'[a] # pc[a]
  <2>1. pointDeducted'[a] = pointDeducted[a] /\ cardCharged'[a] = cardCharged[a]
    BY <1>6, FlagsStay
  <2>2. Start(a) \/ AttemptStep(a)
    <3>1. CASE \E b \in Attempts : Start(b) \/ AttemptStep(b)
      BY <1>6, <3>1, AttemptMoves
    <3>2. CASE \A b \in Attempts : ~Start(b) /\ ~AttemptStep(b)
      BY <1>6, <3>2, OthersStay, CrashMoves
    <3> QED
      BY <3>1, <3>2
  <2>3. CASE RefundCard(a)
    <3>1. pc'[a] = "cancelPoints" => ~cardCharged[a] \/ Happens(a, "refund")
      BY <2>3 DEF RefundCard, Goto, TypeOK
    <3>2. Happens(a, "refund") => Card'
      BY <1>3, HappensCalls DEF Undone, Effects, Counts
    <3> QED
      BY <1>6, <2>1, <2>2, <2>3, <3>1, <3>2, AttemptMoves DEF KnownOf, RefundCard
  <2>4. CASE CancelPoints(a)
    <3>1. pc'[a] = "restoreStock" => ~pointDeducted[a] \/ Happens(a, "cancel")
      BY <2>4 DEF CancelPoints, Goto, TypeOK
    <3>2. Happens(a, "cancel") => Points'
      BY <1>3, HappensCalls DEF Undone, Effects, Counts
    <3> QED
      BY <1>1, <1>2, <1>6, <2>1, <2>2, <2>4, <3>1, <3>2, AttemptMoves DEF KnownOf, CancelPoints
  <2>5. CASE RevokeEarn(a)
    <3>1. pc'[a] = "failed" => Happens(a, "revoke")
      BY <2>5 DEF RevokeEarn, Goto, TypeOK
    <3>2. Happens(a, "revoke") => Earned'
      BY <1>3, HappensCalls DEF Undone, Effects, Counts
    <3> QED
      BY <1>1, <1>2, <1>6, <2>1, <2>2, <2>5, <3>1, <3>2, AttemptMoves DEF KnownOf, RevokeEarn
  <2>6. CASE SaveFailedCompensation(a)
    <3>1. /\ pc[a] = "CARD_REFUND" => Card' /\ pc'[a] = "cancelPoints"
          /\ pc[a] = "POINT_RESTORE" => Points' /\ pc'[a] = "restoreStock"
          /\ pc[a] = "POINT_EARN_REVOKE" => Earned' /\ pc'[a] = "failed"
      BY <1>6, <2>6, SavedRow, StepsAre DEF Undone, TypeOK
    <3> QED
      BY <1>1, <1>2, <1>6, <2>1, <2>2, <2>6, <3>1, AttemptMoves, SavedRow DEF KnownOf
  <2>7. CASE RestoreStock(a)
    BY <1>1, <1>2, <1>6, <2>1, <2>2, <2>7, AttemptMoves DEF KnownOf, RestoreStock
  <2> QED
    BY <1>6, <2>2, <2>3, <2>4, <2>5, <2>6, <2>7, AttemptMoves DEF AttemptStep, Start, CheckCompleted, UsePoints, ChargeCard, SavePayment
<1> QED
  BY <1>4, <1>5, <1>6

-----------------------------------------------------------------------------
(* What an attempt has done *)

LEMMA RefundingStays ==
  ASSUME TypeOK, [Next]_vars, NEW a \in Attempts, Refunding(a)
  PROVE  Refunding(a)'
<1>1. PICK r \in Refunders : refund[r].step # "idle" /\ refund[r].of = a
  BY DEF Refunding
<1>2. refund'[r].step # "idle" /\ refund'[r].of = a
  <2>1. CASE \E q \in Refunders : LoadPayment(q) \/ RefunderStep(q)
    <3>1. PICK q \in Refunders : LoadPayment(q) \/ RefunderStep(q)
      BY <2>1
    <3>2. q = r => RefunderStep(r)
      BY <1>1, <3>1 DEF LoadPayment
    <3>3. CASE q = r
      BY <1>1, <3>2, <3>3 DEF RefunderStep, RefundPoints, RefundToCard, SaveRefunded, RefundStep, TypeOK
    <3>4. CASE q # r
      BY <1>1, <3>1, <3>4 DEF LoadPayment, RefunderStep, RefundPoints, RefundToCard, SaveRefunded, RefundStep, TypeOK
    <3> QED
      BY <3>3, <3>4
  <2>2. CASE Crash
    BY <1>1, <2>2 DEF Crash, TypeOK
  <2> QED
    BY <1>1, <2>1, <2>2, RefundChanges
<1> QED
  BY <1>2 DEF Refunding

(* An attempt nobody does anything for. *)
LEMMA CountFrame ==
  ASSUME TypeOK, NEW a \in Attempts, CountOf(a), pc'[a] = pc[a], payment'[a] # "none" => payment[a] # "none", order' = order,
         \A e \in Effects : applied'[a][e] = applied[a][e] /\ late'[a][e] = late[a][e],
         Refunding(a) => Refunding(a)'
  PROVE  CountOf(a)'
  BY DEF CountOf, Total, Effects, DeductsPoints, ChargesCard

(* The steps of an attempt that make no call. *)
LEMMA CountLocal ==
  ASSUME TypeOK, CountInv, [Next]_vars, NEW a \in Attempts,
         Start(a) \/ CheckCompleted(a) \/ SavePayment(a) \/ SaveFailedCompensation(a)
  PROVE  CountOf(a)'
<1>1. applied \in Counts /\ late \in Counts /\ CountOf(a)
  BY DEF TypeOK, Counts, CountInv
<1>2. applied' = applied /\ late' = late /\ order' = order
  BY SavedRow DEF Start, CheckCompleted, SavePayment
<1>3. \A e \in Effects : pc'[a] \in Before(e) => Total(a, e)' = 0
  BY <1>1, <1>2, StillBefore DEF CountOf, Total
<1>4. pc[a] \in {"idle", "check", "save", "CARD_REFUND", "POINT_RESTORE", "POINT_EARN_REVOKE"}
  BY SavedRow DEF Start, CheckCompleted, SavePayment
<1>5. payment[a] = "none"
  BY <1>1, <1>4 DEF CountOf
<1>6. pc'[a] = "ok" => pc[a] \in {"check", "save"}
  BY <1>4, AttemptMoves DEF AttemptStep
<1>7. payment'[a] # "none" => pc[a] = "save" /\ pc'[a] = "ok"
  BY <1>5, SavedRow DEF Start, CheckCompleted, SavePayment, TypeOK, Goto
<1>8. pc'[a] \notin {"card", "save"}
  BY <1>4, AttemptMoves DEF AttemptStep
<1>9. pc[a] \in {"check", "save"} => /\ Total(a, "restock") = 0 /\ Total(a, "revoke") = 0
                                     /\ Total(a, "cancel") = 0 /\ Total(a, "refund") = 0
  BY <1>1, BeforeMeans DEF CountOf, Effects
<1> QED
  BY <1>1, <1>2, <1>3, <1>6, <1>7, <1>8, <1>9 DEF CountOf, Total, DeductsPoints, ChargesCard

(* The steps of an attempt that call. *)
LEMMA CountCall ==
  ASSUME TypeOK, CountInv, [Next]_vars, NEW a \in Attempts, NEW e \in Effects, Called(a, e),
         UNCHANGED <<order, payment, refund>>, Start(a) \/ AttemptStep(a),
         pc[a] \in {"points", "card", "refundCard", "cancelPoints", "restoreStock", "revokeEarn"}, pc'[a] \notin Before(e),
         e \in {"charge", "refund"} => late' = late,
         pc'[a] = "card" => e = "use" /\ applied'[a]["use"] = (IF DeductsPoints THEN 1 ELSE 0) /\ late' = late,
         pc'[a] = "save" => e = "charge" /\ applied'[a]["charge"] = (IF ChargesCard THEN 1 ELSE 0)
  PROVE  CountOf(a)'
<1>1. applied \in Counts /\ late \in Counts /\ CountOf(a)
  BY DEF TypeOK, Counts, CountInv
<1>2. payment'[a] = "none" /\ pc'[a] # "ok" /\ order' = order
  BY <1>1, AttemptMoves DEF CountOf
<1>3. \A f \in Effects \ {e} : applied'[a][f] = applied[a][f] /\ late'[a][f] = late[a][f]
  BY DEF Called
<1>4. \A f \in Effects : pc'[a] \in Before(f) => Total(a, f)' = 0
  BY <1>1, <1>3, StillBefore DEF CountOf, Total
<1>5. late'[a]["charge"] = 0 /\ late'[a]["refund"] = 0
  BY <1>1, <1>3 DEF CountOf, Effects
<1>6. pc'[a] = "card" => applied'[a]["use"] = (IF DeductsPoints' THEN 1 ELSE 0) /\ late'[a]["use"] = 0
  <2>1. pc'[a] = "card" => pc[a] = "points"
    BY AttemptMoves
  <2>2. pc[a] = "points" => Total(a, "use") = 0
    BY <1>1, BeforeMeans DEF CountOf, Effects
  <2> QED
    BY <1>1, <1>2, <2>1, <2>2 DEF Total, Counts, Effects, DeductsPoints, ChargesCard
<1>7. pc'[a] = "save" => /\ applied'[a]["use"] = (IF DeductsPoints' THEN 1 ELSE 0) /\ late'[a]["use"] = 0
                         /\ applied'[a]["charge"] = (IF ChargesCard' THEN 1 ELSE 0)
  <2>1. pc'[a] = "save" => pc[a] = "card"
    BY AttemptMoves
  <2> QED
    BY <1>1, <1>2, <1>3, <2>1 DEF CountOf, Effects, DeductsPoints, ChargesCard
<1> QED
  BY <1>2, <1>4, <1>5, <1>6, <1>7 DEF CountOf, DeductsPoints, ChargesCard

LEMMA CountCalls ==
  ASSUME TypeOK, CountInv, [Next]_vars, NEW a \in Attempts,
         UsePoints(a) \/ ChargeCard(a) \/ RefundCard(a) \/ CancelPoints(a) \/ RestoreStock(a) \/ RevokeEarn(a)
  PROVE  CountOf(a)' /\ \E e \in Effects : Called(a, e)
<1>1. applied \in Counts /\ late \in Counts /\ CountOf(a)
  BY DEF TypeOK, Counts, CountInv
<1>2. /\ "use" \in Effects /\ "charge" \in Effects /\ "refund" \in Effects /\ "cancel" \in Effects
      /\ "restock" \in Effects /\ "revoke" \in Effects
  BY DEF Effects
<1>3. AttemptStep(a)
  BY DEF AttemptStep
<1>4. CASE UsePoints(a)
  <2>1. /\ pc[a] = "points" /\ UNCHANGED <<order, payment, refund>> /\ pc'[a] \in {"card", "refundCard"}
        /\ pc'[a] = "card" => \/ ~DeductsPoints /\ Refused
                              \/ DeductsPoints /\ Happens(a, "use")
        /\ Happens(a, "use") \/ Fails(a, "use") \/ Refused
    BY <1>4 DEF UsePoints, Goto, TypeOK
  <2>2. Called(a, "use")
    BY <1>1, <1>2, <2>1, HappensCalls, FailsCalls, RefusedCalls
  <2>3. Total(a, "use") = 0 /\ applied[a]["use"] = 0
    BY <1>1, <1>2, <2>1, BeforeMeans DEF CountOf, Total, Counts
  <2>4. pc'[a] = "card" => applied'[a]["use"] = (IF DeductsPoints THEN 1 ELSE 0) /\ late' = late
    BY <1>1, <1>2, <2>1, <2>3, HappensCalls DEF Refused
  <2>5. pc'[a] \notin Before("use")
    BY <2>1, BeforeMeans
  <2> QED
    BY <1>2, <1>3, <2>1, <2>2, <2>4, <2>5, CountCall
<1>5. CASE ChargeCard(a)
  <2>1. /\ pc[a] = "card" /\ UNCHANGED <<order, payment, refund>> /\ pc'[a] \in {"save", "refundCard"}
        /\ pc'[a] = "save" => \/ ~ChargesCard /\ Refused
                              \/ ChargesCard /\ Happens(a, "charge")
        /\ Happens(a, "charge") \/ Refused
    BY <1>5 DEF ChargeCard, Goto, TypeOK
  <2>2. Called(a, "charge") /\ late' = late
    BY <1>1, <1>2, <2>1, HappensCalls, RefusedCalls
  <2>3. Total(a, "charge") = 0 /\ applied[a]["charge"] = 0
    BY <1>1, <1>2, <2>1, BeforeMeans DEF CountOf, Total, Counts
  <2>4. pc'[a] = "save" => applied'[a]["charge"] = (IF ChargesCard THEN 1 ELSE 0)
    BY <1>1, <1>2, <2>1, <2>3, HappensCalls DEF Refused
  <2>5. pc'[a] \notin Before("charge")
    BY <2>1, BeforeMeans
  <2> QED
    BY <1>2, <1>3, <2>1, <2>2, <2>4, <2>5, CountCall
<1>6. CASE RefundCard(a)
  <2>1. /\ pc[a] = "refundCard" /\ UNCHANGED <<order, payment, refund>> /\ pc'[a] \in {"cancelPoints", "CARD_REFUND"}
        /\ Happens(a, "refund") \/ Refused
    BY <1>6 DEF RefundCard, Goto, TypeOK
  <2>2. Called(a, "refund") /\ late' = late
    BY <1>1, <1>2, <2>1, HappensCalls, RefusedCalls
  <2>3. pc'[a] \notin Before("refund")
    BY <2>1, BeforeMeans
  <2> QED
    BY <1>2, <1>3, <2>1, <2>2, <2>3, CountCall
<1>7. CASE CancelPoints(a)
  <2>1. /\ pc[a] = "cancelPoints" /\ UNCHANGED <<order, payment, refund>> /\ pc'[a] \in {"restoreStock", "POINT_RESTORE"}
        /\ Happens(a, "cancel") \/ Fails(a, "cancel") \/ Refused
    BY <1>7 DEF CancelPoints, Goto, TypeOK
  <2>2. Called(a, "cancel")
    BY <1>1, <1>2, <2>1, HappensCalls, FailsCalls, RefusedCalls
  <2>3. pc'[a] \notin Before("cancel")
    BY <2>1, BeforeMeans
  <2> QED
    BY <1>2, <1>3, <2>1, <2>2, <2>3, CountCall
<1>8. CASE RestoreStock(a)
  <2>1. /\ pc[a] = "restoreStock" /\ UNCHANGED <<order, payment, refund>> /\ pc'[a] = "revokeEarn"
        /\ Happens(a, "restock") \/ Fails(a, "restock") \/ Refused
    BY <1>8 DEF RestoreStock, Goto, TypeOK
  <2>2. Called(a, "restock")
    BY <1>1, <1>2, <2>1, HappensCalls, FailsCalls, RefusedCalls
  <2>3. pc'[a] \notin Before("restock")
    BY <2>1, BeforeMeans
  <2> QED
    BY <1>2, <1>3, <2>1, <2>2, <2>3, CountCall
<1>9. CASE RevokeEarn(a)
  <2>1. /\ pc[a] = "revokeEarn" /\ UNCHANGED <<order, payment, refund>> /\ pc'[a] \in {"failed", "POINT_EARN_REVOKE"}
        /\ Happens(a, "revoke") \/ Fails(a, "revoke") \/ Refused
    BY <1>9 DEF RevokeEarn, Goto, TypeOK
  <2>2. Called(a, "revoke")
    BY <1>1, <1>2, <2>1, HappensCalls, FailsCalls, RefusedCalls
  <2>3. pc'[a] \notin Before("revoke")
    BY <2>1, BeforeMeans
  <2> QED
    BY <1>2, <1>3, <2>1, <2>2, <2>3, CountCall
<1> QED
  BY <1>4, <1>5, <1>6, <1>7, <1>8, <1>9

(* The retry job compensates for an attempt that gave up: it has a row. *)
LEMMA CountRetry ==
  ASSUME TypeOK, JobInv, RowsInv, CountInv, [Next]_vars, NEW a \in Attempts, NEW t \in Types, RetryCall(a, t)
  PROVE  CountOf(a)' /\ Called(a, EffectOf[t]) /\ EffectOf[t] \in Effects
<1>1. applied \in Counts /\ late \in Counts /\ CountOf(a)
  BY DEF TypeOK, Counts, CountInv
<1>2. /\ UNCHANGED <<order, pc, payment, refund>> /\ <<a, t>> \in job.polled
      /\ Happens(a, EffectOf[t]) \/ Fails(a, EffectOf[t]) \/ Refused
      /\ t = "CARD_REFUND" => Happens(a, EffectOf[t]) \/ Refused
  BY DEF RetryCall
<1>3. EffectOf[t] \in {"refund", "cancel", "restock", "revoke"} /\ (EffectOf[t] = "refund" => t = "CARD_REFUND")
  BY EffectOfMeans DEF Types
<1>4. EffectOf[t] \in Effects
  BY <1>3 DEF Effects
<1>5. Called(a, EffectOf[t]) /\ (t = "CARD_REFUND" => late' = late)
  BY <1>1, <1>2, <1>4, HappensCalls, FailsCalls, RefusedCalls
<1>6. outbox[a][t].status = "PENDING"
  BY <1>2 DEF JobInv
<1>7. pc[a] \notin Before(EffectOf[t]) \cup {"ok"}
  BY <1>6 DEF RowsInv
<1>8. pc[a] \notin {"card", "save", "ok"}
  BY <1>3, <1>7, BeforeMeans
<1>9. payment'[a] = "none" /\ pc'[a] = pc[a]
  BY <1>1, <1>2, <1>8 DEF CountOf
<1>10. \A f \in Effects : f # EffectOf[t] => applied'[a][f] = applied[a][f] /\ late'[a][f] = late[a][f]
  BY <1>5 DEF Called
<1>11. \A f \in Effects : pc'[a] \in Before(f) => Total(a, f)' = 0
  BY <1>1, <1>7, <1>9, <1>10 DEF CountOf, Total
<1>12. late'[a]["charge"] = 0 /\ late'[a]["refund"] = 0
  BY <1>1, <1>3, <1>5, <1>10 DEF CountOf, Effects
<1> QED
  BY <1>4, <1>5, <1>8, <1>9, <1>11, <1>12 DEF CountOf

(* A call that was not answered and arrives, or is lost, counts as it did. *)
LEMMA CountLate ==
  ASSUME TypeOK, CountInv, [Next]_vars, NEW a \in Attempts, NEW e \in Effects, LateArrives(a, e)
  PROVE  CountOf(a)'
<1>1. applied \in Counts /\ late \in Counts /\ CountOf(a)
  BY DEF TypeOK, Counts, CountInv
<1>2. UNCHANGED <<order, pc, payment, refund>>
  BY DEF LateArrives
<1>3. /\ applied' \in Counts /\ late' \in Counts /\ late[a][e] > 0 /\ late'[a][e] = late[a][e] - 1
      /\ applied'[a][e] \in {applied[a][e], applied[a][e] + 1}
      /\ \A f \in Effects : f # e => applied'[a][f] = applied[a][f] /\ late'[a][f] = late[a][f]
  BY <1>1, LateCalls
<1>4. Total(a, e) > 0 /\ Total(a, e)' <= Total(a, e) /\ Total(a, e)' \in Nat
  BY <1>1, <1>3 DEF Total, Counts
<1>5. pc[a] \notin Before(e) /\ e \notin {"charge", "refund"}
  BY <1>1, <1>3, <1>4 DEF CountOf
<1>6. /\ pc[a] \in {"card", "save"} \/ payment[a] # "none" => e # "use"
      /\ pc[a] = "ok" => e \notin {"restock", "revoke"}
  BY <1>1, <1>3, <1>4 DEF CountOf
<1>7. late'[a]["charge"] = 0 /\ late'[a]["refund"] = 0
  BY <1>1, <1>3, <1>5 DEF CountOf, Effects
<1>8. \A f \in Effects : pc'[a] \in Before(f) => Total(a, f)' = 0
  BY <1>1, <1>2, <1>3, <1>5 DEF CountOf, Total
<1>9. pc'[a] \in {"card", "save"} \/ payment'[a] # "none" =>
        applied'[a]["use"] = (IF DeductsPoints' THEN 1 ELSE 0) /\ late'[a]["use"] = 0
  BY <1>1, <1>2, <1>3, <1>6 DEF CountOf, Effects, DeductsPoints, ChargesCard
<1>10. pc'[a] = "save" \/ payment'[a] # "none" => applied'[a]["charge"] = (IF ChargesCard' THEN 1 ELSE 0)
  BY <1>1, <1>2, <1>3, <1>5 DEF CountOf, Effects, DeductsPoints, ChargesCard
<1>11. pc'[a] = "ok" => Total(a, "restock")' = 0 /\ Total(a, "revoke")' = 0
  BY <1>1, <1>2, <1>3, <1>6 DEF CountOf, Total, Effects
<1>12. pc'[a] = "ok" /\ Total(a, "cancel")' + Total(a, "refund")' > 0 => Total(a, "cancel") + Total(a, "refund") > 0
  <2>1. Total(a, "refund")' = Total(a, "refund")
    BY <1>3, <1>5 DEF Total, Effects
  <2>2. Total(a, "cancel") \in Nat /\ Total(a, "refund") \in Nat /\ Total(a, "cancel")' \in Nat
    BY <1>1, <1>3 DEF Total, Counts, Effects
  <2>3. Total(a, "cancel")' <= Total(a, "cancel")
    BY <1>1, <1>3, <1>4 DEF Total, Effects, Counts
  <2> QED
    BY <2>1, <2>2, <2>3
<1>13. payment'[a] # "none" => pc'[a] = "ok"
  BY <1>1, <1>2 DEF CountOf
<1>14. Refunding(a) => Refunding(a)'
  BY RefundingStays
<1> QED
  BY <1>1, <1>2, <1>7, <1>8, <1>9, <1>10, <1>11, <1>12, <1>13, <1>14 DEF CountOf, DeductsPoints, ChargesCard

(* A refund gives back what a completed payment took. *)
LEMMA CountRefund ==
  ASSUME TypeOK, RefundInv, CountInv, [Next]_vars, NEW r \in Refunders, RefundPoints(r) \/ RefundToCard(r)
  PROVE  \E a \in Attempts : /\ a = refund[r].of /\ CountOf(a)'
                             /\ UNCHANGED <<order, pc, payment>> /\ \E e \in Effects : Called(a, e)
<1>1. PICK a \in Attempts : a = refund[r].of /\ payment[a] # "none"
  BY DEF RefundInv, RefundPoints, RefundToCard
<1>2. applied \in Counts /\ late \in Counts /\ CountOf(a)
  BY <1>1 DEF TypeOK, Counts, CountInv
<1>3. PICK e \in {"cancel", "refund"} : /\ Happens(a, e) \/ Fails(a, e) \/ Refused
                                        /\ e = "refund" => Happens(a, e) \/ Refused
  BY <1>1 DEF RefundPoints, RefundToCard
<1>4. UNCHANGED <<order, pc, payment>>
  BY DEF RefundPoints, RefundToCard
<1>5. refund'[r].step # "idle" /\ refund'[r].of = a
  BY <1>1 DEF RefundPoints, RefundToCard, RefundStep, TypeOK
<1>6. Refunding(a)'
  BY <1>5 DEF Refunding
<1>7. e \in Effects
  BY DEF Effects
<1>8. Called(a, e) /\ (e = "refund" => late' = late)
  <2>1. CASE Happens(a, e)
    BY <1>2, <1>7, <2>1, HappensCalls
  <2>2. CASE Refused
    BY <1>2, <1>7, <2>2, RefusedCalls
  <2>3. CASE Fails(a, e) /\ e # "refund"
    BY <1>2, <1>7, <2>3, FailsCalls
  <2> QED
    BY <1>3, <2>1, <2>2, <2>3
<1>9. pc[a] = "ok" /\ pc'[a] = "ok" /\ payment'[a] = payment[a] /\ order' = order
  BY <1>1, <1>2, <1>4 DEF CountOf
<1>10. \A f \in Effects : f # e => applied'[a][f] = applied[a][f] /\ late'[a][f] = late[a][f]
  BY <1>8 DEF Called
<1>11. \A f \in Effects : pc'[a] \notin Before(f)
  BY <1>9, BeforeMeans DEF Effects
<1>12. late'[a]["charge"] = 0 /\ late'[a]["refund"] = 0
  BY <1>2, <1>8, <1>10 DEF CountOf, Effects
<1>13. CountOf(a)'
  BY <1>2, <1>6, <1>9, <1>10, <1>11, <1>12 DEF CountOf, Total, Effects, DeductsPoints, ChargesCard
<1> QED
  BY <1>1, <1>4, <1>7, <1>8, <1>13

(* Steps that change no count. *)
LEMMA CountRest ==
  ASSUME TypeOK, RefundInv, CountInv, [Next]_vars,
         Crash \/ (UNCHANGED <<order, pc, applied, late>> /\ \A b \in Attempts : ~SavePayment(b))
  PROVE  CountInv'
<1> SUFFICES ASSUME NEW a \in Attempts PROVE CountOf(a)'
  BY DEF CountInv
<1>1. CountOf(a)
  BY DEF CountInv
<1>2. Refunding(a) => Refunding(a)'
  BY RefundingStays
<1>3. CASE Crash
  <2>1. UNCHANGED <<order, payment, applied, late>>
    BY <1>3 DEF Crash
  <2>2. CASE pc'[a] = pc[a]
    BY <1>1, <1>2, <2>1, <2>2, CountFrame
  <2>3. CASE pc'[a] # pc[a]
    <3>1. pc'[a] = "dead" /\ pc[a] # "ok"
      BY <1>3, <2>3, CrashMoves DEF Ended, Answered
    <3>2. \A e \in Effects : pc'[a] \notin Before(e)
      BY <3>1, BeforeMeans DEF Effects
    <3> QED
      BY <1>1, <2>1, <3>1, <3>2 DEF CountOf
  <2> QED
    BY <2>2, <2>3
<1>4. CASE UNCHANGED <<order, pc, applied, late>> /\ \A b \in Attempts : ~SavePayment(b)
  <2>1. payment'[a] # "none" => payment[a] # "none"
    BY <1>4, PaymentStays
  <2> QED
    BY <1>1, <1>2, <1>4, <2>1, CountFrame
<1> QED
  BY <1>3, <1>4

LEMMA CountStep ==
  ASSUME TypeOK, JobInv, RowsInv, RefundInv, CountInv, [Next]_vars
  PROVE  CountInv'
<1>1. \A a \in Attempts : CountOf(a) /\ (Refunding(a) => Refunding(a)')
  BY RefundingStays DEF CountInv
<1>2. ASSUME NEW a \in Attempts,
             CountOf(a)', \A b \in Attempts \ {a} : pc'[b] = pc[b] /\ payment'[b] = payment[b], order' = order,
             \A b \in Attempts \ {a}, f \in Effects : applied'[b][f] = applied[b][f] /\ late'[b][f] = late[b][f]
      PROVE  CountInv'
  BY <1>1, <1>2, CountFrame DEF CountInv
<1>3. ASSUME NEW a \in Attempts, Start(a) \/ CheckCompleted(a) \/ SavePayment(a) \/ SaveFailedCompensation(a)
      PROVE  CountInv'
  <2>1. CountOf(a)'
    BY <1>3, CountLocal
  <2>2. /\ applied' = applied /\ late' = late /\ order' = order
        /\ \A b \in Attempts \ {a} : payment'[b] = payment[b]
    BY <1>3, SavedRow DEF Start, CheckCompleted, SavePayment, TypeOK
  <2>3. \A b \in Attempts \ {a} : pc'[b] = pc[b]
    BY <1>3, AttemptMoves DEF AttemptStep
  <2> QED
    BY <1>2, <2>1, <2>2, <2>3
<1>4. ASSUME NEW a \in Attempts,
             UsePoints(a) \/ ChargeCard(a) \/ RefundCard(a) \/ CancelPoints(a) \/ RestoreStock(a) \/ RevokeEarn(a)
      PROVE  CountInv'
  <2>1. CountOf(a)' /\ \E e \in Effects : Called(a, e)
    BY <1>4, CountCalls
  <2>2. order' = order /\ payment' = payment
    BY <1>4 DEF UsePoints, ChargeCard, RefundCard, CancelPoints, RestoreStock, RevokeEarn
  <2>3. \A b \in Attempts \ {a} : pc'[b] = pc[b]
    BY <1>4, AttemptMoves DEF AttemptStep
  <2>4. \A b \in Attempts \ {a}, f \in Effects : applied'[b][f] = applied[b][f] /\ late'[b][f] = late[b][f]
    BY <2>1 DEF Called
  <2> QED
    BY <1>2, <2>1, <2>2, <2>3, <2>4
<1>5. ASSUME NEW a \in Attempts, NEW t \in Types, RetryCall(a, t) PROVE CountInv'
  <2>1. CountOf(a)' /\ Called(a, EffectOf[t]) /\ EffectOf[t] \in Effects
    BY <1>5, CountRetry
  <2>2. order' = order /\ payment' = payment /\ pc' = pc
    BY <1>5 DEF RetryCall
  <2>3. \A b \in Attempts \ {a}, f \in Effects : applied'[b][f] = applied[b][f] /\ late'[b][f] = late[b][f]
    BY <2>1 DEF Called
  <2> QED
    BY <1>2, <2>1, <2>2, <2>3
<1>6. ASSUME NEW a \in Attempts, NEW e \in Effects, LateArrives(a, e) PROVE CountInv'
  <2>1. CountOf(a)'
    BY <1>6, CountLate
  <2>2. order' = order /\ payment' = payment /\ pc' = pc
    BY <1>6 DEF LateArrives
  <2>3. \A b \in Attempts \ {a}, f \in Effects : applied'[b][f] = applied[b][f] /\ late'[b][f] = late[b][f]
    BY <1>6, LateCalls DEF TypeOK, Counts
  <2> QED
    BY <1>2, <2>1, <2>2, <2>3
<1>7. ASSUME NEW r \in Refunders, RefundPoints(r) \/ RefundToCard(r) PROVE CountInv'
  <2>1. PICK a \in Attempts : CountOf(a)' /\ UNCHANGED <<order, pc, payment>> /\ \E e \in Effects : Called(a, e)
    BY <1>7, CountRefund
  <2>2. \A b \in Attempts \ {a}, f \in Effects : applied'[b][f] = applied[b][f] /\ late'[b][f] = late[b][f]
    BY <2>1 DEF Called
  <2> QED
    BY <1>2, <2>1, <2>2
<1>8. CASE \/ Poll \/ SaveCompleted \/ SaveRetry \/ SaveRetryFails \/ Crash \/ UNCHANGED vars
           \/ \E r \in Refunders : LoadPayment(r) \/ SaveRefunded(r)
  <2>1. Crash \/ UNCHANGED <<order, pc, applied, late>>
    BY <1>8 DEF Poll, SaveCompleted, SaveRetry, SaveRetryFails, LoadPayment, SaveRefunded, vars
  <2>2. CASE \E b \in Attempts : SavePayment(b)
    BY <1>3, <2>2
  <2> QED
    BY <2>1, <2>2, CountRest
<1> QED
  BY <1>3, <1>4, <1>5, <1>6, <1>7, <1>8 DEF Next, AttemptStep, JobNext, RefunderStep, AllSettled

-----------------------------------------------------------------------------
(* One attempt after the other *)

LEMMA RunningMeans ==
  /\ Running = {"check", "points", "card", "save", "refundCard", "cancelPoints", "restoreStock", "revokeEarn",
                "CARD_REFUND", "POINT_RESTORE", "POINT_EARN_REVOKE"}
  /\ \A s \in Steps : s \in Running <=> s \notin Ended \cup {"idle"}
  BY StepsAre DEF Running

LEMMA SequenceStep ==
  ASSUME TypeOK, RefundInv, SequenceInv, [Next]_vars
  PROVE  SequenceInv'
<1> SUFFICES ASSUME ~overlapped'
             PROVE  /\ \A a, b \in Attempts : pc'[a] \in Running /\ pc'[b] \in Running => a = b
                    /\ \A a \in Attempts : pc'[a] \in Running \ {"check"} => Completed' = {}
                    /\ \A a, b \in Completed' : a = b
  BY DEF SequenceInv
<1>1. ~overlapped /\ \A a \in Attempts : Start(a) => \A b \in Attempts : pc[b] \notin Running
  <2>1. ASSUME NEW a \in Attempts, Start(a)
        PROVE  ~overlapped /\ \A b \in Attempts : pc[b] \notin Running
    <3>1. overlapped' = (overlapped \/ \E b \in Attempts : pc[b] \notin Ended \cup {"idle"})
      BY <2>1 DEF Start
    <3>2. ~overlapped /\ \A b \in Attempts : pc[b] \in Ended \cup {"idle"}
      BY <3>1
    <3>3. \A b \in Attempts : pc[b] \in Steps
      BY DEF TypeOK
    <3> QED
      BY <3>2, <3>3, RunningMeans
  <2>2. CASE \A a \in Attempts : ~Start(a)
    <3>1. overlapped' = overlapped
      BY <2>2 DEF Next, AttemptStep, CheckCompleted, UsePoints, ChargeCard, SavePayment, RefundCard, CancelPoints,
         RestoreStock, RevokeEarn, SaveFailedCompensation, LateArrives, JobNext, Poll, RetryCall, SaveCompleted, SaveRetry,
         SaveRetryFails, LoadPayment, RefunderStep, RefundPoints, RefundToCard, SaveRefunded, Crash, AllSettled, vars
    <3> QED
      BY <2>2, <3>1
  <2> QED
    BY <2>1, <2>2
<1>2. /\ \A a, b \in Attempts : pc[a] \in Running /\ pc[b] \in Running => a = b
      /\ \A a \in Attempts : pc[a] \in Running \ {"check"} => Completed = {}
      /\ \A a, b \in Completed : a = b
  BY <1>1 DEF SequenceInv
<1>3. \A a \in Attempts : a \in Completed' => a \in Completed \/ (SavePayment(a) /\ pc'[a] = "ok")
  BY PaymentStays DEF Completed
<1>4. \A a \in Attempts : pc[a] \in Steps
  BY DEF TypeOK
<1>5. \A a \in Attempts : SavePayment(a) => AttemptStep(a) /\ pc[a] = "save" /\ pc[a] \in Running \ {"check"}
  BY <1>4, RunningMeans DEF AttemptStep, SavePayment
<1>6. CASE \E c \in Attempts : Start(c)
  <2>1. PICK c \in Attempts : Start(c)
    BY <1>6
  <2>2. \A b \in Attempts : pc[b] \notin Running
    BY <1>1, <2>1
  <2>3. pc'[c] = "check" /\ \A b \in Attempts \ {c} : pc'[b] = pc[b]
    BY <2>1 DEF Start, Goto, TypeOK
  <2>4. \A a \in Completed' : a \in Completed
    BY <1>3, <1>5, <2>2 DEF Completed
  <2> QED
    BY <1>2, <2>2, <2>3, <2>4
<1>7. CASE \E c \in Attempts : AttemptStep(c)
  <2>1. PICK c \in Attempts : AttemptStep(c)
    BY <1>7
  <2>2. pc[c] # "idle"
    BY <2>1 DEF AttemptStep, CheckCompleted, UsePoints, ChargeCard, SavePayment, RefundCard, CancelPoints, RestoreStock,
       RevokeEarn, SaveFailedCompensation, AfterSaving
  <2>3. pc[c] \in Running /\ \A a \in Attempts : pc[a] \in Running => a = c
    <3>1. pc[c] \in Running
      BY <2>1, <2>2, AttemptMoves, RunningMeans
    <3> QED
      BY <1>2, <3>1
  <2>4. \A b \in Attempts \ {c} : pc'[b] = pc[b] /\ pc'[b] \notin Running
    BY <2>1, <2>3, AttemptMoves
  <2>5. \A a \in Completed' : a \in Completed \/ (a = c /\ pc[c] = "save" /\ pc'[c] = "ok")
    BY <1>3, <1>5, <2>3 DEF Completed
  <2>6. pc'[c] \in Running \ {"check"} => Completed' = {}
    <3>1. CASE pc[c] = "check" /\ pc'[c] = "points"
      <4>1. Completed = {}
        BY <2>1, <3>1 DEF AttemptStep, CheckCompleted, UsePoints, ChargeCard, SavePayment, RefundCard, CancelPoints,
           RestoreStock, RevokeEarn, SaveFailedCompensation, AfterSaving, Goto, TypeOK
      <4> QED
        BY <2>5, <3>1, <4>1
    <3>2. CASE pc[c] # "check" /\ pc'[c] \in Running
      BY <1>2, <2>3, <2>5, <3>2, RunningMeans
    <3> QED
      BY <2>1, <2>2, <3>1, <3>2, AttemptMoves, RunningMeans
  <2>7. \A a, b \in Completed' : a = b
    <3>1. CASE pc[c] = "save"
      BY <1>2, <2>3, <2>5, <3>1
    <3>2. CASE pc[c] # "save"
      BY <1>2, <2>5, <3>2
    <3> QED
      BY <3>1, <3>2
  <2> QED
    BY <2>4, <2>6, <2>7
<1>8. CASE \A c \in Attempts : ~Start(c) /\ ~AttemptStep(c)
  <2>1. \A a \in Completed' : a \in Completed
    BY <1>3, <1>5, <1>8 DEF Completed
  <2>2. \A a \in Attempts : pc'[a] \in Running => pc[a] = pc'[a]
    <3>1. ASSUME NEW a \in Attempts, Crash PROVE pc'[a] \notin Running
      BY <3>1, CrashMoves, RunningMeans DEF Ended, Answered
    <3> QED
      BY <1>8, <3>1, OthersStay
  <2> QED
    BY <1>2, <2>1, <2>2
<1> QED
  BY <1>6, <1>7, <1>8

-----------------------------------------------------------------------------
(* The answers *)

(* Who was told "ok" saved a payment, or found one. *)
AnswerInv == \A a \in Attempts : pc[a] = "ok" => \E b \in Attempts : payment[b] # "none"

LEMMA AnswerStep ==
  ASSUME TypeOK, RefundInv, AnswerInv, [Next]_vars
  PROVE  AnswerInv'
<1> SUFFICES ASSUME NEW a \in Attempts, pc'[a] = "ok"
             PROVE  \E b \in Attempts : payment'[b] # "none"
  BY DEF AnswerInv
<1>1. CASE pc[a] = "ok"
  BY <1>1, PaymentStays DEF AnswerInv
<1>2. CASE pc[a] # "ok"
  <2>1. Start(a) \/ AttemptStep(a)
    <3>1. CASE \E c \in Attempts : Start(c) \/ AttemptStep(c)
      BY <1>2, <3>1, AttemptMoves
    <3>2. CASE \A c \in Attempts : ~Start(c) /\ ~AttemptStep(c)
      BY <1>2, <3>2, OthersStay, CrashMoves DEF Ended, Answered
    <3> QED
      BY <3>1, <3>2
  <2>2. CheckCompleted(a) \/ SavePayment(a)
    BY <1>2, <2>1, SavedRow DEF TypeOK, AttemptStep, Goto, Start, UsePoints, ChargeCard, RefundCard, CancelPoints,
       RestoreStock, RevokeEarn, SaveFailedCompensation, AfterSaving
  <2>3. CASE CheckCompleted(a)
    <3>1. PICK b \in Attempts : Completed = {b}
      BY <2>3 DEF CheckCompleted, Goto, TypeOK
    <3>2. payment[b] # "none"
      BY <3>1 DEF Completed
    <3> QED
      BY <3>2, PaymentStays
  <2>4. CASE SavePayment(a)
    BY <2>4 DEF SavePayment, Goto, TypeOK
  <2> QED
    BY <2>2, <2>3, <2>4
<1> QED
  BY <1>1, <1>2

-----------------------------------------------------------------------------
(* The inductive invariant, and what follows from it *)

Inv == /\ TypeOK /\ JobInv /\ RowsInv /\ CountInv
       /\ RefundInv /\ KnownInv /\ SequenceInv /\ AnswerInv

LEMMA InvInit == Init => Inv
<1> SUFFICES ASSUME Init PROVE Inv
  OBVIOUS
<1>1. /\ \A a \in Attempts : pc[a] = "idle" /\ payment[a] = "none"
      /\ \A a \in Attempts : ~pointDeducted[a] /\ ~cardCharged[a]
      /\ \A r \in Refunders : refund[r].step = "idle"
      /\ "idle" \notin Running
  BY RunningMeans DEF Init
<1>2. \A a \in Attempts, e \in Effects : applied[a][e] = 0 /\ late[a][e] = 0
  BY DEF Init
<1>3. \A a \in Attempts, t \in Types : outbox[a][t].status = "none"
  BY DEF Init, NoRow
<1>4. CountInv
  <2> SUFFICES ASSUME NEW a \in Attempts PROVE CountOf(a)
    BY DEF CountInv
  <2>1. \A e \in Effects : Total(a, e) = 0
    BY <1>2 DEF Total
  <2>2. late[a]["charge"] = 0 /\ late[a]["refund"] = 0
    BY <1>2 DEF Effects
  <2>3. pc[a] = "idle" /\ payment[a] = "none"
    BY <1>1
  <2> QED
    BY <2>1, <2>2, <2>3 DEF CountOf
<1>5. RowsInv
  BY <1>3 DEF RowsInv
<1>6. RefundInv /\ KnownInv /\ AnswerInv
  BY <1>1 DEF RefundInv, KnownInv, KnownOf, AnswerInv
<1>7. SequenceInv
  BY <1>1 DEF SequenceInv, Completed
<1> QED
  BY <1>4, <1>5, <1>6, <1>7, TypeInit DEF Inv

LEMMA InvStep == Inv /\ [Next]_vars => Inv'
  BY TypeStep, RowsStep, CountStep, RefundInvStep, KnownStep, SequenceStep, AnswerStep DEF Inv

(* In every state of every behaviour of payment-service, each part of the  *)
(* inductive invariant holds.                                              *)
THEOREM Inductive == Spec => []Inv
  BY InvInit, InvStep, PTL DEF Spec

(* PaymentSaga: every variable has its type, whatever crashes or is late.  *)
THEOREM TypeCorrect == Spec => []TypeOK
<1>1. Inv => TypeOK
  BY DEF Inv
<1> QED
  BY <1>1, Inductive, PTL

(* createPayment, refundPayment: a payment row stands for one deduction    *)
(* and one charge, and only its refund ever gives any of it back.          *)
THEOREM PaidByRows == Spec => []CompletedIsPaid
<1>1. Inv => CompletedIsPaid
  <2> SUFFICES ASSUME Inv, NEW a \in Attempts, payment[a] # "none"
               PROVE  /\ applied[a]["use"] = (IF DeductsPoints THEN 1 ELSE 0)
                      /\ applied[a]["charge"] = (IF ChargesCard THEN 1 ELSE 0)
                      /\ applied[a]["restock"] + late[a]["restock"] = 0
                      /\ applied[a]["revoke"] + late[a]["revoke"] = 0
                      /\ applied[a]["cancel"] + applied[a]["refund"] > 0
                           => \E r \in Refunders : refund[r].of = a
    BY DEF CompletedIsPaid
  <2>1. CountOf(a) /\ pc[a] = "ok"
    BY DEF Inv, CountInv, CountOf
  <2>2. \A e \in Effects : applied[a][e] \in Nat /\ late[a][e] \in Nat
    BY DEF Inv, TypeOK
  <2>3. applied[a]["cancel"] + applied[a]["refund"] > 0 => Total(a, "cancel") + Total(a, "refund") > 0
    BY <2>2 DEF Total, Effects
  <2> QED
    BY <2>1, <2>3 DEF CountOf, Total, Refunding
<1> QED
  BY <1>1, Inductive, PTL

(* The catch block of createPayment, run to its end, leaves no effect it   *)
(* knows of that was neither undone nor put in the outbox.                 *)
THEOREM NothingForgotten == Spec => []KnownEffectsAccounted
<1>1. Inv => KnownEffectsAccounted
  BY DEF Inv, KnownInv, KnownOf, KnownEffectsAccounted
<1> QED
  BY <1>1, Inductive, PTL

(* createPayment answers "ok" only to a caller whose order was paid for.   *)
THEOREM AnswersBacked == Spec => []AnswerIsBacked
<1>1. Inv => AnswerIsBacked
  BY DEF Inv, AnswerInv, AnswerIsBacked
<1> QED
  BY <1>1, Inductive, PTL

(* The check at the start of createPayment suffices for attempts that do   *)
(* not overlap: one of them at most is COMPLETED.                          *)
THEOREM PaidOnce == Spec => []PaidOnceInSequence
<1>1. Inv => PaidOnceInSequence
  BY DEF Inv, SequenceInv, PaidOnceInSequence
<1> QED
  BY <1>1, Inductive, PTL

(* retryFailedCompensations never writes to a row that is COMPLETED or     *)
(* FAILED, though it works from a list read before: no step has changed a  *)
(* row since the job polled it.                                            *)
THEOREM SettledStay == Spec => SettledRowsStay
<1>1. ASSUME Inv, [Next]_vars, NEW a \in Attempts, NEW t \in Types,
             outbox[a][t].status \in {"COMPLETED", "FAILED"}
      PROVE  outbox'[a][t] = outbox[a][t]
  <2>1. CASE \E b \in Attempts : SaveFailedCompensation(b)
    <3>1. PICK b \in Attempts : SaveFailedCompensation(b)
      BY <2>1
    <3>2. b # a \/ t # pc[b]
      BY <1>1, <3>1 DEF Inv, RowsInv
    <3> QED
      BY <1>1, <3>1, <3>2, SavedRow DEF Inv
  <2>2. CASE SaveCompleted \/ SaveRetry
    <3>1. PICK b \in Attempts, u \in Types : /\ outbox[b][u].status = "PENDING"
                                             /\ \A c \in Attempts, v \in Types : c # b \/ v # u => outbox'[c][v] = outbox[c][v]
      BY <1>1, <2>2, SavedByJob DEF Inv
    <3> QED
      BY <1>1, <3>1
  <2> QED
    BY <1>1, <2>1, <2>2, OutboxChanges DEF Inv
<1>2. Inv /\ [Next]_vars
        => [\A a \in Attempts, t \in Types :
              outbox[a][t].status \in {"COMPLETED", "FAILED"} => outbox'[a][t] = outbox[a][t]]_vars
  BY <1>1
<1> QED
  BY <1>2, Inductive, PTL DEF Spec, SettledRowsStay

-----------------------------------------------------------------------------
(* How often a compensation can happen: never more than what was taken     *)
(* while the retry job does not run and a payment is refunded once, and    *)
(* never without limit when it does.                                       *)


(* What a call, or its late arrival, adds to what it stands for. *)
LEMMA CalledTotal ==
  ASSUME TypeOK, NEW a \in Attempts, NEW e \in Effects, NEW b \in Attempts, NEW f \in Effects, Called(b, f)
  PROVE  Total(a, e)' <= Total(a, e) + 1 /\ (a # b \/ e # f => Total(a, e)' = Total(a, e))
<1>1. applied[a][e] \in Nat /\ late[a][e] \in Nat
  BY DEF TypeOK
<1> QED
  BY <1>1 DEF Called, Total

LEMMA LateTotal ==
  ASSUME TypeOK, NEW a \in Attempts, NEW e \in Effects, NEW b \in Attempts, NEW f \in Effects, LateArrives(b, f)
  PROVE  Total(a, e)' <= Total(a, e)
<1>1. applied \in Counts /\ late \in Counts /\ applied[a][e] \in Nat /\ late[a][e] \in Nat
  BY DEF TypeOK, Counts
<1> QED
  BY <1>1, LateCalls DEF Total

(* Who makes an effect happen once more. *)
Repeats(a, e) ==
  \/ pc[a] \in Before(e) /\ (e = "cancel" => pointDeducted[a]) /\ (e = "refund" => cardCharged[a])
  \/ \E t \in Types : RetryCall(a, t) /\ EffectOf[t] = e
  \/ \E r \in Refunders : refund[r].of = a /\ RefundPoints(r) /\ order.pointUsed /\ e = "cancel"
  \/ \E r \in Refunders : refund[r].of = a /\ RefundToCard(r) /\ ChargesCard /\ e = "refund"

LEMMA WhoRepeats ==
  ASSUME TypeOK, RefundInv, [Next]_vars, NEW a \in Attempts, NEW e \in Effects
  PROVE  \/ Total(a, e)' <= Total(a, e)
         \/ Total(a, e)' <= Total(a, e) + 1 /\ Repeats(a, e)
<1>1. applied \in Counts /\ late \in Counts /\ Total(a, e) \in Nat
  BY DEF TypeOK, Counts, Total
<1>2. Refused => Total(a, e)' = Total(a, e)
  BY DEF Refused, Total
<1>3. ASSUME NEW b \in Attempts, NEW f \in Effects, Happens(b, f) \/ Fails(b, f)
      PROVE  Total(a, e)' <= Total(a, e) + 1 /\ (a # b \/ e # f => Total(a, e)' = Total(a, e))
  BY <1>1, <1>3, HappensCalls, FailsCalls, CalledTotal
<1>4. ASSUME NEW b \in Attempts, UsePoints(b) \/ ChargeCard(b) \/ RefundCard(b) \/ CancelPoints(b) \/ RestoreStock(b) \/ RevokeEarn(b)
      PROVE  Total(a, e)' <= Total(a, e) \/ (Total(a, e)' <= Total(a, e) + 1 /\ Repeats(a, e))
  <2>1. \/ Refused
        \/ \E f \in Effects : /\ Happens(b, f) \/ Fails(b, f)
                              /\ pc[b] \in Before(f)
                              /\ f = "cancel" => pointDeducted[b]
                              /\ f = "refund" => cardCharged[b]
    BY <1>4, BeforeMeans DEF UsePoints, ChargeCard, RefundCard, CancelPoints, RestoreStock, RevokeEarn, Effects
  <2> QED
    BY <1>1, <1>2, <1>3, <2>1 DEF Repeats
<1>5. ASSUME NEW b \in Attempts, NEW t \in Types, RetryCall(b, t)
      PROVE  Total(a, e)' <= Total(a, e) \/ (Total(a, e)' <= Total(a, e) + 1 /\ Repeats(a, e))
  <2>1. EffectOf[t] \in Effects
    BY EffectOfMeans DEF Types, Effects
  <2>2. Refused \/ Happens(b, EffectOf[t]) \/ Fails(b, EffectOf[t])
    BY <1>5 DEF RetryCall
  <2>3. Total(a, e)' <= Total(a, e) + 1 /\ (a # b \/ e # EffectOf[t] => Total(a, e)' = Total(a, e))
    BY <1>1, <1>2, <1>3, <2>1, <2>2
  <2> QED
    BY <1>1, <1>5, <2>3 DEF Repeats
<1>6. ASSUME NEW r \in Refunders, RefundPoints(r) \/ RefundToCard(r)
      PROVE  Total(a, e)' <= Total(a, e) \/ (Total(a, e)' <= Total(a, e) + 1 /\ Repeats(a, e))
  <2>1. PICK b \in Attempts : refund[r].of = b
    BY <1>6 DEF RefundInv, RefundPoints, RefundToCard
  <2>2. \/ Refused
        \/ RefundPoints(r) /\ order.pointUsed /\ (Happens(b, "cancel") \/ Fails(b, "cancel"))
        \/ RefundToCard(r) /\ ChargesCard /\ Happens(b, "refund")
    BY <1>6, <2>1 DEF RefundPoints, RefundToCard
  <2>3. "cancel" \in Effects /\ "refund" \in Effects
    BY DEF Effects
  <2> QED
    BY <1>1, <1>2, <1>3, <2>1, <2>2, <2>3 DEF Repeats
<1>7. ASSUME NEW b \in Attempts, NEW f \in Effects, LateArrives(b, f) PROVE Total(a, e)' <= Total(a, e)
  BY <1>7, LateTotal
<1>8. CASE UNCHANGED <<applied, late>>
  BY <1>1, <1>8 DEF Total
<1>9. \/ UNCHANGED <<applied, late>>
      \/ \E b \in Attempts : UsePoints(b) \/ ChargeCard(b) \/ RefundCard(b) \/ CancelPoints(b) \/ RestoreStock(b) \/ RevokeEarn(b)
      \/ \E b \in Attempts, t \in Types : RetryCall(b, t)
      \/ \E r \in Refunders : RefundPoints(r) \/ RefundToCard(r)
      \/ \E b \in Attempts, f \in Effects : LateArrives(b, f)
  BY DEF Next, AttemptStep, Start, CheckCompleted, SavePayment, SaveFailedCompensation, JobNext, Poll, SaveCompleted, SaveRetry,
     SaveRetryFails, LoadPayment, RefunderStep, SaveRefunded, Crash, AllSettled, vars
<1> QED
  BY <1>4, <1>5, <1>6, <1>7, <1>8, <1>9

-----------------------------------------------------------------------------
(* With a retry job and no refunds *)

(* Each repetition is paid for by a counted retry, a crash, or the row in hand. *)
RepeatOf(a, t) ==
  /\ Total(a, EffectOf[t]) <= 1 + MaxRetry + crashes
  /\ outbox[a][t].status = "none" => Total(a, EffectOf[t]) <= 1 + crashes
  /\ outbox[a][t].status = "PENDING" /\ ~InHandOf(a, t) => Total(a, EffectOf[t]) <= 1 + outbox[a][t].retries + crashes
  /\ outbox[a][t].status = "PENDING" /\ InHandOf(a, t) => Total(a, EffectOf[t]) <= 2 + outbox[a][t].retries + crashes

RepeatInv == \A a \in Attempts, t \in Types : RepeatOf(a, t)

(* What becomes of a row, and of who has it in hand. *)
LEMMA RowMoves ==
  ASSUME Inv, [Next]_vars, NEW a \in Attempts, NEW t \in Types
  PROVE  \/ /\ outbox'[a][t] = outbox[a][t] /\ crashes' >= crashes
            /\ \/ InHandOf(a, t)' <=> InHandOf(a, t)
               \/ ~InHandOf(a, t) /\ InHandOf(a, t)' /\ RetryCall(a, t)
               \/ InHandOf(a, t) /\ ~InHandOf(a, t)' /\ crashes' = crashes + 1
         \/ /\ outbox[a][t].status = "none" /\ outbox'[a][t] = [status |-> "PENDING", retries |-> 0]
            /\ ~InHandOf(a, t)' /\ crashes' = crashes
         \/ outbox'[a][t].status \in {"COMPLETED", "FAILED"} /\ crashes' = crashes
         \/ /\ outbox[a][t].status = "PENDING" /\ InHandOf(a, t)
            /\ outbox'[a][t].status = "PENDING" /\ outbox'[a][t].retries = outbox[a][t].retries + 1
            /\ ~InHandOf(a, t)' /\ crashes' = crashes
<1>1. TypeOK /\ JobInv /\ RowsInv /\ crashes \in Nat
  BY MaxCrashesAssumption DEF Inv, TypeOK
<1>2. CASE \E b \in Attempts : SaveFailedCompensation(b)
  <2>1. PICK b \in Attempts : SaveFailedCompensation(b)
    BY <1>2
  <2>2. job' = job /\ crashes' = crashes
    BY <1>1, <2>1, SavedRow
  <2>3. InHandOf(a, t)' <=> InHandOf(a, t)
    BY <2>2 DEF InHandOf
  <2>4. CASE a = b /\ t = pc[b]
    <3>1. outbox[a][t].status = "none"
      BY <1>1, <2>4 DEF RowsInv
    <3>2. ~InHandOf(a, t)
      BY <1>1, <3>1 DEF JobInv
    <3>3. outbox' = outbox \/ outbox'[a][t] = [status |-> "PENDING", retries |-> 0]
      BY <1>1, <2>1, <2>4, SavedRow
    <3> QED
      BY <1>1, <2>2, <2>3, <3>1, <3>2, <3>3
  <2>5. CASE a # b \/ t # pc[b]
    <3>1. outbox'[a][t] = outbox[a][t]
      BY <1>1, <2>1, <2>5, SavedRow
    <3> QED
      BY <1>1, <2>2, <2>3, <3>1
  <2> QED
    BY <2>4, <2>5
<1>3. CASE SaveCompleted \/ SaveRetry
  <2>1. PICK b \in Attempts, u \in Types :
          /\ InHandOf(b, u) /\ outbox[b][u].status = "PENDING"
          /\ crashes' = crashes
          /\ \A c \in Attempts, v \in Types : c # b \/ v # u => outbox'[c][v] = outbox[c][v]
          /\ \/ /\ outbox' = outbox
                /\ job' = [step |-> "saveRetryCompleted", polled |-> job.polled, row |-> <<b, u>>]
             \/ /\ job' \in {Idle, [step |-> "next", polled |-> job.polled, row |-> None]}
                /\ outbox'[b][u].status \in {"COMPLETED", "FAILED"}
             \/ /\ job' \in {Idle, [step |-> "next", polled |-> job.polled, row |-> None]}
                /\ outbox'[b][u].status = "PENDING" /\ outbox'[b][u].retries = outbox[b][u].retries + 1
    BY <1>1, <1>3, SavedByJob
  <2>2. \A c \in Attempts, v \in Types : InHandOf(c, v) => c = b /\ v = u
    BY <2>1 DEF InHandOf
  <2>3. \/ InHandOf(b, u)' /\ \A c \in Attempts, v \in Types : InHandOf(c, v)' => c = b /\ v = u
        \/ \A c \in Attempts, v \in Types : ~InHandOf(c, v)'
    <3>1. CASE job' = [step |-> "saveRetryCompleted", polled |-> job.polled, row |-> <<b, u>>]
      BY <3>1 DEF InHandOf
    <3>2. CASE job' \in {Idle, [step |-> "next", polled |-> job.polled, row |-> None]}
      BY <3>2 DEF InHandOf, Idle
    <3> QED
      BY <2>1, <3>1, <3>2
  <2>4. CASE a # b \/ t # u
    BY <1>1, <2>1, <2>2, <2>3, <2>4
  <2>5. CASE a = b /\ t = u
    <3>1. CASE outbox' = outbox /\ job' = [step |-> "saveRetryCompleted", polled |-> job.polled, row |-> <<b, u>>]
      <4>1. InHandOf(a, t)'
        BY <2>5, <3>1 DEF InHandOf
      <4> QED
        BY <1>1, <2>1, <2>5, <3>1, <4>1
    <3>2. CASE job' \in {Idle, [step |-> "next", polled |-> job.polled, row |-> None]}
      <4>1. ~InHandOf(a, t)'
        BY <3>2 DEF InHandOf, Idle
      <4>2. \/ outbox'[a][t].status \in {"COMPLETED", "FAILED"}
            \/ outbox'[a][t].status = "PENDING" /\ outbox'[a][t].retries = outbox[a][t].retries + 1
        BY <2>1, <2>5, <3>2 DEF Idle
      <4> QED
        BY <2>1, <2>5, <4>1, <4>2
    <3> QED
      BY <2>1, <3>1, <3>2
  <2> QED
    BY <2>4, <2>5
<1>4. CASE outbox' = outbox
  <2>1. \/ job' = job /\ crashes' = crashes
        \/ Poll
        \/ \E b \in Attempts, u \in Types : RetryCall(b, u)
        \/ SaveCompleted \/ SaveRetry
        \/ job' = Idle /\ crashes' = crashes + 1
    BY DEF Next, AttemptStep, Start, CheckCompleted, UsePoints, ChargeCard, SavePayment, RefundCard, CancelPoints, RestoreStock,
       RevokeEarn, SaveFailedCompensation, LateArrives, JobNext, SaveRetryFails, LoadPayment, RefunderStep, RefundPoints,
       RefundToCard, SaveRefunded, Crash, AllSettled, vars
  <2>2. CASE job' = job /\ crashes' = crashes
    BY <1>1, <1>4, <2>2 DEF InHandOf
  <2>3. CASE Poll
    <3>1. ~InHandOf(a, t) /\ ~InHandOf(a, t)' /\ crashes' = crashes
      BY <2>3 DEF Poll, JobStep, InHandOf, Idle
    <3> QED
      BY <1>1, <1>4, <3>1
  <2>4. ASSUME NEW b \in Attempts, NEW u \in Types, RetryCall(b, u)
        PROVE  /\ ~InHandOf(a, t) /\ (InHandOf(a, t)' => a = b /\ t = u)
               /\ crashes' = crashes
    BY <2>4 DEF RetryCall, JobStep, InHandOf, Idle
  <2>5. CASE \E b \in Attempts, u \in Types : RetryCall(b, u)
    BY <1>1, <1>4, <2>4, <2>5
  <2>6. CASE job' = Idle /\ crashes' = crashes + 1
    <3>1. ~InHandOf(a, t)'
      BY <2>6 DEF InHandOf, Idle
    <3> QED
      BY <1>1, <1>4, <2>6, <3>1
  <2> QED
    BY <1>3, <2>1, <2>2, <2>3, <2>5, <2>6
<1> QED
  BY <1>1, <1>2, <1>3, <1>4, OutboxChanges

LEMMA RepeatStep ==
  ASSUME Refunders = {}, Inv, RepeatInv, [Next]_vars
  PROVE  RepeatInv'
<1> SUFFICES ASSUME NEW a \in Attempts, NEW t \in Types PROVE RepeatOf(a, t)'
  BY DEF RepeatInv
<1> DEFINE e == EffectOf[t]
<1>1. e \in Effects
  BY EffectOfMeans DEF Types, Effects
<1>2. /\ TypeOK /\ RefundInv /\ JobInv /\ CountInv /\ RepeatOf(a, t)
      /\ crashes \in Nat /\ crashes' \in Nat /\ MaxRetry \in Nat
      /\ outbox[a][t].retries \in 0 .. MaxRetry /\ outbox'[a][t].retries \in 0 .. MaxRetry
  <2>1. TypeOK /\ TypeOK'
    BY TypeStep DEF Inv
  <2> QED
    BY <2>1, MaxCrashesAssumption, MaxRetryAssumption DEF Inv, RepeatInv, TypeOK
<1>3. Total(a, e) \in Nat /\ Total(a, e)' \in Nat
  <2>1. TypeOK /\ TypeOK'
    BY TypeStep DEF Inv
  <2> QED
    BY <1>1, <2>1 DEF TypeOK, Total
<1> HIDE DEF e
<1>4. ASSUME NEW u \in Types, RetryCall(a, u), EffectOf[u] = EffectOf[t] PROVE u = t
  BY <1>4, EffectOfMeans DEF Types
<1>5. \/ Total(a, e)' <= Total(a, e)
      \/ Total(a, e)' <= 1
      \/ Total(a, e)' <= Total(a, e) + 1 /\ RetryCall(a, t)
  <2>1. pc[a] \in Before(e) => Total(a, e) = 0
    BY <1>1, <1>2 DEF CountInv, CountOf
  <2> QED
    BY <1>1, <1>2, <1>4, <2>1, WhoRepeats DEF Repeats, e
<1>6. RetryCall(a, t) => /\ outbox[a][t].status = "PENDING" /\ outbox[a][t].retries < MaxRetry /\ ~InHandOf(a, t)
                         /\ outbox' = outbox /\ crashes' = crashes /\ InHandOf(a, t)'
  <2> SUFFICES ASSUME RetryCall(a, t)
               PROVE  /\ outbox[a][t].status = "PENDING" /\ outbox[a][t].retries < MaxRetry /\ ~InHandOf(a, t)
                      /\ outbox' = outbox /\ crashes' = crashes /\ InHandOf(a, t)'
    OBVIOUS
  <2>1. job.step = "next" /\ <<a, t>> \in job.polled /\ UNCHANGED <<outbox, crashes>>
    BY DEF RetryCall
  <2>2. InHandOf(a, t)' /\ ~InHandOf(a, t)
    BY <2>1 DEF RetryCall, JobStep, InHandOf
  <2> QED
    BY <1>2, <2>1, <2>2 DEF JobInv
<1>7. outbox[a][t].status = "PENDING" /\ outbox'[a][t] = outbox[a][t] => outbox[a][t].retries = outbox'[a][t].retries
  OBVIOUS
<1>8. InHandOf(a, t) => outbox[a][t].status = "PENDING" /\ outbox[a][t].retries < MaxRetry
  BY <1>2 DEF JobInv
<1>9. CASE RetryCall(a, t)
  BY <1>2, <1>3, <1>5, <1>6, <1>9 DEF RepeatOf, e
<1>10. CASE ~RetryCall(a, t)
  <2>1. Total(a, e)' <= Total(a, e) \/ Total(a, e)' <= 1
    BY <1>5, <1>10
  <2>2. CASE outbox'[a][t] = outbox[a][t] /\ crashes' >= crashes /\ (InHandOf(a, t)' <=> InHandOf(a, t))
    BY <1>2, <1>3, <2>1, <2>2 DEF RepeatOf, e
  <2>3. CASE outbox'[a][t] = outbox[a][t] /\ InHandOf(a, t) /\ ~InHandOf(a, t)' /\ crashes' = crashes + 1
    BY <1>2, <1>3, <1>8, <2>1, <2>3 DEF RepeatOf, e
  <2>4. CASE /\ outbox[a][t].status = "none" /\ outbox'[a][t] = [status |-> "PENDING", retries |-> 0]
             /\ ~InHandOf(a, t)' /\ crashes' = crashes
    BY <1>2, <1>3, <2>1, <2>4 DEF RepeatOf, e
  <2>5. CASE outbox'[a][t].status \in {"COMPLETED", "FAILED"} /\ crashes' = crashes
    BY <1>2, <1>3, <2>1, <2>5 DEF RepeatOf, e
  <2>6. CASE /\ outbox[a][t].status = "PENDING" /\ InHandOf(a, t)
             /\ outbox'[a][t].status = "PENDING" /\ outbox'[a][t].retries = outbox[a][t].retries + 1
             /\ ~InHandOf(a, t)' /\ crashes' = crashes
    BY <1>2, <1>3, <2>1, <2>6 DEF RepeatOf, e
  <2> QED
    BY <1>10, <2>2, <2>3, <2>4, <2>5, <2>6, RowMoves
<1> QED
  BY <1>9, <1>10

(* CompensationService: a compensation is repeated at most MAX_RETRY times *)
(* beyond the first, and once more for every time the process dies between *)
(* its call and its save, whatever is late or lost.                        *)
THEOREM BoundedRepeats ==
  ASSUME Refunders = {}
  PROVE  Spec => []RepeatsBounded
<1>1. Init => RepeatInv
  <2> SUFFICES ASSUME Init, NEW a \in Attempts, NEW t \in Types PROVE RepeatOf(a, t)
    BY DEF RepeatInv
  <2>1. EffectOf[t] \in Effects
    BY EffectOfMeans DEF Types, Effects
  <2>2. Total(a, EffectOf[t]) = 0 /\ outbox[a][t].status = "none" /\ crashes = 0
    BY <2>1 DEF Init, Total, NoRow
  <2> QED
    BY <2>2, MaxRetryAssumption DEF RepeatOf
<1>2. Inv /\ RepeatInv /\ [Next]_vars => RepeatInv'
  BY RepeatStep
<1>3. RepeatInv => RepeatsBounded
  BY DEF RepeatInv, RepeatOf, RepeatsBounded, Total
<1> QED
  BY <1>1, <1>2, <1>3, Inductive, PTL DEF Spec

-----------------------------------------------------------------------------
(* Without the retry job, and one refund at most *)

(* What is given back has been taken, and a refund is the first to give it. *)
OnceOf(a) ==
  /\ pointDeducted[a] => applied[a]["use"] >= 1
  /\ cardCharged[a] => applied[a]["charge"] >= 1
  /\ \A r \in Refunders : refund[r].of = a =>
       /\ refund[r].step = "points" => Total(a, "cancel") = 0
       /\ refund[r].step \in {"points", "card"} => Total(a, "refund") = 0

OnceInv == job = Idle /\ NeverOverCompensated /\ \A a \in Attempts : OnceOf(a)

(* A refund that is at a step was there before, or has just been loaded. *)
LEMMA RefundAt ==
  ASSUME Inv, [Next]_vars, NEW r \in Refunders, refund'[r].step \in {"points", "card"}
  PROVE  \/ refund'[r] = refund[r]
         \/ LoadPayment(r) /\ refund'[r].of \in Completed /\ refund[r].step = "idle"
         \/ /\ RefundPoints(r) /\ refund[r].step = "points"
            /\ refund'[r].step = "card" /\ refund'[r].of = refund[r].of
<1>1. TypeOK
  BY DEF Inv
<1>2. CASE \E q \in Refunders : LoadPayment(q) \/ RefunderStep(q)
  <2>1. PICK q \in Refunders : LoadPayment(q) \/ RefunderStep(q)
    BY <1>2
  <2>2. CASE q # r
    BY <1>1, <2>1, <2>2 DEF TypeOK, LoadPayment, RefunderStep, RefundPoints, RefundToCard, SaveRefunded, RefundStep
  <2>3. CASE q = r
    <3>1. ~RefundToCard(r) /\ ~SaveRefunded(r)
      BY <1>1 DEF TypeOK, RefundToCard, SaveRefunded, RefundStep
    <3>2. LoadPayment(r) \/ RefundPoints(r)
      BY <2>1, <2>3, <3>1 DEF RefunderStep
    <3> QED
      BY <1>1, <3>2 DEF TypeOK, LoadPayment, RefundPoints, RefundStep
  <2> QED
    BY <2>2, <2>3
<1>3. CASE Crash
  BY <1>1, <1>3 DEF Crash, TypeOK
<1> QED
  BY <1>2, <1>3, RefundChanges

LEMMA FlagsMean ==
  ASSUME Inv, [Next]_vars, NEW a \in Attempts, OnceOf(a)
  PROVE  /\ pointDeducted'[a] => applied'[a]["use"] >= 1
         /\ cardCharged'[a] => applied'[a]["charge"] >= 1
<1>1. TypeOK /\ RefundInv /\ applied \in Counts /\ late \in Counts /\ {"use", "charge"} \subseteq Effects
  BY DEF Inv, TypeOK, Counts, Effects
<1>2. \A e \in Effects : /\ applied[a][e] \in Nat /\ applied'[a][e] \in Nat /\ applied'[a][e] >= applied[a][e]
  BY <1>1, AppliedGrows
<1>3. \/ pointDeducted'[a] = pointDeducted[a]
      \/ Happens(a, "use")
  BY <1>1 DEF TypeOK, Next, AttemptStep, Start, CheckCompleted, UsePoints, ChargeCard, SavePayment, RefundCard, CancelPoints,
     RestoreStock, RevokeEarn, SaveFailedCompensation, LateArrives, JobNext, Poll, RetryCall, SaveCompleted, SaveRetry,
     SaveRetryFails, LoadPayment, RefunderStep, RefundPoints, RefundToCard, SaveRefunded, Crash, AllSettled, vars
<1>4. \/ cardCharged'[a] = cardCharged[a]
      \/ Happens(a, "charge")
  BY <1>1 DEF TypeOK, Next, AttemptStep, Start, CheckCompleted, UsePoints, ChargeCard, SavePayment, RefundCard, CancelPoints,
     RestoreStock, RevokeEarn, SaveFailedCompensation, LateArrives, JobNext, Poll, RetryCall, SaveCompleted, SaveRetry,
     SaveRetryFails, LoadPayment, RefunderStep, RefundPoints, RefundToCard, SaveRefunded, Crash, AllSettled, vars
<1>5. \A e \in Effects : Happens(a, e) => applied'[a][e] = applied[a][e] + 1
  BY <1>1, HappensCalls
<1> QED
  BY <1>1, <1>2, <1>3, <1>4, <1>5 DEF OnceOf

(* Who repeats a compensation when the job does not run. *)
LEMMA WithoutJob ==
  ASSUME ~SchedulingEnabled, Inv, job = Idle, [Next]_vars
  PROVE  job' = Idle /\ \A a \in Attempts, t \in Types : ~RetryCall(a, t)
<1>1. job.step = "idle" /\ ~Poll
  BY DEF Idle, Poll
<1>2. ~JobNext /\ ~SaveRetryFails /\ \A a \in Attempts, t \in Types : ~RetryCall(a, t)
  BY <1>1 DEF JobNext, SaveCompleted, SaveRetry, SaveRetryFails, RetryCall
<1>3. job' = job \/ job' = Idle
  BY <1>2 DEF Inv, Next, AttemptStep, Start, CheckCompleted, UsePoints, ChargeCard, SavePayment, RefundCard, CancelPoints,
     RestoreStock, RevokeEarn, SaveFailedCompensation, LateArrives, LoadPayment, RefunderStep, RefundPoints, RefundToCard,
     SaveRefunded, Crash, AllSettled, vars
<1> QED
  BY <1>2, <1>3

LEMMA OnceStep ==
  ASSUME ~SchedulingEnabled, \A r, q \in Refunders : r = q, Inv, OnceInv, [Next]_vars
  PROVE  OnceInv'
<1>1. job' = Idle /\ \A a \in Attempts, t \in Types : ~RetryCall(a, t)
  BY WithoutJob DEF OnceInv
<1>2. TypeOK /\ RefundInv /\ CountInv /\ \A a \in Attempts : OnceOf(a)
  BY DEF Inv, OnceInv
<1>3. \A a \in Attempts, e \in Effects : Total(a, e) \in Nat /\ Total(a, e)' \in Nat /\ applied[a][e] \in Nat /\ applied'[a][e] \in Nat
  <2>1. TypeOK /\ TypeOK'
    BY TypeStep DEF Inv
  <2> QED
    BY <2>1 DEF TypeOK, Total
<1>4. \A r \in Refunders : refund[r].step \in {"points", "card"} =>
        /\ refund[r].of \in Attempts /\ payment[refund[r].of] # "none" /\ pc[refund[r].of] = "ok"
  BY <1>2 DEF RefundInv, CountInv, CountOf
<1>5. {"cancel", "refund", "use", "charge", "restock", "revoke"} \subseteq Effects /\ \A e \in Effects : "ok" \notin Before(e)
  BY BeforeMeans DEF Effects
<1>6. ASSUME NEW a \in Attempts, NEW r \in Refunders, refund'[r].of = a, refund'[r].step \in {"points", "card"}
      PROVE  /\ refund'[r].step = "points" => Total(a, "cancel")' = 0
             /\ Total(a, "refund")' = 0
  <2>1. CASE refund'[r] = refund[r]
    <3>1. ~RefundPoints(r) /\ ~RefundToCard(r)
      BY <1>2, <2>1 DEF TypeOK, RefundPoints, RefundToCard, RefundStep
    <3>2. pc[a] = "ok" /\ \A q \in Refunders : ~RefundPoints(q) /\ ~RefundToCard(q)
      BY <1>4, <1>6, <2>1, <3>1
    <3>3. \A e \in Effects : ~Repeats(a, e)
      BY <1>1, <1>5, <3>2 DEF Repeats
    <3>4. Total(a, "cancel")' <= Total(a, "cancel") /\ Total(a, "refund")' <= Total(a, "refund")
      BY <1>2, <1>5, <3>3, WhoRepeats
    <3>5. /\ refund[r].step = "points" => Total(a, "cancel") = 0
          /\ Total(a, "refund") = 0
      BY <1>2, <1>6, <2>1 DEF OnceOf
    <3> QED
      BY <1>3, <1>5, <2>1, <3>4, <3>5
  <2>2. CASE LoadPayment(r) /\ a \in Completed /\ refund[r].step = "idle"
    <3>1. ~Refunding(a) /\ pc[a] = "ok"
      BY <1>2, <2>2 DEF Refunding, Completed, CountInv, CountOf
    <3>2. Total(a, "cancel") = 0 /\ Total(a, "refund") = 0
      BY <1>2, <1>3, <1>5, <3>1 DEF CountInv, CountOf
    <3> QED
      BY <2>2, <3>2 DEF LoadPayment, Total
  <2>3. CASE RefundPoints(r) /\ refund[r].step = "points" /\ refund'[r].step = "card" /\ refund[r].of = a
    <3>1. pc[a] = "ok" /\ Total(a, "refund") = 0
      BY <1>2, <1>4, <2>3 DEF OnceOf
    <3>2. \A q \in Refunders : ~RefundToCard(q)
      BY <2>3 DEF RefundToCard
    <3>3. ~Repeats(a, "refund")
      BY <1>1, <1>5, <3>1, <3>2 DEF Repeats
    <3>4. Total(a, "refund")' <= Total(a, "refund")
      BY <1>2, <1>5, <3>3, WhoRepeats
    <3> QED
      BY <1>3, <1>5, <2>3, <3>1, <3>4
  <2> QED
    BY <1>6, <2>1, <2>2, <2>3, RefundAt
<1>7. \A a \in Attempts : OnceOf(a)'
  BY <1>2, <1>6, FlagsMean DEF OnceOf
<1>8. ASSUME NEW a \in Attempts
      PROVE  /\ Total(a, "cancel")' <= PointsToGiveBack(a)'
             /\ Total(a, "refund")' <= applied'[a]["charge"]
             /\ Total(a, "restock")' <= 1 /\ Total(a, "revoke")' <= 1
  <2>1. /\ Total(a, "cancel") <= PointsToGiveBack(a) /\ Total(a, "refund") <= applied[a]["charge"]
        /\ Total(a, "restock") <= 1 /\ Total(a, "revoke") <= 1
    <3>1. late[a]["refund"] = 0
      BY <1>2 DEF CountInv, CountOf
    <3> QED
      BY <1>3, <1>5, <3>1 DEF OnceInv, NeverOverCompensated, Total
  <2>2. applied'[a]["use"] >= applied[a]["use"] /\ applied'[a]["charge"] >= applied[a]["charge"]
    BY <1>2, <1>5, AppliedGrows
  <2>3. \A e \in Effects : \/ Total(a, e)' <= Total(a, e)
                           \/ Total(a, e)' <= 1 /\ pc[a] \in Before(e) /\ (e = "cancel" => pointDeducted[a])
                              /\ (e = "refund" => cardCharged[a])
                           \/ Total(a, e)' <= 1 /\ e = "cancel" /\ payment[a] # "none" /\ order.pointUsed
                           \/ Total(a, e)' <= 1 /\ e = "refund" /\ payment[a] # "none" /\ ChargesCard
    <3> SUFFICES ASSUME NEW e \in Effects, ~(Total(a, e)' <= Total(a, e))
                 PROVE  Total(a, e)' <= 1 /\ \/ pc[a] \in Before(e) /\ (e = "cancel" => pointDeducted[a])
                                                /\ (e = "refund" => cardCharged[a])
                                             \/ e = "cancel" /\ payment[a] # "none" /\ order.pointUsed
                                             \/ e = "refund" /\ payment[a] # "none" /\ ChargesCard
      OBVIOUS
    <3>1. Total(a, e)' <= Total(a, e) + 1 /\ Repeats(a, e)
      BY <1>2, WhoRepeats
    <3>2. pc[a] \in Before(e) => Total(a, e) = 0
      BY <1>2 DEF CountInv, CountOf
    <3>3. ASSUME NEW r \in Refunders, refund[r].of = a, RefundPoints(r)
          PROVE  payment[a] # "none" /\ Total(a, "cancel") = 0
      BY <1>2, <1>4, <3>3 DEF RefundPoints, OnceOf
    <3>4. ASSUME NEW r \in Refunders, refund[r].of = a, RefundToCard(r)
          PROVE  payment[a] # "none" /\ Total(a, "refund") = 0
      BY <1>2, <1>4, <3>4 DEF RefundToCard, OnceOf
    <3> QED
      BY <1>1, <1>3, <3>1, <3>2, <3>3, <3>4 DEF Repeats
  <2>4. /\ pointDeducted[a] => applied[a]["use"] >= 1
        /\ cardCharged[a] => applied[a]["charge"] >= 1
        /\ payment[a] # "none" /\ ChargesCard => applied[a]["charge"] = 1
    BY <1>2 DEF OnceOf, CountInv, CountOf
  <2>5. order' = order /\ (payment[a] # "none" => payment'[a] # "none")
    BY <1>2, PaymentStays, OrderStays
  <2>6. ASSUME payment[a] = "none", payment'[a] # "none" PROVE Total(a, "cancel")' = 0
    <3>1. SavePayment(a)
      BY <1>2, <2>6, PaymentStays
    <3>2. Total(a, "cancel")' = Total(a, "cancel")
      BY <3>1 DEF SavePayment, Total
    <3>3. pc[a] \in Before("cancel")
      BY <3>1, BeforeMeans DEF SavePayment
    <3> QED
      BY <1>2, <1>5, <3>2, <3>3 DEF CountInv, CountOf
  <2>7. Total(a, "cancel")' <= PointsToGiveBack(a)'
    <3>1. CASE payment[a] = "none" /\ payment'[a] = "none"
      BY <1>3, <1>5, <2>1, <2>2, <2>3, <2>4, <3>1 DEF PointsToGiveBack
    <3>2. CASE payment[a] = "none" /\ payment'[a] # "none"
      BY <2>6, <3>2 DEF PointsToGiveBack
    <3>3. CASE payment[a] # "none"
      <4>1. Total(a, "cancel")' <= Total(a, "cancel") \/ (Total(a, "cancel")' <= 1 /\ order.pointUsed)
        BY <1>2, <1>5, <2>3, <3>3 DEF CountInv, CountOf
      <4> QED
        BY <1>3, <1>5, <2>1, <2>5, <3>3, <4>1 DEF PointsToGiveBack
    <3> QED
      BY <3>1, <3>2, <3>3
  <2> QED
    BY <1>3, <1>5, <2>1, <2>2, <2>3, <2>4, <2>7
<1>9. NeverOverCompensated'
  <2>1. CountInv'
    BY CountStep DEF Inv
  <2>2. \A a \in Attempts : late'[a]["refund"] = 0
    BY <2>1 DEF CountInv, CountOf
  <2> QED
    BY <1>3, <1>5, <1>8, <2>2 DEF NeverOverCompensated, Total
<1> QED
  BY <1>1, <1>7, <1>9 DEF OnceInv

(* createPayment and one refundPayment: without the scheduled retries a    *)
(* failed attempt never gives back what it did not take, whatever is late, *)
(* lost or interrupted, nothing is restored or revoked twice, and the      *)
(* refund gives a paid one back once what its row says was used: which,    *)
(* with method CARD, nobody took (RefundGivesBackWhatWasTaken is refuted). *)
THEOREM NothingOverCompensated ==
  ASSUME ~SchedulingEnabled, \A r, q \in Refunders : r = q
  PROVE  Spec => []NeverOverCompensated
<1>1. Init => OnceInv
  <2> SUFFICES ASSUME Init PROVE OnceInv
    OBVIOUS
  <2>1. \A a \in Attempts, e \in Effects : applied[a][e] = 0 /\ late[a][e] = 0
    BY DEF Init
  <2>2. NeverOverCompensated
    <3> SUFFICES ASSUME NEW a \in Attempts
                 PROVE  /\ applied[a]["cancel"] + late[a]["cancel"] <= PointsToGiveBack(a)
                        /\ applied[a]["refund"] <= applied[a]["charge"]
                        /\ applied[a]["restock"] + late[a]["restock"] <= 1
                        /\ applied[a]["revoke"] + late[a]["revoke"] <= 1
      BY DEF NeverOverCompensated
    <3>1. {"cancel", "refund", "use", "charge", "restock", "revoke"} \subseteq Effects
      BY DEF Effects
    <3>2. \A e \in Effects : applied[a][e] = 0 /\ late[a][e] = 0
      BY <2>1
    <3>3. PointsToGiveBack(a) \in {0, 1}
      BY <3>1, <3>2 DEF PointsToGiveBack
    <3> QED
      BY <3>1, <3>2, <3>3
  <2>3. \A a \in Attempts : OnceOf(a)
    BY DEF Init, OnceOf
  <2> QED
    BY <2>2, <2>3 DEF Init, OnceInv
<1>2. Inv /\ OnceInv /\ [Next]_vars => OnceInv'
  BY OnceStep
<1>3. OnceInv => NeverOverCompensated
  BY DEF OnceInv
<1> QED
  BY <1>1, <1>2, <1>3, Inductive, PTL DEF Spec

-----------------------------------------------------------------------------
(* What is left when nothing is to be retried *)

(* The job has made the call for this row and is to mark it COMPLETED. *)
DoneInHand(a, t) == job.row = <<a, t>> /\ job.step \in {"saveCompleted", "saveRetryCompleted"}

(* A row goes to COMPLETED only after its call, except that restoreStock hides its failures. *)
DoneOf(a, t) ==
  /\ outbox[a][t].status = "PENDING" => outbox[a][t].retries < MaxRetry
  /\ t # "STOCK_RESTORE" /\ (outbox[a][t].status = "COMPLETED" \/ DoneInHand(a, t))
       => applied[a][EffectOf[t]] > 0

DoneInv == \A a \in Attempts, t \in Types : DoneOf(a, t)

NothingToRetry ==
  \A a \in Attempts, t \in Types : outbox[a][t].status \in {"none", "COMPLETED", "FAILED"}

(* An effect the catch block knows of was undone, or an operator finds its row FAILED. *)
NothingOwed ==
  \A a \in Attempts : pc[a] = "failed" =>
    /\ cardCharged[a] => applied[a]["refund"] > 0 \/ outbox[a]["CARD_REFUND"].status = "FAILED"
    /\ pointDeducted[a] => applied[a]["cancel"] > 0 \/ outbox[a]["POINT_RESTORE"].status = "FAILED"
    /\ applied[a]["revoke"] > 0 \/ outbox[a]["POINT_EARN_REVOKE"].status = "FAILED"

(* SaveCompleted marks a row whose call was made, SaveRetry one whose mark was not saved. *)
LEMMA MarkedWhenDone ==
  ASSUME TypeOK, JobInv, SaveCompleted \/ SaveRetry, NEW a \in Attempts, NEW t \in Types,
         outbox'[a][t].status = "COMPLETED" \/ DoneInHand(a, t)'
  PROVE  outbox[a][t].status = "COMPLETED" \/ DoneInHand(a, t)
<1>1. PICK b \in Attempts, u \in Types :
        /\ InHandOf(b, u) /\ outbox[b][u].retries < MaxRetry
        /\ \A c \in Attempts, v \in Types : c # b \/ v # u => outbox'[c][v] = outbox[c][v]
        /\ \/ job' = [step |-> "saveRetryCompleted", polled |-> job.polled, row |-> <<b, u>>]
           \/ job' \in {Idle, [step |-> "next", polled |-> job.polled, row |-> None]}
  BY SavedByJob
<1>2. job.row = <<b, u>>
  BY <1>1 DEF InHandOf
<1>3. CASE SaveCompleted
  <2>1. DoneInHand(b, u)
    BY <1>2, <1>3 DEF SaveCompleted, DoneInHand
  <2>2. DoneInHand(a, t)' => a = b /\ t = u
    BY <1>1 DEF DoneInHand, Idle
  <2> QED
    BY <1>1, <2>1, <2>2
<1>4. CASE SaveRetry
  <2>1. ~DoneInHand(a, t)'
    BY <1>4 DEF SaveRetry, JobStep, DoneInHand, Idle
  <2>2. CASE job.step = "saveRetryCompleted"
    BY <1>1, <1>2, <2>1, <2>2 DEF DoneInHand
  <2>3. CASE job.step = "saveRetry"
    <3> DEFINE n == outbox[b][u].retries + 1
               s == IF n >= MaxRetry THEN "FAILED" ELSE "PENDING"
    <3>1. SetRow(s, n)
      BY <1>2, <1>4, <2>3 DEF SaveRetry, Counted, Exhausted, InHand
    <3>2. outbox[b][u].retries \in 0 .. MaxRetry
      BY DEF TypeOK
    <3>3. n \in 0 .. MaxRetry /\ s \in {"PENDING", "COMPLETED", "FAILED"} /\ s # "COMPLETED"
      BY <1>1, <3>2, MaxRetryAssumption
    <3> HIDE DEF n, s
    <3>4. outbox'[b][u].status = s
      BY <1>2, <3>1, <3>3, SetRowMeans
    <3> QED
      BY <1>1, <2>1, <3>3, <3>4
  <2> QED
    BY <1>4, <2>2, <2>3 DEF SaveRetry
<1> QED
  BY <1>3, <1>4

(* A call that the job takes for made has been made. *)
LEMMA RetryDone ==
  ASSUME TypeOK, NEW a \in Attempts, NEW t \in Types \ {"STOCK_RESTORE"}, RetryCall(a, t), DoneInHand(a, t)'
  PROVE  applied'[a][EffectOf[t]] > 0
<1>1. EffectOf[t] \in Effects
  BY EffectOfMeans DEF Types, Effects
<1>2. Happens(a, EffectOf[t])
  BY DEF RetryCall, JobStep, DoneInHand
<1>3. applied \in Counts /\ late \in Counts
  BY DEF TypeOK, Counts
<1> QED
  BY <1>1, <1>2, <1>3, HappensCalls DEF Counts

(* Who brings a row to COMPLETED, or in the hand of the job to be marked so. *)
LEMMA DoneMoves ==
  ASSUME Inv, [Next]_vars, NEW a \in Attempts, NEW t \in Types,
         outbox'[a][t].status = "COMPLETED" \/ DoneInHand(a, t)'
  PROVE  \/ outbox[a][t].status = "COMPLETED" \/ DoneInHand(a, t)
         \/ RetryCall(a, t) /\ DoneInHand(a, t)'
<1>1. TypeOK /\ JobInv
  BY DEF Inv
<1>2. CASE SaveCompleted \/ SaveRetry
  BY <1>1, <1>2, MarkedWhenDone
<1>3. CASE ~SaveCompleted /\ ~SaveRetry
  <2>1. outbox'[a][t].status = "COMPLETED" => outbox[a][t].status = "COMPLETED"
    <3>1. ASSUME NEW b \in Attempts, SaveFailedCompensation(b)
          PROVE  outbox'[a][t] = outbox[a][t] \/ outbox'[a][t].status = "PENDING"
      BY <1>1, <3>1, SavedRow
    <3> QED
      BY <1>1, <1>3, <3>1, OutboxChanges
  <2>2. \/ job' = job \/ job' = Idle \/ Poll
        \/ \E b \in Attempts, u \in Types : RetryCall(b, u)
    BY <1>3 DEF Next, AttemptStep, Start, CheckCompleted, UsePoints, ChargeCard, SavePayment, RefundCard, CancelPoints,
       RestoreStock, RevokeEarn, SaveFailedCompensation, LateArrives, JobNext, SaveRetryFails, LoadPayment, RefunderStep,
       RefundPoints, RefundToCard, SaveRefunded, Crash, AllSettled, vars
  <2>3. ASSUME NEW b \in Attempts, NEW u \in Types, RetryCall(b, u), DoneInHand(a, t)' PROVE a = b /\ t = u
    BY <2>3 DEF RetryCall, JobStep, DoneInHand, Idle
  <2>4. DoneInHand(a, t)' => DoneInHand(a, t) \/ RetryCall(a, t)
    <3>1. ~(job' = Idle /\ DoneInHand(a, t)') /\ ~(Poll /\ DoneInHand(a, t)')
      BY DEF Poll, JobStep, DoneInHand, Idle
    <3>2. job' = job /\ DoneInHand(a, t)' => DoneInHand(a, t)
      BY DEF DoneInHand
    <3> QED
      BY <2>2, <2>3, <3>1, <3>2
  <2> QED
    BY <2>1, <2>4
<1> QED
  BY <1>2, <1>3

LEMMA DoneStep ==
  ASSUME Inv, DoneInv, [Next]_vars
  PROVE  DoneInv'
<1> SUFFICES ASSUME NEW a \in Attempts, NEW t \in Types PROVE DoneOf(a, t)'
  BY DEF DoneInv
<1>1. TypeOK /\ JobInv /\ RefundInv /\ DoneOf(a, t)
  BY DEF Inv, DoneInv
<1>2. outbox'[a][t].status = "PENDING" => outbox'[a][t].retries < MaxRetry
  <2>1. ASSUME NEW b \in Attempts, SaveFailedCompensation(b)
        PROVE  outbox'[a][t] = outbox[a][t] \/ outbox'[a][t].retries = 0
    BY <1>1, <2>1, SavedRow
  <2>2. ASSUME SaveCompleted \/ SaveRetry
        PROVE  \/ outbox'[a][t] = outbox[a][t]
               \/ outbox'[a][t].status # "PENDING"
               \/ outbox'[a][t].retries < MaxRetry
    BY <1>1, <2>2, SavedByJob
  <2> QED
    BY <1>1, <2>1, <2>2, OutboxChanges, MaxRetryAssumption DEF DoneOf
<1>3. ASSUME t # "STOCK_RESTORE", outbox'[a][t].status = "COMPLETED" \/ DoneInHand(a, t)'
      PROVE  applied'[a][EffectOf[t]] > 0
  <2>1. EffectOf[t] \in Effects
    BY EffectOfMeans DEF Types, Effects
  <2>2. CASE outbox[a][t].status = "COMPLETED" \/ DoneInHand(a, t)
    BY <1>1, <1>3, <2>1, <2>2, AppliedGrows DEF DoneOf
  <2>3. CASE RetryCall(a, t) /\ DoneInHand(a, t)'
    BY <1>1, <1>3, <2>3, RetryDone
  <2> QED
    BY <1>3, <2>2, <2>3, DoneMoves
<1> QED
  BY <1>2, <1>3 DEF DoneOf

(* CompensationService: when the job finds no row to retry, none is left   *)
(* PENDING, and all that the catch block of a failed payment knew of was   *)
(* given back, or has a row that is FAILED.  The safety half of            *)
(* PendingIsSettled and KnownEffectsUndone.                                *)
THEOREM SettledWithoutRetries == Spec => [](Pending = {} => NothingToRetry /\ NothingOwed)
<1>1. Init => DoneInv
  <2> SUFFICES ASSUME Init, NEW a \in Attempts, NEW t \in Types PROVE DoneOf(a, t)
    BY DEF DoneInv
  <2>1. outbox[a][t].status = "none" /\ ~DoneInHand(a, t)
    BY DEF Init, NoRow, DoneInHand, Idle
  <2> QED
    BY <2>1 DEF DoneOf
<1>2. Inv /\ DoneInv /\ [Next]_vars => DoneInv'
  BY DoneStep
<1>3. Inv /\ DoneInv => (Pending = {} => NothingToRetry /\ NothingOwed)
  <2> SUFFICES ASSUME Inv, DoneInv, Pending = {} PROVE NothingToRetry /\ NothingOwed
    OBVIOUS
  <2>1. \A a \in Attempts, t \in Types : outbox[a][t].status \in {"none", "PENDING", "COMPLETED", "FAILED"}
    BY DEF Inv, TypeOK
  <2>2. NothingToRetry
    <3> SUFFICES ASSUME NEW a \in Attempts, NEW t \in Types, outbox[a][t].status = "PENDING" PROVE FALSE
      BY <2>1 DEF NothingToRetry
    <3>1. outbox[a][t].retries < MaxRetry
      BY DEF DoneInv, DoneOf
    <3>2. <<a, t>> \in Pending
      BY <3>1 DEF Pending
    <3> QED
      BY <3>2
  <2>3. ASSUME NEW a \in Attempts, NEW t \in Types \ {"STOCK_RESTORE"}, Undone(a, EffectOf[t], t)
        PROVE  applied[a][EffectOf[t]] > 0 \/ outbox[a][t].status = "FAILED"
    BY <2>2, <2>3 DEF NothingToRetry, Undone, DoneInv, DoneOf
  <2>4. KnownEffectsAccounted
    BY DEF Inv, KnownInv, KnownOf, KnownEffectsAccounted
  <2>5. NothingOwed
    <3> SUFFICES ASSUME NEW a \in Attempts, pc[a] = "failed"
                 PROVE  /\ cardCharged[a] => applied[a]["refund"] > 0 \/ outbox[a]["CARD_REFUND"].status = "FAILED"
                        /\ pointDeducted[a] => applied[a]["cancel"] > 0 \/ outbox[a]["POINT_RESTORE"].status = "FAILED"
                        /\ applied[a]["revoke"] > 0 \/ outbox[a]["POINT_EARN_REVOKE"].status = "FAILED"
      BY DEF NothingOwed
    <3>1. /\ cardCharged[a] => Undone(a, "refund", "CARD_REFUND")
          /\ pointDeducted[a] => Undone(a, "cancel", "POINT_RESTORE")
          /\ Undone(a, "revoke", "POINT_EARN_REVOKE")
      BY <2>4 DEF KnownEffectsAccounted
    <3>2. {"CARD_REFUND", "POINT_RESTORE", "POINT_EARN_REVOKE"} \subseteq Types \ {"STOCK_RESTORE"}
      BY DEF Types
    <3>3. EffectOf["CARD_REFUND"] = "refund" /\ EffectOf["POINT_RESTORE"] = "cancel" /\ EffectOf["POINT_EARN_REVOKE"] = "revoke"
      BY EffectOfMeans
    <3> QED
      BY <2>3, <3>1, <3>2, <3>3
  <2> QED
    BY <2>2, <2>5
<1> QED
  BY <1>1, <1>2, <1>3, Inductive, PTL DEF Spec
=============================================================================
