----------------------------- MODULE PaymentSaga -----------------------------
(***************************************************************************)
(* payment-service: the attempts to pay ONE order, the compensations of    *)
(* those that fail, the compensation outbox and its retry job, refunds.    *)
(*                                                                         *)
(* Every attempt carries the same orderId and the same request: a double   *)
(* click, or a client that saw no answer.  Nothing in PaymentService is in *)
(* a transaction, so each database operation and each remote call is a     *)
(* step of its own.  Amounts are abstracted to counts: applied[a][e] says  *)
(* how often effect e has happened on behalf of attempt a.                 *)
(*                                                                         *)
(* A remote call (PointRestClient, ProductRestClient) either is answered,  *)
(* or fails: refused, unreachable, or its answer did not come in time.  A  *)
(* call without an answer may still take effect later.                     *)
(***************************************************************************)
EXTENDS Integers

CONSTANTS Attempts,           \* the createPayment calls for the order
          Orders,             \* what they may ask for
          Refunders,          \* the refundPayment calls
          MaxRetry,           \* CompensationService.MAX_RETRY
          MaxCrashes,         \* bound: how often the process dies
          SchedulingEnabled,  \* is the @Scheduled job ever run
          None                \* no row, no payment

Methods == {"POINT", "CARD", "CARD_AND_POINT"}

(* The request: its method, is its pointUsed above zero, do they leave     *)
(* something for a card, does it name a product.                           *)
ASSUME OrdersAssumption ==
  Orders \subseteq [method : Methods, pointUsed : BOOLEAN, rest : BOOLEAN, product : BOOLEAN]
ASSUME MaxRetryAssumption == MaxRetry \in Nat \ {0}
ASSUME MaxCrashesAssumption == MaxCrashes \in Nat
ASSUME SchedulingAssumption == SchedulingEnabled \in BOOLEAN

VARIABLES
  order,          \* what the request asks for
  pc,             \* per attempt: its next step
  pointDeducted,  \* per attempt: the local flag
  cardCharged,    \* per attempt: the local flag
  payment,        \* per attempt: status of the payment row it saved
  applied,        \* per attempt and effect: how often it has happened
  late,           \* per attempt and effect: unanswered calls still under way
  outbox,         \* per attempt and type: the compensation_outbox row
  job,            \* the retry job: its step, the rows it polled, the one in hand
  refund,         \* per refunder: its step and the payment it loaded
  crashes,        \* how often the process died
  overlapped      \* history: has an attempt started while another was running

vars == <<order, pc, pointDeducted, cardCharged, payment, applied, late,
          outbox, job, refund, crashes, overlapped>>

Effects == {"use", "charge", "refund", "cancel", "restock", "revoke"}
Types   == {"CARD_REFUND", "POINT_RESTORE", "STOCK_RESTORE", "POINT_EARN_REVOKE"}

(* The effect a row of the outbox stands for. *)
EffectOf == [CARD_REFUND |-> "refund", POINT_RESTORE |-> "cancel",
             STOCK_RESTORE |-> "restock", POINT_EARN_REVOKE |-> "revoke"]

NoRow == [status |-> "none", retries |-> 0]
Idle  == [step |-> "idle", polled |-> {}, row |-> None]

Answered == {"ok", "rejected", "failed", "escaped"}
Ended    == Answered \cup {"dead"}

Init ==
  /\ order \in Orders
  /\ pc = [a \in Attempts |-> "idle"]
  /\ pointDeducted = [a \in Attempts |-> FALSE]
  /\ cardCharged = [a \in Attempts |-> FALSE]
  /\ payment = [a \in Attempts |-> "none"]
  /\ applied = [a \in Attempts |-> [e \in Effects |-> 0]]
  /\ late = [a \in Attempts |-> [e \in Effects |-> 0]]
  /\ outbox = [a \in Attempts |-> [t \in Types |-> NoRow]]
  /\ job = Idle
  /\ refund = [r \in Refunders |-> [step |-> "idle", of |-> None]]
  /\ crashes = 0
  /\ overlapped = FALSE

(* What the switch on the method deducts and charges: with CARD no points, *)
(* although the row will say what pointUsed was.  A method that is none of *)
(* these (default) deducts and charges as POINT does.                      *)
DeductsPoints == order.pointUsed /\ order.method # "CARD"
ChargesCard == order.method = "CARD" \/ (order.method = "CARD_AND_POINT" /\ order.rest)

Goto(a, step) == pc' = [pc EXCEPT ![a] = step]

(* What a call made for attempt a does to the services called. *)
Happens(a, e) == /\ applied' = [applied EXCEPT ![a][e] = @ + 1]
                 /\ UNCHANGED late
Unanswered(a, e) == /\ late' = [late EXCEPT ![a][e] = @ + 1]
                    /\ UNCHANGED applied
Refused == UNCHANGED <<applied, late>>
Fails(a, e) == Unanswered(a, e) \/ Refused

-----------------------------------------------------------------------------
(* createPayment. *)
Start(a) ==
  /\ pc[a] = "idle"
  /\ overlapped' = (overlapped \/ \E b \in Attempts : pc[b] \notin Ended \cup {"idle"})
  /\ Goto(a, "check")
  /\ UNCHANGED <<order, pointDeducted, cardCharged, payment, applied, late,
                 outbox, job, refund, crashes>>

Completed == {b \in Attempts : payment[b] = "COMPLETED"}

(* The saga entered without a look at what is completed, for mutation. *)
CheckNothing(a) ==
  /\ pc[a] = "check"
  /\ Goto(a, "points")
  /\ UNCHANGED <<order, pointDeducted, cardCharged, payment, applied, late,
                 outbox, job, refund, crashes, overlapped>>

(* findByOrderIdAndStatus: a completed payment is returned as it is; two   *)
(* of them are one too many for an Optional; with none the saga begins.    *)
CheckCompleted(a) ==
  /\ pc[a] = "check"
  /\ \/ Completed = {} /\ Goto(a, "points")
     \/ \E b \in Attempts : Completed = {b} /\ Goto(a, "ok")
     \/ \E b, c \in Completed : b # c /\ Goto(a, "rejected")
  /\ UNCHANGED <<order, pointDeducted, cardCharged, payment, applied, late,
                 outbox, job, refund, crashes, overlapped>>

(* Two plausible slips, for mutation: the flag set before the call, and a  *)
(* deduction that failed not ending the attempt.                           *)
FlagBeforeCall(a) ==
  /\ pc[a] = "points"
  /\ pointDeducted' = [pointDeducted EXCEPT ![a] = DeductsPoints]
  /\ \/ ~DeductsPoints /\ Refused /\ Goto(a, "card")
     \/ DeductsPoints /\ Happens(a, "use") /\ Goto(a, "card")
     \/ DeductsPoints /\ Fails(a, "use") /\ Goto(a, "refundCard")
  /\ UNCHANGED <<order, cardCharged, payment, outbox, job, refund, crashes, overlapped>>

IgnoreFailedUse(a) ==
  /\ pc[a] = "points"
  /\ \/ ~DeductsPoints /\ Refused
     \/ DeductsPoints /\ (Happens(a, "use") \/ Fails(a, "use"))
  /\ Goto(a, "card")
  /\ UNCHANGED <<order, pointDeducted, cardCharged, payment, outbox, job, refund, crashes, overlapped>>

(* STEP 2, points: the flag is set only when the call has been answered. *)
UsePoints(a) ==
  /\ pc[a] = "points"
  /\ \/ ~DeductsPoints /\ Goto(a, "card") /\ Refused /\ UNCHANGED pointDeducted
     \/ /\ DeductsPoints /\ Happens(a, "use")
        /\ pointDeducted' = [pointDeducted EXCEPT ![a] = TRUE]
        /\ Goto(a, "card")
     \/ /\ DeductsPoints /\ Fails(a, "use")
        /\ Goto(a, "refundCard")
        /\ UNCHANGED pointDeducted
  /\ UNCHANGED <<order, cardCharged, payment, outbox, job, refund, crashes, overlapped>>

(* STEP 2, card: a local charge, and a signature of its own to verify. *)
ChargeCard(a) ==
  /\ pc[a] = "card"
  /\ \/ ~ChargesCard /\ Goto(a, "save") /\ Refused /\ UNCHANGED cardCharged
     \/ /\ ChargesCard /\ Happens(a, "charge")
        /\ cardCharged' = [cardCharged EXCEPT ![a] = TRUE]
        /\ Goto(a, "save")
     \/ /\ ChargesCard /\ Refused
        /\ Goto(a, "refundCard")
        /\ UNCHANGED cardCharged
  /\ UNCHANGED <<order, pointDeducted, payment, outbox, job, refund, crashes, overlapped>>

IgnoreFailedSave(a) ==   \* for mutation
  /\ pc[a] = "save"
  /\ payment' = [payment EXCEPT ![a] = "COMPLETED"] \/ UNCHANGED payment
  /\ Goto(a, "ok")
  /\ UNCHANGED <<order, pointDeducted, cardCharged, applied, late,
                 outbox, job, refund, crashes, overlapped>>

(* STEP 3: the payment row, COMPLETED from the start. *)
SavePayment(a) ==
  /\ pc[a] = "save"
  /\ \/ payment' = [payment EXCEPT ![a] = "COMPLETED"] /\ Goto(a, "ok")
     \/ Goto(a, "refundCard") /\ UNCHANGED payment
  /\ UNCHANGED <<order, pointDeducted, cardCharged, applied, late,
                 outbox, job, refund, crashes, overlapped>>

-----------------------------------------------------------------------------
(* The catch block.  A compensation that fails goes to the outbox.         *)
RefundCard(a) ==
  /\ pc[a] = "refundCard"
  /\ \/ ~cardCharged[a] /\ Refused /\ Goto(a, "cancelPoints")
     \/ cardCharged[a] /\ Happens(a, "refund") /\ Goto(a, "cancelPoints")
     \/ cardCharged[a] /\ Refused /\ Goto(a, "CARD_REFUND")
  /\ UNCHANGED <<order, pointDeducted, cardCharged, payment, outbox, job, refund, crashes, overlapped>>

CancelPointsOnce(a) ==   \* a failure only logged, for mutation
  /\ pc[a] = "cancelPoints"
  /\ \/ ~pointDeducted[a] /\ Refused
     \/ pointDeducted[a] /\ (Happens(a, "cancel") \/ Fails(a, "cancel"))
  /\ Goto(a, "restoreStock")
  /\ UNCHANGED <<order, pointDeducted, cardCharged, payment, outbox, job, refund, crashes, overlapped>>

CancelPoints(a) ==
  /\ pc[a] = "cancelPoints"
  /\ \/ ~pointDeducted[a] /\ Refused /\ Goto(a, "restoreStock")
     \/ pointDeducted[a] /\ Happens(a, "cancel") /\ Goto(a, "restoreStock")
     \/ pointDeducted[a] /\ Fails(a, "cancel") /\ Goto(a, "POINT_RESTORE")
  /\ UNCHANGED <<order, pointDeducted, cardCharged, payment, outbox, job, refund, crashes, overlapped>>

(* ProductRestClient.restoreStock lets no exception out. *)
RestoreStock(a) ==
  /\ pc[a] = "restoreStock"
  /\ \/ ~order.product /\ Refused
     \/ order.product /\ (Happens(a, "restock") \/ Fails(a, "restock"))
  /\ Goto(a, "revokeEarn")
  /\ UNCHANGED <<order, pointDeducted, cardCharged, payment, outbox, job, refund, crashes, overlapped>>

(* The points the order earned are taken back, whether earned yet or not. *)
RevokeEarn(a) ==
  /\ pc[a] = "revokeEarn"
  /\ \/ Happens(a, "revoke") /\ Goto(a, "failed")
     \/ Fails(a, "revoke") /\ Goto(a, "POINT_EARN_REVOKE")
  /\ UNCHANGED <<order, pointDeducted, cardCharged, payment, outbox, job, refund, crashes, overlapped>>

AfterSaving == [CARD_REFUND |-> "cancelPoints", POINT_RESTORE |-> "restoreStock",
                POINT_EARN_REVOKE |-> "failed"]

(* saveFailedCompensation: its own failure escapes from the catch block,   *)
(* and what was still to be compensated is not.                            *)
SaveFailedCompensation(a) ==
  /\ pc[a] \in DOMAIN AfterSaving
  /\ \/ /\ outbox' = [outbox EXCEPT ![a][pc[a]] = [status |-> "PENDING", retries |-> 0]]
        /\ Goto(a, AfterSaving[pc[a]])
     \/ Goto(a, "escaped") /\ UNCHANGED outbox
  /\ UNCHANGED <<order, pointDeducted, cardCharged, payment, applied, late,
                 job, refund, crashes, overlapped>>

(* A call that was not answered takes effect after all, or never will. *)
LateArrives(a, e) ==
  /\ late[a][e] > 0
  /\ late' = [late EXCEPT ![a][e] = @ - 1]
  /\ \/ applied' = [applied EXCEPT ![a][e] = @ + 1]
     \/ UNCHANGED applied
  /\ UNCHANGED <<order, pc, pointDeducted, cardCharged, payment, outbox, job, refund, crashes, overlapped>>

-----------------------------------------------------------------------------
(* CompensationService.retryFailedCompensations: one thread polls the      *)
(* PENDING rows, then takes them one by one: call, then save.              *)
UnderRetryLimit == {row \in Attempts \X Types :   \* any status, for mutation
                      /\ outbox[row[1]][row[2]].status # "none"
                      /\ outbox[row[1]][row[2]].retries < MaxRetry}

Pending == {row \in Attempts \X Types :
              /\ outbox[row[1]][row[2]].status = "PENDING"
              /\ outbox[row[1]][row[2]].retries < MaxRetry}

JobStep(step, polled, row) ==
  job' = IF step = "next" /\ polled = {}
           THEN Idle ELSE [step |-> step, polled |-> polled, row |-> row]

Poll ==
  /\ SchedulingEnabled
  /\ job = Idle
  /\ Pending # {}
  /\ JobStep("next", Pending, None)
  /\ UNCHANGED <<order, pc, pointDeducted, cardCharged, payment, applied, late,
                 outbox, refund, crashes, overlapped>>

(* Local refunds get an answer; restoreStock hides its failures. *)
RetryCall(a, t) ==
  /\ job.step = "next" /\ <<a, t>> \in job.polled
  /\ \/ /\ \/ Happens(a, EffectOf[t])
           \/ t = "STOCK_RESTORE" /\ Fails(a, EffectOf[t])
        /\ JobStep("saveCompleted", job.polled \ {<<a, t>>}, <<a, t>>)
     \/ /\ \/ t \in {"POINT_RESTORE", "POINT_EARN_REVOKE"} /\ Fails(a, EffectOf[t])
           \/ t = "CARD_REFUND" /\ Refused
        /\ JobStep("saveRetry", job.polled \ {<<a, t>>}, <<a, t>>)
  /\ UNCHANGED <<order, pc, pointDeducted, cardCharged, payment, outbox, refund, crashes, overlapped>>

SetRow(status, retries) ==
  outbox' = [outbox EXCEPT ![job.row[1]][job.row[2]] =
               [status |-> status, retries |-> retries]]

InHand == outbox[job.row[1]][job.row[2]]

(* A save that fails inside the try is counted as a failed retry of an     *)
(* entity already marked COMPLETED.                                        *)
SaveCompleted ==
  /\ job.step = "saveCompleted"
  /\ \/ /\ SetRow("COMPLETED", InHand.retries)
        /\ JobStep("next", job.polled, None)
     \/ /\ JobStep("saveRetryCompleted", job.polled, job.row)
        /\ UNCHANGED outbox
  /\ UNCHANGED <<order, pc, pointDeducted, cardCharged, payment, applied, late,
                 refund, crashes, overlapped>>

NotCounted(n) == n          \* for mutation, like MoreThanMax
MoreThanMax(n) == n > MaxRetry

Counted(n) == n + 1
Exhausted(n) == n >= MaxRetry

SaveRetry ==
  /\ job.step \in {"saveRetry", "saveRetryCompleted"}
  /\ LET n == Counted(InHand.retries)
     IN  SetRow(IF Exhausted(n) THEN "FAILED"
                ELSE IF job.step = "saveRetry" THEN "PENDING" ELSE "COMPLETED", n)
  /\ JobStep("next", job.polled, None)
  /\ UNCHANGED <<order, pc, pointDeducted, cardCharged, payment, applied, late,
                 refund, crashes, overlapped>>

(* A failure of that save ends the round; the next one polls again. *)
SaveRetryFails ==
  /\ job.step \in {"saveRetry", "saveRetryCompleted"}
  /\ crashes < MaxCrashes
  /\ crashes' = crashes + 1
  /\ job' = Idle
  /\ UNCHANGED <<order, pc, pointDeducted, cardCharged, payment, applied, late,
                 outbox, refund, overlapped>>

-----------------------------------------------------------------------------
(* refundPayment: the status is read at the start and written at the end;  *)
(* what fails in between is logged and forgotten.                          *)
RefundStep(r, step, a) == refund' = [refund EXCEPT ![r] = [step |-> step, of |-> a]]

LoadPayment(r) ==
  /\ refund[r].step = "idle"
  /\ \E a \in Completed : RefundStep(r, "points", a)
  /\ UNCHANGED <<order, pc, pointDeducted, cardCharged, payment, applied, late,
                 outbox, job, crashes, overlapped>>

(* payment.getPointUsed() is the request's, whatever the method deducted. *)
RefundPoints(r) ==
  /\ refund[r].step = "points"
  /\ \/ ~order.pointUsed /\ Refused
     \/ order.pointUsed /\ (Happens(refund[r].of, "cancel") \/ Fails(refund[r].of, "cancel"))
  /\ RefundStep(r, "card", refund[r].of)
  /\ UNCHANGED <<order, pc, pointDeducted, cardCharged, payment, outbox, job, crashes, overlapped>>

RefundToCard(r) ==
  /\ refund[r].step = "card"
  /\ \/ ChargesCard /\ Happens(refund[r].of, "refund")
     \/ Refused
  /\ RefundStep(r, "save", refund[r].of)
  /\ UNCHANGED <<order, pc, pointDeducted, cardCharged, payment, outbox, job, crashes, overlapped>>

Misspelt == "REFUND"   \* a status is a string in the code; for mutation

RefundedStatus == "REFUNDED"

SaveRefunded(r) ==
  /\ refund[r].step = "save"
  /\ \/ payment' = [payment EXCEPT ![refund[r].of] = RefundedStatus]
     \/ UNCHANGED payment
  /\ RefundStep(r, "done", refund[r].of)
  /\ UNCHANGED <<order, pc, pointDeducted, cardCharged, applied, late,
                 outbox, job, crashes, overlapped>>

-----------------------------------------------------------------------------
(* The process (there is one replica) dies with all it was doing.  A call  *)
(* it had under way is an unanswered one followed by the crash.            *)
Crash ==
  /\ crashes < MaxCrashes
  /\ crashes' = crashes + 1
  /\ pc' = [a \in Attempts |-> IF pc[a] \in Ended \cup {"idle"} THEN pc[a] ELSE "dead"]
  /\ refund' = [r \in Refunders |->
                  IF refund[r].step \in {"idle", "done"} THEN refund[r]
                  ELSE [refund[r] EXCEPT !.step = "done"]]
  /\ job' = Idle
  /\ UNCHANGED <<order, pointDeducted, cardCharged, payment, applied, late, outbox, overlapped>>

(* Everything asked for has been done, as far as the code ever does it. *)
AllSettled ==
  /\ \A a \in Attempts : pc[a] \in Ended
  /\ \A a \in Attempts, e \in Effects : late[a][e] = 0
  /\ job = Idle
  /\ SchedulingEnabled => Pending = {}
  /\ \A r \in Refunders : \/ refund[r].step = "done"
                          \/ refund[r].step = "idle" /\ Completed = {}
  /\ UNCHANGED vars

AttemptStep(a) ==
  \/ CheckCompleted(a) \/ UsePoints(a) \/ ChargeCard(a) \/ SavePayment(a)
  \/ RefundCard(a) \/ CancelPoints(a) \/ RestoreStock(a) \/ RevokeEarn(a)
  \/ SaveFailedCompensation(a)

JobNext == \/ Poll \/ SaveCompleted \/ SaveRetry
           \/ \E a \in Attempts, t \in Types : RetryCall(a, t)

RefunderStep(r) == RefundPoints(r) \/ RefundToCard(r) \/ SaveRefunded(r)

Next ==
  \/ \E a \in Attempts : Start(a) \/ AttemptStep(a)
  \/ \E a \in Attempts, e \in Effects : LateArrives(a, e)
  \/ JobNext \/ SaveRetryFails
  \/ \E r \in Refunders : LoadPayment(r) \/ RefunderStep(r)
  \/ Crash
  \/ AllSettled

Spec == Init /\ [][Next]_vars

(* Request threads and the scheduler thread run on; nobody has to send a   *)
(* request, and nothing makes a late call arrive.                          *)
Fairness == /\ \A a \in Attempts : WF_vars(AttemptStep(a))
            /\ \A r \in Refunders : WF_vars(RefunderStep(r))
            /\ WF_vars(JobNext)

FairSpec == Spec /\ Fairness

-----------------------------------------------------------------------------
(* Every variable has its type. *)
Steps == {"idle", "check", "points", "card", "save", "refundCard", "cancelPoints",
          "restoreStock", "revokeEarn"} \cup DOMAIN AfterSaving \cup Ended

JobSteps == {"idle", "next", "saveCompleted", "saveRetry", "saveRetryCompleted"}

RefundSteps == {"idle", "points", "card", "save", "done"}

TypeOK ==
  /\ order \in Orders
  /\ pc \in [Attempts -> Steps]
  /\ pointDeducted \in [Attempts -> BOOLEAN] /\ cardCharged \in [Attempts -> BOOLEAN]
  /\ payment \in [Attempts -> {"none", "COMPLETED", "REFUNDED"}]
  /\ applied \in [Attempts -> [Effects -> Nat]]
  /\ late \in [Attempts -> [Effects -> Nat]]
  /\ outbox \in [Attempts -> [Types ->
       [status : {"none", "PENDING", "COMPLETED", "FAILED"}, retries : 0 .. MaxRetry]]]
  /\ job \in [step : JobSteps, polled : SUBSET (Attempts \X Types),
              row : (Attempts \X Types) \cup {None}]
  /\ refund \in [Refunders -> [step : RefundSteps, of : Attempts \cup {None}]]
  /\ crashes \in 0 .. MaxCrashes
  /\ overlapped \in BOOLEAN

(* A payment row stands for exactly one deduction and one charge, and no   *)
(* compensation is ever made for an attempt that completed: only a refund  *)
(* of that payment gives anything back.                                    *)
CompletedIsPaid ==
  \A a \in Attempts : payment[a] # "none" =>
    /\ applied[a]["use"] = (IF DeductsPoints THEN 1 ELSE 0)
    /\ applied[a]["charge"] = (IF ChargesCard THEN 1 ELSE 0)
    /\ applied[a]["restock"] + late[a]["restock"] = 0
    /\ applied[a]["revoke"] + late[a]["revoke"] = 0
    /\ applied[a]["cancel"] + applied[a]["refund"] > 0
         => \E r \in Refunders : refund[r].of = a

(* Without a retry job a failed attempt never gives back what it did not   *)
(* take, nor twice what it took, whatever is late, lost or interrupted;    *)
(* and one refund of a paid one gives back once what its row says, which   *)
(* with method CARD need not have been taken (PaymentService:202).         *)
PointsToGiveBack(a) ==
  IF payment[a] = "none" THEN applied[a]["use"] ELSE IF order.pointUsed THEN 1 ELSE 0

NeverOverCompensated ==
  \A a \in Attempts :
    /\ applied[a]["cancel"] + late[a]["cancel"] <= PointsToGiveBack(a)
    /\ applied[a]["refund"] <= applied[a]["charge"]
    /\ applied[a]["restock"] + late[a]["restock"] <= 1
    /\ applied[a]["revoke"] + late[a]["revoke"] <= 1

(* When the catch block runs to its end, each effect the attempt knows of  *)
(* has been undone or is in the outbox: none of them is forgotten, however *)
(* the compensations fail.                                                 *)
Undone(a, e, t) == applied[a][e] > 0 \/ outbox[a][t].status # "none"

KnownEffectsAccounted ==
  \A a \in Attempts : pc[a] = "failed" =>
    /\ cardCharged[a] => Undone(a, "refund", "CARD_REFUND")
    /\ pointDeducted[a] => Undone(a, "cancel", "POINT_RESTORE")
    /\ Undone(a, "revoke", "POINT_EARN_REVOKE")

(* A caller told "ok" has paid: some attempt for its order took what the   *)
(* order costs, and its row was saved, even if a crash or a refund follows. *)
AnswerIsBacked ==
  \A a \in Attempts : pc[a] = "ok" => \E b \in Attempts : payment[b] # "none"

(* A client that waits for its answer before it tries again never pays     *)
(* twice: the check of createPayment:41 suffices for attempts that do not  *)
(* overlap, also after crashes and refunds.                                *)
PaidOnceInSequence == ~overlapped => \A a, b \in Completed : a = b

(* A row of the outbox that is COMPLETED or FAILED is never touched again: *)
(* the job's polled copy of a row is never older than the row.             *)
SettledRowsStay ==
  [][\A a \in Attempts, t \in Types :
       outbox[a][t].status \in {"COMPLETED", "FAILED"}
         => outbox'[a][t] = outbox[a][t]]_vars

(* The job repeats a compensation because it cannot tell a lost call from  *)
(* a lost answer, but not for ever: one more time per counted retry and    *)
(* per crash between the call and its save.                                *)
RepeatsBounded ==
  \A a \in Attempts, t \in Types :
    applied[a][EffectOf[t]] + late[a][EffectOf[t]] <= 1 + MaxRetry + crashes

(* CompensationService:48: what is PENDING is retried until it is settled. *)
PendingIsSettled ==
  \A a \in Attempts, t \in Types :
    outbox[a][t].status = "PENDING" ~> outbox[a][t].status \in {"COMPLETED", "FAILED"}

(* What a failed attempt knows it took is given back in the end, or the    *)
(* outbox says FAILED where an operator finds it.                          *)
KnownEffectsUndone ==
  \A a \in Attempts :
    /\ pc[a] = "failed" /\ pointDeducted[a]
         ~> \/ applied[a]["cancel"] > 0
            \/ outbox[a]["POINT_RESTORE"].status = "FAILED"
    /\ pc[a] = "failed" /\ cardCharged[a]
         ~> \/ applied[a]["refund"] > 0
            \/ outbox[a]["CARD_REFUND"].status = "FAILED"

-----------------------------------------------------------------------------
(* What the documents say and the code does not do.                        *)

(* docs/PAYMENT_TROUBLESHOOTING.md:977: repeating a payment with the same  *)
(* orderId never pays twice, whether or not the first has been answered.   *)
RepetitionPaysOnce == \A a, b \in Completed : a = b

(* docs/ARCHITECTURE.md:154: a refund restores the amount that was used,   *)
(* and PaymentService:198-199 refuses to refund a payment that has been.   *)
(* A refunded payment has given back no more than it took, and not twice.  *)
RefundGivesBackWhatWasTaken ==
  \A a \in Attempts :
    payment[a] = "REFUNDED" => /\ applied[a]["cancel"] <= applied[a]["use"]
                               /\ applied[a]["refund"] <= applied[a]["charge"]

(* docs/PAYMENT_TROUBLESHOOTING.md:1013-1015: an order whose payment failed *)
(* may be paid again under its orderId, one attempt after the other.  Then *)
(* what the paid order earned, and the stock it holds, are still its own.  *)
PaidOrderIsWhole ==
  ~overlapped =>
    \A a \in Completed, b \in Attempts :
      applied[b]["revoke"] = 0 /\ applied[b]["restock"] = 0

=============================================================================
