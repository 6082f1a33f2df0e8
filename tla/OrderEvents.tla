---------------------------- MODULE OrderEvents ----------------------------
(***************************************************************************)
(* What the topic order-events brings about: point-service earns points,   *)
(* product-service counts the order, search-service records it for its     *)
(* ranking, each in a consumer group of its own.  The broker delivers at    *)
(* least once: a consumer that dies reads again what it had not committed, *)
(* and no handler knows an order it has handled before.                    *)
(*                                                                         *)
(* Beside them payment-service takes back the points of an order whose     *)
(* payment failed, whether or not they have been earned by then.  One user *)
(* and one partition are followed; an order is of one unit, and its points *)
(* are the unit of the balance.  All statuses are CONFIRMED.               *)
(***************************************************************************)
EXTENDS Integers, FiniteSets, Folds, Functions

CONSTANTS MaxEvents,  \* bound: orders placed
          MaxTries,   \* MAX_RETRY of CompensationService
          MaxFaults   \* bound: deaths and failures

ASSUME EventsAssumption == MaxEvents \in Nat /\ MaxFaults \in Nat
ASSUME TriesAssumption == MaxTries \in Nat \ {0}

Groups == {"point", "product", "search"}
Events == 1..MaxEvents

VARIABLES
  oeLog,        \* events in the partition
  oePosition,   \* per group: events its consumer has handled
  oeCommitted,  \* per group: the offset it starts from after a death
  oeApplied,    \* per group and event: how often it took effect
  oeSkipped,    \* history, per group: events whose handling failed
  oePoints,     \* the user's balance
  oeRevoke,     \* per order: the revocation of its points
  oeEarly,      \* history: was one tried before its event was handled
  oeSpent,      \* history: points the user spent
  oeFaults      \* deaths and failures so far

oeVars == <<oeLog, oePosition, oeCommitted, oeApplied, oeSkipped, oePoints, oeRevoke, oeEarly, oeSpent, oeFaults>>

NotRevoked == [status |-> "none", tries |-> 0]

OrderEventsInit ==
  /\ oeLog = 0
  /\ oePosition = [g \in Groups |-> 0] /\ oeCommitted = [g \in Groups |-> 0]
  /\ oeApplied = [g \in Groups |-> [e \in Events |-> 0]]
  /\ oeSkipped = [g \in Groups |-> {}]
  /\ oePoints = 0 /\ oeSpent = 0 /\ oeEarly = FALSE
  /\ oeRevoke = [e \in Events |-> NotRevoked]
  /\ oeFaults = 0

(* RegistrationController sends the event of an order that was placed. *)
OrderPlaced ==
  /\ oeLog < MaxEvents
  /\ oeLog' = oeLog + 1
  /\ UNCHANGED <<oePosition, oeCommitted, oeApplied, oeSkipped, oePoints, oeRevoke, oeEarly, oeSpent, oeFaults>>

Fault == oeFaults < MaxFaults /\ oeFaults' = oeFaults + 1

-----------------------------------------------------------------------------
(* The consumers *)

HandleAgain(g) ==   \* the consumer does not go on, for mutation
  /\ oePosition[g] < oeLog
  /\ oeApplied' = [oeApplied EXCEPT ![g][oePosition[g] + 1] = @ + 1]
  /\ UNCHANGED <<oeLog, oePosition, oeCommitted, oeSkipped, oeRevoke, oeEarly, oeSpent, oeFaults>>

(* The next event of a group takes effect, and the consumer goes on. *)
Handle(g) ==
  /\ oePosition[g] < oeLog
  /\ oePosition' = [oePosition EXCEPT ![g] = @ + 1]
  /\ oeApplied' = [oeApplied EXCEPT ![g][oePosition[g] + 1] = @ + 1]
  /\ UNCHANGED <<oeLog, oeCommitted, oeSkipped, oeRevoke, oeEarly, oeSpent, oeFaults>>

EarnPoints == Handle("point") /\ oePoints' = oePoints + 1
IncrementOrderCount == Handle("product") /\ UNCHANGED oePoints
RecordOrder == Handle("search") /\ UNCHANGED oePoints

(* A failure: point-service and search-service catch it and go on, as the listener *)
(* container of product-service does after its retries.                            *)
HandlingFails(g) ==
  /\ oePosition[g] < oeLog
  /\ Fault
  /\ oePosition' = [oePosition EXCEPT ![g] = @ + 1]
  /\ oeSkipped' = [oeSkipped EXCEPT ![g] = @ \cup {oePosition[g] + 1}]
  /\ UNCHANGED <<oeLog, oeCommitted, oeApplied, oePoints, oeRevoke, oeEarly, oeSpent>>

CommitOffset(g) ==
  /\ oeCommitted[g] < oePosition[g]
  /\ oeCommitted' = [oeCommitted EXCEPT ![g] = oePosition[g]]
  /\ UNCHANGED <<oeLog, oePosition, oeApplied, oeSkipped, oePoints, oeRevoke, oeEarly, oeSpent, oeFaults>>

ConsumerDies(g) ==
  /\ Fault
  /\ oePosition' = [oePosition EXCEPT ![g] = oeCommitted[g]]
  /\ UNCHANGED <<oeLog, oeCommitted, oeApplied, oeSkipped, oePoints, oeRevoke, oeEarly, oeSpent>>

-----------------------------------------------------------------------------
(* The revocation of an order's points *)

(* POST /point/use, of the points of one order; early if they are not earned yet. *)
UsePoints(e) ==
  /\ oePoints >= 1
  /\ oePoints' = oePoints - 1
  /\ oeRevoke' = [oeRevoke EXCEPT ![e].status = "revoked"]

Tried(e) == oeEarly' = (oeEarly \/ oePosition["point"] < e)

(* The last step of a failed payment; its failure leaves the points to the retry job. *)
RevokeEarned(e) ==
  /\ e <= oeLog /\ oeRevoke[e].status = "none"
  /\ Tried(e)
  /\ \/ UsePoints(e) /\ UNCHANGED oeFaults
     \/ /\ \/ oePoints < 1 /\ UNCHANGED oeFaults
           \/ Fault
        /\ oeRevoke' = [oeRevoke EXCEPT ![e].status = "pending"]
        /\ UNCHANGED oePoints
  /\ UNCHANGED <<oeLog, oePosition, oeCommitted, oeApplied, oeSkipped, oeSpent>>

GivenUp(revocation) ==
  [tries |-> revocation.tries + 1, status |-> IF revocation.tries + 1 >= MaxTries THEN "failed" ELSE "pending"]

RetryRevocation(e) ==
  /\ oeRevoke[e].status = "pending"
  /\ Tried(e)
  /\ \/ UsePoints(e) /\ UNCHANGED oeFaults
     \/ /\ \/ oePoints < 1 /\ UNCHANGED oeFaults
           \/ Fault
        /\ oeRevoke' = [oeRevoke EXCEPT ![e] = GivenUp(@)]
        /\ UNCHANGED oePoints
  /\ UNCHANGED <<oeLog, oePosition, oeCommitted, oeApplied, oeSkipped, oeSpent>>

(* The user pays with points. *)
SpendPoints ==
  /\ oePoints >= 1
  /\ oePoints' = oePoints - 1 /\ oeSpent' = oeSpent + 1
  /\ UNCHANGED <<oeLog, oePosition, oeCommitted, oeApplied, oeSkipped, oeRevoke, oeEarly, oeFaults>>

OrderEventsNext ==
  \/ OrderPlaced
  \/ EarnPoints \/ IncrementOrderCount \/ RecordOrder
  \/ \E g \in Groups : HandlingFails(g) \/ CommitOffset(g) \/ ConsumerDies(g)
  \/ \E e \in Events : RevokeEarned(e) \/ RetryRevocation(e)
  \/ SpendPoints

(* Consumers that can go on do, and the retry job comes round. *)
OrderEventsFairness ==
  /\ WF_oeVars(EarnPoints \/ IncrementOrderCount \/ RecordOrder)
  /\ WF_oeVars(\E e \in Events : RetryRevocation(e))

OrderEventsSpec == OrderEventsInit /\ [][OrderEventsNext]_oeVars /\ OrderEventsFairness

-----------------------------------------------------------------------------
(* Properties *)

OrderEventsTypeOK ==
  /\ oeLog \in 0..MaxEvents
  /\ oePosition \in [Groups -> 0..MaxEvents] /\ oeCommitted \in [Groups -> 0..MaxEvents]
  /\ oeApplied \in [Groups -> [Events -> 0..(MaxFaults + 1)]]
  /\ oeSkipped \in [Groups -> SUBSET Events]
  /\ oePoints \in Nat /\ oeSpent \in Nat
  /\ oeRevoke \in [Events -> [status : {"none", "pending", "revoked", "failed"}, tries : 0..MaxTries]]
  /\ oeEarly \in BOOLEAN /\ oeFaults \in 0..MaxFaults

Revoked == {e \in Events : oeRevoke[e].status = "revoked"}
Deliveries(g) == FoldFunction(+, 0, oeApplied[g])

(* An event a consumer has passed took effect or failed, no event takes effect       *)
(* oftener than once more for each death, and what was earned is what the user has,  *)
(* has spent or was revoked.  A revocation is only given up if one was tried before  *)
(* its points were earned, or the user spent points, or a call failed: the points of *)
(* a failed payment then stay with the user (OrderEventConsumer of the three         *)
(* services, PaymentService, CompensationService).                                   *)
EarnedByDeliveries ==
  /\ \A g \in Groups, e \in Events :
       /\ e <= oePosition[g] => oeApplied[g][e] > 0 \/ e \in oeSkipped[g]
       /\ oeApplied[g][e] <= 1 + oeFaults
  /\ Deliveries("point") = oePoints + oeSpent + Cardinality(Revoked)
  /\ (\E e \in Events : oeRevoke[e].status = "failed") => oeEarly \/ oeSpent > 0 \/ oeFaults > 0

(* When no more orders come, every event has taken effect in every group or failed  *)
(* there, however often consumers died, and every revocation left to the retry job  *)
(* has been done or given up.                                                       *)
Consumed ==
  /\ \A g \in Groups : oePosition[g] = oeLog
  /\ \A e \in Events : oeRevoke[e].status # "pending"
EventsConsumed == <>[]Consumed
=============================================================================
