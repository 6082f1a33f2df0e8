------------------------------- MODULE Cards -------------------------------
(***************************************************************************)
(* payment-service: the cards of one user (CardService).                   *)
(*                                                                         *)
(* No method is in a transaction and Card has no version: each read and    *)
(* each save is a step of its own, and a save writes all columns of the    *)
(* row as the request read and changed it.  Within one web request the     *)
(* entity manager stays open: the compensation of a charge finds the row   *)
(* the charge left there.  The retry job has no such request: its save     *)
(* merges a row it read before, and inserts it again if it is gone.        *)
(***************************************************************************)
EXTENDS Integers, FiniteSets

CONSTANTS MaxCards,     \* bound: rows ever inserted
          Numbers,      \* card numbers, the one thing that tells cards apart
          CreditLimit,  \* creditLimit of every card
          Amounts,      \* what is charged and refunded
          Requests,     \* requests under way at a time
          NoCard        \* no row

ASSUME MaxCardsAssumption == MaxCards \in Nat
ASSUME LimitAssumption == CreditLimit \in Nat
ASSUME AmountsAssumption == Amounts \subseteq Nat

VARIABLES
  cdRows,      \* table cards, by id
  cdNext,      \* the id its next row gets
  cdRequests,  \* per request: what it does, how far it is, the row it holds
  cdSpent,     \* history, per card: charges less refunds, of the requests that saved
  cdRaced      \* history: did requests overlap that write to the same cards, or a deletion die

cdVars == <<cdRows, cdNext, cdRequests, cdSpent, cdRaced>>

CardIds == 1..MaxCards
Used == 0..CreditLimit
Row == [number : Numbers, used : Used, isDefault : BOOLEAN]

ASSUME NoCardAssumption == NoCard \notin Row

Rest == [op |-> "none", step |-> "idle", card |-> 0, number |-> NoCard, amount |-> 0, row |-> NoCard, target |-> 0,
         ok |-> FALSE]

CardsInit ==
  /\ cdRows = [c \in CardIds |-> NoCard]
  /\ cdNext = 1
  /\ cdRequests = [r \in Requests |-> Rest]
  /\ cdSpent = [c \in CardIds |-> 0]
  /\ cdRaced = FALSE

(* findByUserId *)
Existing == {c \in CardIds : cdRows[c] # NoCard}

Busy(r) == cdRequests[r].step \notin {"idle", "done"}

(* Registering and deleting decide on all cards; a charge or a refund is of one. *)
Collide(a, b) ==
  \/ {a.op, b.op} \subseteq {"register", "delete"}
  \/ "delete" \in {a.op, b.op} /\ {a.op, b.op} \cap {"charge", "refund", "retry"} # {}
  \/ a.card = b.card /\ {a.op, b.op} \subseteq {"charge", "refund", "retry"}

Begin(r, request) ==
  /\ cdRequests[r].step = "idle"
  /\ cdRequests' = [cdRequests EXCEPT ![r] = request]
  /\ cdRaced' = (cdRaced \/ \E q \in Requests : Busy(q) /\ Collide(request, cdRequests[q]))
  /\ UNCHANGED <<cdRows, cdNext, cdSpent>>

RegisterCard(r, number) == Begin(r, [Rest EXCEPT !.op = "register", !.step = "check", !.number = number])
DeleteCard(r, c) == Begin(r, [Rest EXCEPT !.op = "delete", !.step = "read", !.card = c])
ProcessCardPayment(r, c, amount) ==
  Begin(r, [Rest EXCEPT !.op = "charge", !.step = "read", !.card = c, !.amount = amount])
(* By refundPayment, or by the retry job. *)
RefundCardPayment(r, op, c, amount) ==
  Begin(r, [Rest EXCEPT !.op = op, !.step = "read", !.card = c, !.amount = amount])

Step(r, request) == cdRequests' = [cdRequests EXCEPT ![r] = request]
Goto(r, step) == Step(r, [cdRequests[r] EXCEPT !.step = step])
Hold(r, row, step) == Step(r, [cdRequests[r] EXCEPT !.step = step, !.row = row])
End(r, ok) == Step(r, [Rest EXCEPT !.op = cdRequests[r].op, !.step = "done", !.card = cdRequests[r].card, !.ok = ok])

At(r, op, step) == cdRequests[r].op = op /\ cdRequests[r].step = step

-----------------------------------------------------------------------------
(* registerCard *)

(* findByCardNumber: a conflict, or more rows than one. *)
FindByCardNumber(r) ==
  /\ At(r, "register", "check")
  /\ IF \E c \in Existing : cdRows[c].number = cdRequests[r].number THEN End(r, FALSE) ELSE Goto(r, "count")
  /\ UNCHANGED <<cdRows, cdNext, cdSpent, cdRaced>>

(* findByUserId: the first card is the default. *)
SetDefault(r) ==
  /\ At(r, "register", "count")
  /\ Hold(r, [number |-> cdRequests[r].number, used |-> 0, isDefault |-> Existing = {}], "insert")
  /\ UNCHANGED <<cdRows, cdNext, cdSpent, cdRaced>>

Insert(row, spent) ==
  /\ cdNext <= MaxCards
  /\ cdRows' = [cdRows EXCEPT ![cdNext] = row]
  /\ cdSpent' = [cdSpent EXCEPT ![cdNext] = spent]
  /\ cdNext' = cdNext + 1

SaveNewCard(r) ==
  /\ At(r, "register", "insert")
  /\ Insert(cdRequests[r].row, 0)
  /\ Step(r, [Rest EXCEPT !.op = "register", !.step = "done", !.card = cdNext, !.ok = TRUE])
  /\ UNCHANGED cdRaced

-----------------------------------------------------------------------------
(* deleteCard, processCardPayment, refundCardPayment *)

Charged(row, amount) == [row EXCEPT !.used = @ + amount]
RefundedBelowZero(row, amount) == [row EXCEPT !.used = @ - amount]   \* without Math.max, for mutation

Refunded(row, amount) == [row EXCEPT !.used = IF @ >= amount THEN @ - amount ELSE 0]

(* findById; a charge is refused above the limit.  Every card is ACTIVE. *)
FindById(r) ==
  /\ cdRequests[r].step = "read"
  /\ LET request == cdRequests[r]
         row == cdRows[request.card]
     IN CASE row = NoCard -> End(r, FALSE)
          [] row # NoCard /\ request.op = "delete" -> Hold(r, row, "delete")
          [] row # NoCard /\ request.op = "charge" ->
               IF request.amount > CreditLimit - row.used THEN End(r, FALSE)
               ELSE Hold(r, Charged(row, request.amount), "save")
          [] OTHER -> Hold(r, Refunded(row, request.amount), "save")
  /\ UNCHANGED <<cdRows, cdNext, cdSpent, cdRaced>>

DeleteRowOnly(r) ==   \* without a new default card, for mutation
  /\ At(r, "delete", "delete")
  /\ LET c == cdRequests[r].card IN
     IF cdRows[c] = NoCard THEN End(r, FALSE) /\ UNCHANGED cdRows
     ELSE cdRows' = [cdRows EXCEPT ![c] = NoCard] /\ End(r, TRUE)
  /\ UNCHANGED <<cdNext, cdSpent, cdRaced>>

(* delete; the row may be gone already. *)
DeleteRow(r) ==
  /\ At(r, "delete", "delete")
  /\ LET c == cdRequests[r].card IN
     IF cdRows[c] = NoCard THEN End(r, FALSE) /\ UNCHANGED cdRows
     ELSE /\ cdRows' = [cdRows EXCEPT ![c] = NoCard]
          /\ IF cdRequests[r].row.isDefault THEN Goto(r, "remaining") ELSE End(r, TRUE)
  /\ UNCHANGED <<cdNext, cdSpent, cdRaced>>

(* findByUserId: one of the remaining cards becomes the default. *)
RemainingCards(r) ==
  /\ At(r, "delete", "remaining")
  /\ IF Existing = {} THEN End(r, TRUE)
     ELSE \E c \in Existing :
            Step(r, [cdRequests[r] EXCEPT !.step = "default", !.target = c,
                                          !.row = [cdRows[c] EXCEPT !.isDefault = TRUE]])
  /\ UNCHANGED <<cdRows, cdNext, cdSpent, cdRaced>>

(* Save of a row read before, in a web request: an update of no row is an error. *)
Update(r, c) ==
  IF cdRows[c] = NoCard THEN End(r, FALSE) /\ UNCHANGED cdRows
  ELSE End(r, TRUE) /\ cdRows' = [cdRows EXCEPT ![c] = cdRequests[r].row]

SaveDefault(r) ==
  /\ At(r, "delete", "default")
  /\ Update(r, cdRequests[r].target)
  /\ UNCHANGED <<cdNext, cdSpent, cdRaced>>

SaveCharge(r) ==
  LET request == cdRequests[r] IN
  /\ At(r, "charge", "save")
  /\ IF cdRows[request.card] = NoCard THEN End(r, FALSE) /\ UNCHANGED <<cdRows, cdSpent>>
     ELSE /\ cdRows' = [cdRows EXCEPT ![request.card] = request.row]
          /\ cdSpent' = [cdSpent EXCEPT ![request.card] = IF cdRaced THEN @ ELSE @ + request.amount]
          /\ Goto(r, "charged")
  /\ UNCHANGED <<cdNext, cdRaced>>

(* The payment goes through, or it is compensated with the row at hand. *)
Settle(r) ==
  /\ At(r, "charge", "charged")
  /\ \/ End(r, TRUE)
     \/ Hold(r, Refunded(cdRequests[r].row, cdRequests[r].amount), "compensate")
  /\ UNCHANGED <<cdRows, cdNext, cdSpent, cdRaced>>

SpentLess(c, amount) ==
  cdSpent' = [cdSpent EXCEPT ![c] = IF cdRaced THEN @ ELSE IF @ >= amount THEN @ - amount ELSE 0]

(* The save of a refund; the retry job inserts a row that is gone. *)
SaveRefund(r) ==
  LET request == cdRequests[r] IN
  /\ At(r, "charge", "compensate") \/ At(r, "refund", "save") \/ At(r, "retry", "save")
  /\ IF request.op = "retry" /\ cdRows[request.card] = NoCard
     THEN Insert(request.row, request.row.used) /\ End(r, TRUE)
     ELSE /\ Update(r, request.card)
          /\ IF cdRows[request.card] = NoCard THEN UNCHANGED cdSpent ELSE SpentLess(request.card, request.amount)
          /\ UNCHANGED cdNext
  /\ UNCHANGED cdRaced

(* The process dies under the request, or the answer is taken. *)
Dies(r) ==
  /\ Busy(r)
  /\ Step(r, Rest)
  /\ cdRaced' = (cdRaced \/ cdRequests[r].step \in {"remaining", "default"})
  /\ UNCHANGED <<cdRows, cdNext, cdSpent>>

Return(r) ==
  /\ cdRequests[r].step = "done"
  /\ Step(r, Rest)
  /\ UNCHANGED <<cdRows, cdNext, cdSpent, cdRaced>>

CardStep(r) ==
  \/ FindByCardNumber(r) \/ SetDefault(r) \/ SaveNewCard(r)
  \/ FindById(r) \/ DeleteRow(r) \/ RemainingCards(r) \/ SaveDefault(r)
  \/ SaveCharge(r) \/ Settle(r) \/ SaveRefund(r)
  \/ Dies(r)

CardsNext ==
  \E r \in Requests :
    \/ \E n \in Numbers : RegisterCard(r, n)
    \/ \E c \in CardIds : \/ DeleteCard(r, c)
                          \/ \E amount \in Amounts : \/ ProcessCardPayment(r, c, amount)
                                                     \/ \E op \in {"refund", "retry"} : RefundCardPayment(r, op, c, amount)
    \/ CardStep(r)
    \/ Return(r)

CardsSpec == CardsInit /\ [][CardsNext]_cdVars

-----------------------------------------------------------------------------
(* Properties *)

CardsTypeOK ==
  /\ cdRows \in [CardIds -> Row \cup {NoCard}]
  /\ cdNext \in 1..(MaxCards + 1)
  /\ DOMAIN cdRequests = Requests
  /\ cdSpent \in [CardIds -> Nat]
  /\ cdRaced \in BOOLEAN

(* No card is ever used above its limit or below zero, however its charges,        *)
(* refunds, retries and changes of the default card overlap or die: each writes    *)
(* what it read within the limits, changed within the limits (processCardPayment,  *)
(* refundCardPayment, deleteCard).                                                 *)
CardsWithinLimit == \A c \in CardIds : cdRows[c] # NoCard => cdRows[c].used \in Used

(* While no charge or refund of a card overlaps another of the same card or a       *)
(* deletion of any card, no registration overlaps a registration or deletion, and   *)
(* no deletion dies half way, each card is used by exactly what was charged less    *)
(* what was refunded, no number is registered twice, and one of the cards is the    *)
(* default when no deletion is under way (registerCard, deleteCard,                 *)
(* processCardPayment and its compensation in the same request).                    *)
CardsAgree ==
  ~cdRaced =>
    /\ \A c \in Existing : cdRows[c].used = cdSpent[c]
    /\ \A c, d \in Existing : cdRows[c].number = cdRows[d].number => c = d
    /\ (\A r \in Requests : cdRequests[r].op # "delete") /\ Existing # {} =>
         Cardinality({c \in Existing : cdRows[c].isDefault}) = 1

-----------------------------------------------------------------------------
(* What a document says and the code does not do.                            *)

(* docs/PAYMENT_SECURITY.md:398: also payments at the same time stay within  *)
(* the limit.  Two charges that were approved, and are neither answered nor  *)
(* given back yet, fit the limit together (processCardPayment).              *)
ApprovedTogetherFit ==
  \A r, q \in Requests :
    /\ r # q /\ cdRequests[r].card = cdRequests[q].card
    /\ At(r, "charge", "charged") /\ At(q, "charge", "charged")
    => cdRequests[r].amount + cdRequests[q].amount <= CreditLimit
=============================================================================
