----------------------------- MODULE CardsProofs -----------------------------
(***************************************************************************)
(* Proofs about Cards: every card stays within its limit, and while no     *)
(* requests overlap that write the same cards, the cards agree with what   *)
(* was charged, registered and deleted, for any number of cards, numbers,  *)
(* requests and amounts; and about MyPage, the page that lists the cards.  *)
(*                                                                         *)
(* What makes this inductive: a request under way holds a row within the   *)
(* limits, and while none collided, what it holds is what the table has,   *)
(* changed as it is going to save it.  The page has what the table has but *)
(* for what its one call has changed.                                      *)
(***************************************************************************)
EXTENDS MyPage, FiniteSetTheorems, TLAPS

Ops == {"none", "register", "delete", "charge", "refund", "retry"}
Steps == {"idle", "done", "check", "count", "insert", "read", "delete", "remaining", "default", "save", "charged",
          "compensate"}

CardRequest == [op : Ops, step : Steps, card : CardIds \cup {0}, number : Numbers \cup {NoCard}, amount : Amounts \cup {0},
                row : Row \cup {NoCard}, target : CardIds \cup {0}, ok : BOOLEAN]

(* Which operation has which steps, and what it has to have there. *)
Underway(q) ==
  /\ q.step \in {"check", "count", "insert"} => q.op = "register" /\ q.number \in Numbers
  /\ q.step \in {"delete", "remaining", "default"} => q.op = "delete" /\ q.card \in CardIds
  /\ q.step \in {"charged", "compensate"} => q.op = "charge" /\ q.card \in CardIds
  /\ q.step = "save" => q.op \in {"charge", "refund", "retry"} /\ q.card \in CardIds
  /\ q.step = "read" => q.op \in {"delete", "charge", "refund", "retry"} /\ q.card \in CardIds
  /\ q.step = "default" => q.target \in CardIds
  /\ q.step \in {"insert", "delete", "remaining", "default", "save", "charged", "compensate"} => q.row \in Row

(* The rows from the next id on are unused. *)
Fresh == \A c \in CardIds : c >= cdNext => cdRows[c] = NoCard

TypeInv ==
  /\ cdRows \in [CardIds -> Row \cup {NoCard}]
  /\ cdNext \in 1..(MaxCards + 1)
  /\ cdRequests \in [Requests -> CardRequest]
  /\ \A r \in Requests : Underway(cdRequests[r])
  /\ cdSpent \in [CardIds -> Nat]
  /\ cdRaced \in BOOLEAN
  /\ Fresh

(* What a request holds is what the table has, as the request is to change it. *)
Faithful(q) ==
  /\ q.step \in {"count", "insert"} => \A c \in Existing : cdRows[c].number # q.number
  /\ q.step = "insert" => q.row.number = q.number /\ q.row.used = 0 /\ (q.row.isDefault <=> Existing = {})
  /\ q.step = "delete" => q.row = cdRows[q.card]
  /\ q.step \in {"remaining", "default"} => \A c \in Existing : ~cdRows[c].isDefault
  /\ q.step = "default" => /\ q.target \in Existing
                           /\ q.row.number = cdRows[q.target].number /\ q.row.used = cdRows[q.target].used /\ q.row.isDefault
  /\ q.step \in {"save", "charged", "compensate"} =>
       /\ q.card \in Existing
       /\ q.row.number = cdRows[q.card].number /\ (q.row.isDefault <=> cdRows[q.card].isDefault)
  /\ q.step = "charged" => q.row.used = cdRows[q.card].used
  /\ q.step = "save" /\ q.op = "charge" => q.row.used = cdRows[q.card].used + q.amount
  /\ (q.step = "save" /\ q.op # "charge") \/ q.step = "compensate" =>
       q.row.used = IF cdRows[q.card].used >= q.amount THEN cdRows[q.card].used - q.amount ELSE 0

BetweenDefaults(q) == q.step \in {"remaining", "default"}

RequestsApart == \A q, r \in Requests : q # r /\ Busy(q) /\ Busy(r) => ~Collide(cdRequests[q], cdRequests[r])

Table ==
  /\ \A c \in Existing : cdRows[c].used = cdSpent[c]
  /\ \A c, d \in Existing : cdRows[c].number = cdRows[d].number => c = d
  /\ \A c, d \in Existing : cdRows[c].isDefault /\ cdRows[d].isDefault => c = d
  /\ Existing # {} => \/ \E c \in Existing : cdRows[c].isDefault
                      \/ \E r \in Requests : BetweenDefaults(cdRequests[r])

AgreeInv == ~cdRaced => RequestsApart /\ Table /\ \A r \in Requests : Faithful(cdRequests[r])

-----------------------------------------------------------------------------
LEMMA AmountsAreNat == \A a \in Amounts : a \in Nat
  BY AmountsAssumption, SMT

LEMMA RowIsNoNoCard == \A row \in Row : row # NoCard
  BY NoCardAssumption, SMT

(* What a charge within the limit and a refund make of a row. *)
LEMMA ChargedRow ==
  ASSUME NEW row \in Row, NEW a \in Amounts \cup {0}, ~(a > CreditLimit - row.used)
  PROVE  /\ Charged(row, a) \in Row
         /\ Charged(row, a).used = row.used + a
         /\ Charged(row, a).number = row.number /\ Charged(row, a).isDefault = row.isDefault
  BY AmountsAreNat, LimitAssumption DEF Charged, Row, Used

LEMMA RefundedRow ==
  ASSUME NEW row \in Row, NEW a \in Amounts \cup {0}
  PROVE  /\ Refunded(row, a) \in Row
         /\ Refunded(row, a).used = IF row.used >= a THEN row.used - a ELSE 0
         /\ Refunded(row, a).number = row.number /\ Refunded(row, a).isDefault = row.isDefault
<1>1. a \in Nat
  BY AmountsAreNat
<1>2. row.used \in 0..CreditLimit
  BY DEF Row, Used
<1>3. (IF row.used >= a THEN row.used - a ELSE 0) \in Used
  BY <1>1, <1>2, LimitAssumption DEF Used
<1> QED
  BY <1>3 DEF Refunded, Row

LEMMA DefaultRow ==
  ASSUME NEW row \in Row
  PROVE  /\ [row EXCEPT !.isDefault = TRUE] \in Row
         /\ [row EXCEPT !.isDefault = TRUE].used = row.used
         /\ [row EXCEPT !.isDefault = TRUE].number = row.number
         /\ [row EXCEPT !.isDefault = TRUE].isDefault
  BY DEF Row

(* Requests as the steps change them. *)
LEMMA RestIsRequest == Rest \in CardRequest /\ Rest.step = "idle"
  BY DEF Rest, CardRequest, Ops, Steps

LEMMA WithStep ==
  ASSUME NEW q \in CardRequest, NEW s \in Steps
  PROVE  /\ [q EXCEPT !.step = s] \in CardRequest
         /\ [q EXCEPT !.step = s].step = s
         /\ [q EXCEPT !.step = s].op = q.op /\ [q EXCEPT !.step = s].card = q.card
         /\ [q EXCEPT !.step = s].number = q.number /\ [q EXCEPT !.step = s].row = q.row
         /\ [q EXCEPT !.step = s].target = q.target /\ [q EXCEPT !.step = s].amount = q.amount
  BY DEF CardRequest

-----------------------------------------------------------------------------
(* Types *)

LEMMA TypeInit == CardsInit => TypeInv
<1> SUFFICES ASSUME CardsInit PROVE TypeInv
  OBVIOUS
<1>1. cdNext \in 1..(MaxCards + 1)
  BY MaxCardsAssumption DEF CardsInit
<1>2. \A r \in Requests : cdRequests[r] = Rest
  BY DEF CardsInit
<1>3. Underway(Rest)
  BY DEF Underway, Rest
<1> QED
  BY <1>1, <1>2, <1>3, RestIsRequest DEF CardsInit, TypeInv, Fresh

LEMMA OneRequest ==
  ASSUME TypeInv, NEW r \in Requests, NEW x \in CardRequest, Underway(x), Step(r, x)
  PROVE  /\ cdRequests' \in [Requests -> CardRequest]
         /\ \A q \in Requests : Underway(cdRequests'[q])
         /\ cdRequests'[r] = x
         /\ \A q \in Requests \ {r} : cdRequests'[q] = cdRequests[q]
  BY DEF TypeInv, Step

(* What each step makes of its request. *)
LEMMA BeginStep ==
  ASSUME TypeInv, NEW r \in Requests, NEW x \in CardRequest, Underway(x), Begin(r, x)
  PROVE  TypeInv'
<1>1. Step(r, x)
  BY DEF Begin, Step
<1> QED
  BY <1>1, OneRequest DEF Begin, TypeInv, Fresh

LEMMA EndedRequest ==
  ASSUME TypeInv, NEW r \in Requests, NEW b \in BOOLEAN, End(r, b)
  PROVE  \E x \in CardRequest : Underway(x) /\ x.step = "done" /\ x.op = cdRequests[r].op /\ x.card = cdRequests[r].card /\ Step(r, x)
<1>1. cdRequests[r] \in CardRequest /\ cdRequests[r].card \in CardIds \cup {0}
  BY DEF TypeInv, CardRequest
<1> DEFINE x == [Rest EXCEPT !.op = cdRequests[r].op, !.step = "done", !.card = cdRequests[r].card, !.ok = b]
<1>2. x \in CardRequest /\ x.step = "done" /\ x.op = cdRequests[r].op /\ x.card = cdRequests[r].card
  BY <1>1 DEF CardRequest, Steps, Rest
<1>3. Step(r, x)
  BY DEF End
<1> HIDE DEF x
<1>4. Underway(x)
  BY <1>2 DEF Underway
<1> QED
  BY <1>2, <1>3, <1>4

LEMMA GoneRequest ==
  ASSUME TypeInv, NEW r \in Requests, NEW s \in {"count", "remaining", "charged"}, Goto(r, s),
         s = "count" => cdRequests[r].step = "check",
         s = "remaining" => cdRequests[r].step = "delete",
         s = "charged" => cdRequests[r].step = "save" /\ cdRequests[r].op = "charge"
  PROVE  \E x \in CardRequest : /\ Underway(x) /\ x.step = s /\ x.op = cdRequests[r].op /\ x.card = cdRequests[r].card
                                /\ x.number = cdRequests[r].number /\ x.row = cdRequests[r].row
                                /\ x.amount = cdRequests[r].amount /\ Step(r, x)
<1>1. cdRequests[r] \in CardRequest /\ Underway(cdRequests[r]) /\ s \in Steps
  BY DEF TypeInv, Steps
<1> DEFINE x == [cdRequests[r] EXCEPT !.step = s]
<1>2. /\ x \in CardRequest /\ x.step = s /\ x.op = cdRequests[r].op /\ x.card = cdRequests[r].card
      /\ x.number = cdRequests[r].number /\ x.row = cdRequests[r].row /\ x.amount = cdRequests[r].amount
  BY <1>1, WithStep
<1>3. Step(r, x)
  BY DEF Goto
<1> HIDE DEF x
<1>4. Underway(x)
  BY <1>1, <1>2 DEF Underway
<1> QED
  BY <1>2, <1>3, <1>4

LEMMA HoldingRequest ==
  ASSUME TypeInv, NEW r \in Requests, NEW row \in Row, NEW s \in {"insert", "delete", "save", "compensate"}, Hold(r, row, s),
         s = "insert" => cdRequests[r].step = "count",
         s = "delete" => cdRequests[r].step = "read" /\ cdRequests[r].op = "delete",
         s = "save" => cdRequests[r].step = "read" /\ cdRequests[r].op # "delete",
         s = "compensate" => cdRequests[r].step = "charged"
  PROVE  \E x \in CardRequest : /\ Underway(x) /\ x.step = s /\ x.op = cdRequests[r].op /\ x.card = cdRequests[r].card
                                /\ x.number = cdRequests[r].number /\ x.row = row
                                /\ x.amount = cdRequests[r].amount /\ Step(r, x)
<1>1. cdRequests[r] \in CardRequest /\ Underway(cdRequests[r]) /\ s \in Steps
  BY DEF TypeInv, Steps
<1> DEFINE x == [cdRequests[r] EXCEPT !.step = s, !.row = row]
<1>2. /\ x \in CardRequest /\ x.step = s /\ x.op = cdRequests[r].op /\ x.card = cdRequests[r].card
      /\ x.number = cdRequests[r].number /\ x.row = row /\ x.amount = cdRequests[r].amount
  BY <1>1 DEF CardRequest
<1>3. Step(r, x)
  BY DEF Hold
<1> HIDE DEF x
<1>4. Underway(x)
  BY <1>1, <1>2 DEF Underway
<1> QED
  BY <1>2, <1>3, <1>4

-----------------------------------------------------------------------------
(* Requests that do not collide *)

LEMMA CollideMeans ==
  ASSUME NEW a \in CardRequest, NEW b \in CardRequest
  PROVE  Collide(a, b) <=>
           \/ a.op \in {"register", "delete"} /\ b.op \in {"register", "delete"}
           \/ a.op = "delete" /\ b.op \in {"charge", "refund", "retry"}
           \/ b.op = "delete" /\ a.op \in {"charge", "refund", "retry"}
           \/ a.card = b.card /\ a.op \in {"charge", "refund", "retry"} /\ b.op \in {"charge", "refund", "retry"}
<1> DEFINE Pays == {"charge", "refund", "retry"}
<1>1. /\ {a.op, b.op} \subseteq {"register", "delete"} <=> a.op \in {"register", "delete"} /\ b.op \in {"register", "delete"}
      /\ {a.op, b.op} \subseteq Pays <=> a.op \in Pays /\ b.op \in Pays
  OBVIOUS
<1>2. "delete" \in {a.op, b.op} <=> a.op = "delete" \/ b.op = "delete"
  OBVIOUS
<1>3. {a.op, b.op} \cap Pays # {} <=> a.op \in Pays \/ b.op \in Pays
  OBVIOUS
<1>4. a.op = "delete" => a.op \notin Pays
  OBVIOUS
<1>5. b.op = "delete" => b.op \notin Pays
  OBVIOUS
<1>6. Collide(a, b) <=>
                      \/ {a.op, b.op} \subseteq {"register", "delete"}
                      \/ "delete" \in {a.op, b.op} /\ {a.op, b.op} \cap Pays # {}
                      \/ a.card = b.card /\ {a.op, b.op} \subseteq Pays
  BY DEF Collide
<1> HIDE DEF Pays
<1>7. Collide(a, b) <=>
                      \/ a.op \in {"register", "delete"} /\ b.op \in {"register", "delete"}
                      \/ a.op = "delete" /\ b.op \in Pays
                      \/ b.op = "delete" /\ a.op \in Pays
                      \/ a.card = b.card /\ a.op \in Pays /\ b.op \in Pays
  BY <1>1, <1>2, <1>3, <1>4, <1>5, <1>6, Zenon
<1> QED
  BY <1>7 DEF Pays

LEMMA BusyOps ==
  ASSUME TypeInv, NEW q \in Requests, Busy(q)
  PROVE  cdRequests[q].op \in {"register", "delete", "charge", "refund", "retry"}
  BY DEF TypeInv, Underway, Busy, CardRequest, Steps

LEMMA OtherRequests ==
  ASSUME TypeInv, AgreeInv, ~cdRaced, NEW r \in Requests, Busy(r), NEW q \in Requests \ {r}, Busy(q)
  PROVE  /\ cdRequests[r].op # "delete"
         /\ cdRequests[r].op = "register" => cdRequests[q].op \in {"charge", "refund", "retry"}
         /\ cdRequests[r].op \in {"charge", "refund", "retry"} =>
              \/ cdRequests[q].op = "register"
              \/ cdRequests[q].op \in {"charge", "refund", "retry"} /\ cdRequests[q].card # cdRequests[r].card
<1>1. ~Collide(cdRequests[r], cdRequests[q]) /\ cdRequests[r] \in CardRequest /\ cdRequests[q] \in CardRequest
  BY DEF AgreeInv, RequestsApart, TypeInv
<1>2. cdRequests[q].op \in {"register", "delete", "charge", "refund", "retry"}
  BY BusyOps
<1>3. cdRequests[r].op \in {"register", "delete", "charge", "refund", "retry"}
  BY BusyOps
<1> QED
  BY <1>1, <1>2, <1>3, CollideMeans

-----------------------------------------------------------------------------
(* Steps that leave the table alone *)

LEMMA BeginAgrees ==
  ASSUME TypeInv, AgreeInv, NEW r \in Requests, NEW x \in CardRequest, Underway(x), x.step \in {"check", "read"}, Begin(r, x)
  PROVE  AgreeInv'
<1> SUFFICES ASSUME ~cdRaced' PROVE RequestsApart' /\ Table' /\ \A q \in Requests : Faithful(cdRequests[q])'
  BY DEF AgreeInv
<1>1. ~cdRaced /\ cdRequests[r].step = "idle" /\ cdRows' = cdRows /\ cdSpent' = cdSpent
  BY DEF Begin
<1>2. /\ cdRequests'[r] = x
      /\ \A q \in Requests \ {r} : cdRequests'[q] = cdRequests[q]
  BY OneRequest DEF Begin, Step
<1>3. \A q \in Requests : Busy(q) => ~Collide(x, cdRequests[q])
  BY DEF Begin
<1>4. RequestsApart'
  <2> SUFFICES ASSUME NEW p \in Requests, NEW q \in Requests, p # q, Busy(p)', Busy(q)'
               PROVE  ~Collide(cdRequests'[p], cdRequests'[q])
    BY DEF RequestsApart
  <2>1. CASE p = r
    BY <1>2, <1>3, <2>1 DEF Busy
  <2>2. CASE q = r
    <3>1. Busy(p) /\ cdRequests'[p] = cdRequests[p] /\ cdRequests[p] \in CardRequest
      BY <1>2, <2>2 DEF Busy, TypeInv
    <3>2. ~Collide(x, cdRequests[p])
      BY <1>3, <3>1
    <3> QED
      BY <1>2, <2>2, <3>1, <3>2, CollideMeans
  <2>3. CASE p # r /\ q # r
    BY <1>1, <1>2, <2>3 DEF Busy, AgreeInv, RequestsApart
  <2> QED
    BY <2>1, <2>2, <2>3
<1>5. Table'
  <2>1. Table /\ ~BetweenDefaults(cdRequests[r])
    BY <1>1 DEF AgreeInv, BetweenDefaults
  <2>2. \A q \in Requests : BetweenDefaults(cdRequests[q]) => BetweenDefaults(cdRequests'[q])
    BY <1>2, <2>1
  <2> QED
    BY <1>1, <2>1, <2>2 DEF Table, Existing, BetweenDefaults
<1>6. ASSUME NEW q \in Requests PROVE Faithful(cdRequests[q])'
  <2>1. CASE q = r
    BY <1>2, <2>1 DEF Faithful
  <2>2. CASE q # r
    <3>1. Faithful(cdRequests[q]) /\ cdRequests'[q] = cdRequests[q]
      BY <1>1, <1>2, <2>2 DEF AgreeInv
    <3> QED
      BY <1>1, <3>1 DEF Faithful, Existing
  <2> QED
    BY <2>1, <2>2
<1> QED
  BY <1>4, <1>5, <1>6

(* A request that goes on collides with nothing it did not collide with before. *)
LEMMA ApartStep ==
  ASSUME TypeInv, RequestsApart, NEW r \in Requests, NEW x \in CardRequest, Underway(x), Step(r, x),
         x.step \in {"idle", "done"} \/ (Busy(r) /\ x.op = cdRequests[r].op /\ x.card = cdRequests[r].card)
  PROVE  RequestsApart'
<1>2. /\ cdRequests'[r] = x
      /\ \A q \in Requests \ {r} : cdRequests'[q] = cdRequests[q]
  BY OneRequest
<1> SUFFICES ASSUME NEW p \in Requests, NEW q \in Requests, p # q, Busy(p)', Busy(q)'
             PROVE  ~Collide(cdRequests'[p], cdRequests'[q])
  BY DEF RequestsApart
<1>3. Busy(p) /\ Busy(q) /\ ~Collide(cdRequests[p], cdRequests[q])
  BY <1>2 DEF Busy, RequestsApart
<1>4. /\ cdRequests[p] \in CardRequest /\ cdRequests[q] \in CardRequest
      /\ cdRequests'[p] \in CardRequest /\ cdRequests'[q] \in CardRequest
  BY OneRequest DEF TypeInv
<1>5. /\ cdRequests'[p].op = cdRequests[p].op /\ cdRequests'[p].card = cdRequests[p].card
      /\ cdRequests'[q].op = cdRequests[q].op /\ cdRequests'[q].card = cdRequests[q].card
  BY <1>2 DEF Busy
<1> QED
  BY <1>3, <1>4, <1>5, CollideMeans

LEMMA QuietStep ==
  ASSUME TypeInv, AgreeInv, NEW r \in Requests, NEW x \in CardRequest, Underway(x), Step(r, x),
         x.step \in {"idle", "done"} \/ (Busy(r) /\ x.op = cdRequests[r].op /\ x.card = cdRequests[r].card),
         cdRows' = cdRows, cdSpent' = cdSpent, ~cdRaced' => ~cdRaced,
         ~cdRaced' => Faithful(x),
         ~cdRaced' /\ BetweenDefaults(cdRequests[r]) => BetweenDefaults(x) \/ Existing = {}
  PROVE  AgreeInv'
<1> SUFFICES ASSUME ~cdRaced' PROVE RequestsApart' /\ Table' /\ \A q \in Requests : Faithful(cdRequests[q])'
  BY DEF AgreeInv
<1>2. /\ cdRequests'[r] = x
      /\ \A q \in Requests \ {r} : cdRequests'[q] = cdRequests[q]
  BY OneRequest
<1>3. RequestsApart'
  BY ApartStep DEF AgreeInv
<1>4. Table'
  <2>1. Table
    BY DEF AgreeInv
  <2>2. Existing # {} => \A q \in Requests : BetweenDefaults(cdRequests[q]) => BetweenDefaults(cdRequests'[q])
    BY <1>2
  <2> QED
    BY <2>1, <2>2 DEF Table, Existing, BetweenDefaults
<1>5. ASSUME NEW q \in Requests PROVE Faithful(cdRequests[q])'
  <2>1. CASE q = r
    <3>1. cdRequests'[q] = x /\ Faithful(x)
      BY <1>2, <2>1
    <3> QED
      BY <3>1 DEF Faithful, Existing
  <2>2. CASE q # r
    <3>1. Faithful(cdRequests[q]) /\ cdRequests'[q] = cdRequests[q]
      BY <1>2, <2>2 DEF AgreeInv
    <3> QED
      BY <3>1 DEF Faithful, Existing
  <2> QED
    BY <2>1, <2>2
<1> QED
  BY <1>3, <1>4, <1>5

LEMMA TypeQuiet ==
  ASSUME TypeInv, NEW r \in Requests, NEW x \in CardRequest, Underway(x), Step(r, x),
         cdRows' = cdRows, cdNext' = cdNext, cdSpent' = cdSpent, cdRaced' \in BOOLEAN
  PROVE  TypeInv'
  BY OneRequest DEF TypeInv, Fresh

Inv == TypeInv /\ AgreeInv

(* An end, wherever a request is allowed to end without touching the table. *)
LEMMA QuietEnd ==
  ASSUME Inv, NEW r \in Requests, Busy(r), NEW b \in BOOLEAN, End(r, b),
         UNCHANGED <<cdRows, cdNext, cdSpent, cdRaced>>,
         ~cdRaced => ~BetweenDefaults(cdRequests[r]) \/ Existing = {}
  PROVE  Inv'
<1>1. PICK x \in CardRequest : Underway(x) /\ x.step = "done" /\ Step(r, x)
  BY EndedRequest DEF Inv
<1>2. x.step \in {"idle", "done"} /\ Faithful(x)
  BY <1>1 DEF Faithful
<1>3. cdRows' = cdRows /\ cdNext' = cdNext /\ cdSpent' = cdSpent /\ cdRaced' = cdRaced
  OBVIOUS
<1>4. TypeInv /\ AgreeInv
  BY DEF Inv
<1>5. TypeInv'
  BY <1>1, <1>3, <1>4, TypeQuiet DEF TypeInv
<1>6. ~cdRaced' /\ BetweenDefaults(cdRequests[r]) => BetweenDefaults(x) \/ Existing = {}
  BY <1>3
<1>7. (~cdRaced' => ~cdRaced) /\ (~cdRaced' => Faithful(x))
  BY <1>2, <1>3
<1>8. AgreeInv'
  BY <1>1, <1>2, <1>3, <1>4, <1>6, <1>7, QuietStep, Zenon
<1> QED
  BY <1>5, <1>8 DEF Inv

(* registerCard: the first two reads. *)
LEMMA FindByCardNumberInv ==
  ASSUME Inv, NEW r \in Requests, FindByCardNumber(r)
  PROVE  Inv'
<1>1. Busy(r) /\ ~BetweenDefaults(cdRequests[r]) /\ UNCHANGED <<cdRows, cdNext, cdSpent, cdRaced>>
  BY DEF FindByCardNumber, At, Busy, BetweenDefaults
<1>2. CASE \E c \in Existing : cdRows[c].number = cdRequests[r].number
  BY <1>1, <1>2, QuietEnd DEF FindByCardNumber
<1>3. CASE ~ \E c \in Existing : cdRows[c].number = cdRequests[r].number
  <2>1. Goto(r, "count") /\ cdRequests[r].step = "check"
    BY <1>3 DEF FindByCardNumber, At
  <2>2. PICK x \in CardRequest : /\ Underway(x) /\ x.step = "count" /\ x.op = cdRequests[r].op
                                 /\ x.card = cdRequests[r].card /\ x.number = cdRequests[r].number /\ Step(r, x)
    BY <2>1, GoneRequest DEF Inv
  <2>3. Faithful(x)
    BY <1>3, <2>2 DEF Faithful
  <2>4. TypeInv'
    BY <1>1, <2>2, TypeQuiet DEF Inv, TypeInv
  <2>5. AgreeInv'
    BY <1>1, <2>2, <2>3, QuietStep DEF Inv
  <2> QED
    BY <2>4, <2>5 DEF Inv
<1> QED
  BY <1>2, <1>3

LEMMA SetDefaultInv ==
  ASSUME Inv, NEW r \in Requests, SetDefault(r)
  PROVE  Inv'
<1> DEFINE row == [number |-> cdRequests[r].number, used |-> 0, isDefault |-> Existing = {}]
<1>1. /\ Busy(r) /\ ~BetweenDefaults(cdRequests[r]) /\ cdRequests[r].step = "count"
      /\ UNCHANGED <<cdRows, cdNext, cdSpent, cdRaced>> /\ Hold(r, row, "insert")
  BY DEF SetDefault, At, Busy, BetweenDefaults
<1>2. cdRequests[r].number \in Numbers
  BY <1>1 DEF Inv, TypeInv, Underway
<1>3. row \in Row
  BY <1>2, LimitAssumption DEF Row, Used
<1>4. row.number = cdRequests[r].number /\ row.used = 0 /\ (row.isDefault <=> Existing = {})
  OBVIOUS
<1> HIDE DEF row
<1>5. PICK x \in CardRequest : /\ Underway(x) /\ x.step = "insert" /\ x.op = cdRequests[r].op
                               /\ x.card = cdRequests[r].card /\ x.number = cdRequests[r].number
                               /\ x.row = row /\ Step(r, x)
  BY <1>1, <1>3, HoldingRequest DEF Inv
<1>6. ~cdRaced => Faithful(cdRequests[r])
  BY DEF Inv, AgreeInv
<1>7. ~cdRaced => Faithful(x)
  BY <1>1, <1>4, <1>5, <1>6 DEF Faithful
<1>8. TypeInv'
  BY <1>1, <1>5, TypeQuiet DEF Inv, TypeInv
<1>9. AgreeInv'
  BY <1>1, <1>5, <1>7, QuietStep DEF Inv
<1> QED
  BY <1>8, <1>9 DEF Inv

(* findById of a deletion, a charge or a refund. *)
LEMMA FindByIdInv ==
  ASSUME Inv, NEW r \in Requests, FindById(r)
  PROVE  Inv'
<1> DEFINE request == cdRequests[r]
           row == cdRows[request.card]
<1>1. /\ Busy(r) /\ ~BetweenDefaults(request) /\ request.step = "read"
      /\ UNCHANGED <<cdRows, cdNext, cdSpent, cdRaced>>
  BY DEF FindById, Busy, BetweenDefaults
<1>2. /\ request \in CardRequest /\ Underway(request) /\ request.card \in CardIds
      /\ request.op \in {"delete", "charge", "refund", "retry"}
      /\ row \in Row \cup {NoCard}
  BY <1>1 DEF Inv, TypeInv, Underway
<1>3. request.amount \in Amounts \cup {0}
  BY <1>2 DEF CardRequest
<1>4. ASSUME NEW held \in Row, NEW s \in {"delete", "save"}, Hold(r, held, s), row # NoCard,
             s = "delete" <=> request.op = "delete",
             s = "delete" => held = row,
             s = "save" => /\ held.number = row.number /\ (held.isDefault <=> row.isDefault)
                           /\ held.used = IF request.op = "charge" THEN row.used + request.amount
                                          ELSE IF row.used >= request.amount THEN row.used - request.amount ELSE 0
      PROVE  Inv'
  <2>1. PICK x \in CardRequest : /\ Underway(x) /\ x.step = s /\ x.op = request.op /\ x.card = request.card
                                 /\ x.row = held /\ x.amount = request.amount /\ Step(r, x)
    BY <1>1, <1>4, HoldingRequest DEF Inv
  <2>2. Faithful(x)
    BY <1>2, <1>4, <2>1 DEF Faithful, Existing
  <2>3. TypeInv'
    BY <1>1, <2>1, TypeQuiet DEF Inv, TypeInv
  <2>4. AgreeInv'
    BY <1>1, <2>1, <2>2, QuietStep DEF Inv
  <2> QED
    BY <2>3, <2>4 DEF Inv
<1>5. CASE row = NoCard
  BY <1>1, <1>5, QuietEnd DEF FindById
<1>6. CASE row # NoCard /\ request.op = "delete"
  <2>1. Hold(r, row, "delete") /\ row \in Row
    BY <1>2, <1>6 DEF FindById
  <2> QED
    BY <1>4, <1>6, <2>1
<1>7. CASE row # NoCard /\ request.op = "charge"
  <2>1. IF request.amount > CreditLimit - row.used THEN End(r, FALSE) ELSE Hold(r, Charged(row, request.amount), "save")
    BY <1>7 DEF FindById
  <2>2. CASE request.amount > CreditLimit - row.used
    BY <1>1, <2>1, <2>2, QuietEnd
  <2>3. CASE ~(request.amount > CreditLimit - row.used)
    <3>1. row \in Row
      BY <1>2, <1>7
    <3>2. /\ Charged(row, request.amount) \in Row
          /\ Charged(row, request.amount).used = row.used + request.amount
          /\ Charged(row, request.amount).number = row.number
          /\ Charged(row, request.amount).isDefault = row.isDefault
      BY <1>3, <2>3, <3>1, ChargedRow
    <3> QED
      BY <1>4, <1>7, <2>1, <2>3, <3>2
  <2> QED
    BY <2>2, <2>3
<1>8. CASE row # NoCard /\ request.op \in {"refund", "retry"}
  <2>1. Hold(r, Refunded(row, request.amount), "save") /\ row \in Row
    BY <1>2, <1>8 DEF FindById
  <2>2. /\ Refunded(row, request.amount) \in Row
        /\ Refunded(row, request.amount).used = IF row.used >= request.amount THEN row.used - request.amount ELSE 0
        /\ Refunded(row, request.amount).number = row.number
        /\ Refunded(row, request.amount).isDefault = row.isDefault
    BY <1>3, <2>1, RefundedRow
  <2> QED
    BY <1>4, <1>8, <2>1, <2>2
<1> QED
  BY <1>2, <1>5, <1>6, <1>7, <1>8

(* The payment goes through, or is compensated with the row at hand. *)
LEMMA SettleInv ==
  ASSUME Inv, NEW r \in Requests, Settle(r)
  PROVE  Inv'
<1> DEFINE request == cdRequests[r]
           row == Refunded(request.row, request.amount)
<1>1. /\ Busy(r) /\ ~BetweenDefaults(request) /\ request.step = "charged"
      /\ UNCHANGED <<cdRows, cdNext, cdSpent, cdRaced>>
      /\ End(r, TRUE) \/ Hold(r, row, "compensate")
  BY DEF Settle, At, Busy, BetweenDefaults
<1>2. CASE End(r, TRUE)
  BY <1>1, <1>2, QuietEnd
<1>3. CASE Hold(r, row, "compensate")
  <2>1. request.row \in Row /\ request.amount \in Amounts \cup {0} /\ request.op = "charge" /\ request.card \in CardIds
    BY <1>1 DEF Inv, TypeInv, Underway, CardRequest
  <2>2. /\ row \in Row /\ row.number = request.row.number /\ row.isDefault = request.row.isDefault
        /\ row.used = IF request.row.used >= request.amount THEN request.row.used - request.amount ELSE 0
    BY <2>1, RefundedRow
  <2>3. PICK x \in CardRequest : /\ Underway(x) /\ x.step = "compensate" /\ x.op = request.op
                                 /\ x.card = request.card /\ x.row = row /\ x.amount = request.amount /\ Step(r, x)
    BY <1>1, <1>3, <2>2, HoldingRequest DEF Inv
  <2>4. ~cdRaced => Faithful(request)
    BY DEF Inv, AgreeInv
  <2>5. ~cdRaced => Faithful(x)
    BY <1>1, <2>2, <2>3, <2>4 DEF Faithful
  <2>6. TypeInv'
    BY <1>1, <2>3, TypeQuiet DEF Inv, TypeInv
  <2>7. AgreeInv'
    BY <1>1, <2>3, <2>5, QuietStep DEF Inv
  <2> QED
    BY <2>6, <2>7 DEF Inv
<1> QED
  BY <1>1, <1>2, <1>3

(* The last card is gone, or another one is to become the default. *)
LEMMA RemainingCardsInv ==
  ASSUME Inv, NEW r \in Requests, RemainingCards(r)
  PROVE  Inv'
<1> DEFINE request == cdRequests[r]
<1>1. /\ Busy(r) /\ BetweenDefaults(request) /\ request.step = "remaining"
      /\ UNCHANGED <<cdRows, cdNext, cdSpent, cdRaced>>
  BY DEF RemainingCards, At, Busy, BetweenDefaults
<1>2. CASE Existing = {}
  BY <1>1, <1>2, QuietEnd DEF RemainingCards
<1>3. CASE Existing # {}
  <2>1. PICK c \in Existing : Step(r, [request EXCEPT !.step = "default", !.target = c,
                                                     !.row = [cdRows[c] EXCEPT !.isDefault = TRUE]])
    BY <1>3 DEF RemainingCards
  <2>2. c \in CardIds /\ cdRows[c] \in Row
    BY <2>1 DEF Existing, Inv, TypeInv
  <2> DEFINE held == [cdRows[c] EXCEPT !.isDefault = TRUE]
             x == [request EXCEPT !.step = "default", !.target = c, !.row = held]
  <2>3. /\ held \in Row /\ held.used = cdRows[c].used /\ held.number = cdRows[c].number /\ held.isDefault
    BY <2>2, DefaultRow
  <2>4. Step(r, x)
    BY <2>1
  <2> HIDE DEF held
  <2>5. request \in CardRequest /\ Underway(request)
    BY DEF Inv, TypeInv
  <2>6. /\ x \in CardRequest /\ x.step = "default" /\ x.target = c /\ x.row = held
        /\ x.op = request.op /\ x.card = request.card
    BY <2>2, <2>3, <2>5 DEF CardRequest, Steps
  <2> HIDE DEF x
  <2>7. Underway(x)
    BY <1>1, <2>2, <2>3, <2>5, <2>6 DEF Underway
  <2>8. ~cdRaced => Faithful(request)
    BY DEF Inv, AgreeInv
  <2>9. ~cdRaced => Faithful(x)
    BY <1>1, <2>1, <2>3, <2>6, <2>8 DEF Faithful
  <2>10. TypeInv'
    BY <1>1, <2>4, <2>6, <2>7, TypeQuiet DEF Inv, TypeInv
  <2>11. BetweenDefaults(x)
    BY <2>6 DEF BetweenDefaults
  <2>12. AgreeInv'
    BY <1>1, <2>4, <2>6, <2>7, <2>9, <2>11, QuietStep DEF Inv
  <2> QED
    BY <2>10, <2>12 DEF Inv
<1> QED
  BY <1>2, <1>3

LEMMA DiesInv ==
  ASSUME Inv, NEW r \in Requests, Dies(r)
  PROVE  Inv'
<1>1. /\ Busy(r) /\ Step(r, Rest) /\ cdRaced' = (cdRaced \/ BetweenDefaults(cdRequests[r]))
      /\ cdRows' = cdRows /\ cdNext' = cdNext /\ cdSpent' = cdSpent
  BY DEF Dies, BetweenDefaults
<1>2. Rest \in CardRequest /\ Underway(Rest) /\ Faithful(Rest) /\ Rest.step \in {"idle", "done"}
  BY RestIsRequest DEF Underway, Faithful
<1>3. cdRaced' \in BOOLEAN /\ (~cdRaced' => ~cdRaced) /\ (~cdRaced' => ~BetweenDefaults(cdRequests[r]))
  BY <1>1 DEF Inv, TypeInv
<1>4. TypeInv /\ AgreeInv
  BY DEF Inv
<1>5. TypeInv'
  BY <1>1, <1>2, <1>3, <1>4, TypeQuiet
<1>6. AgreeInv'
  BY <1>1, <1>2, <1>3, <1>4, QuietStep
<1> QED
  BY <1>5, <1>6 DEF Inv

LEMMA ReturnInv ==
  ASSUME Inv, NEW r \in Requests, Return(r)
  PROVE  Inv'
<1>1. /\ cdRequests[r].step = "done" /\ Step(r, Rest) /\ cdRaced' = cdRaced
      /\ cdRows' = cdRows /\ cdNext' = cdNext /\ cdSpent' = cdSpent
  BY DEF Return
<1>2. Rest \in CardRequest /\ Underway(Rest) /\ Faithful(Rest) /\ Rest.step \in {"idle", "done"}
  BY RestIsRequest DEF Underway, Faithful
<1>3. cdRaced' \in BOOLEAN /\ (~cdRaced' => ~cdRaced) /\ ~BetweenDefaults(cdRequests[r])
  BY <1>1 DEF Inv, TypeInv, BetweenDefaults
<1>4. TypeInv /\ AgreeInv
  BY DEF Inv
<1>5. TypeInv'
  BY <1>1, <1>2, <1>3, <1>4, TypeQuiet
<1>6. AgreeInv'
  BY <1>1, <1>2, <1>3, <1>4, QuietStep
<1> QED
  BY <1>5, <1>6 DEF Inv

(* The calls. *)
LEMMA BeginInv ==
  ASSUME Inv, NEW r \in Requests, NEW x \in CardRequest, Underway(x), x.step \in {"check", "read"}, Begin(r, x)
  PROVE  Inv'
  BY BeginStep, BeginAgrees DEF Inv

LEMMA CallsInv ==
  ASSUME Inv, NEW r \in Requests,
         \/ \E n \in Numbers : RegisterCard(r, n)
         \/ \E c \in CardIds : DeleteCard(r, c)
         \/ \E c \in CardIds : \E amount \in Amounts :
              \/ ProcessCardPayment(r, c, amount)
              \/ \E op \in {"refund", "retry"} : RefundCardPayment(r, op, c, amount)
  PROVE  Inv'
<1>1. ASSUME NEW n \in Numbers, RegisterCard(r, n) PROVE Inv'
  <2> DEFINE x == [Rest EXCEPT !.op = "register", !.step = "check", !.number = n]
  <2>1. x \in CardRequest /\ x.op = "register" /\ x.step = "check" /\ x.number = n
    BY DEF Rest, CardRequest, Ops, Steps
  <2>2. Begin(r, x)
    BY <1>1 DEF RegisterCard
  <2> HIDE DEF x
  <2>3. Underway(x)
    BY <2>1 DEF Underway
  <2> QED
    BY <2>1, <2>2, <2>3, BeginInv
<1>2. ASSUME NEW c \in CardIds, DeleteCard(r, c) PROVE Inv'
  <2> DEFINE x == [Rest EXCEPT !.op = "delete", !.step = "read", !.card = c]
  <2>1. x \in CardRequest /\ x.op = "delete" /\ x.step = "read" /\ x.card = c
    BY DEF Rest, CardRequest, Ops, Steps
  <2>2. Begin(r, x)
    BY <1>2 DEF DeleteCard
  <2> HIDE DEF x
  <2>3. Underway(x)
    BY <2>1 DEF Underway
  <2> QED
    BY <2>1, <2>2, <2>3, BeginInv
<1>3. ASSUME NEW op \in {"charge", "refund", "retry"}, NEW c \in CardIds, NEW amount \in Amounts,
             Begin(r, [Rest EXCEPT !.op = op, !.step = "read", !.card = c, !.amount = amount])
      PROVE  Inv'
  <2> DEFINE x == [Rest EXCEPT !.op = op, !.step = "read", !.card = c, !.amount = amount]
  <2>1. x \in CardRequest /\ x.op = op /\ x.step = "read" /\ x.card = c
    BY DEF Rest, CardRequest, Ops, Steps
  <2>2. Begin(r, x)
    BY <1>3
  <2> HIDE DEF x
  <2>3. Underway(x)
    BY <2>1 DEF Underway
  <2> QED
    BY <2>1, <2>2, <2>3, BeginInv
<1> QED
  BY <1>1, <1>2, <1>3 DEF ProcessCardPayment, RefundCardPayment

-----------------------------------------------------------------------------
(* Steps that write the table *)

LEMMA Occupied ==
  ASSUME TypeInv, NEW c \in CardIds, cdRows[c] # NoCard
  PROVE  c < cdNext /\ cdRows[c] \in Row /\ c \in Existing
  BY DEF TypeInv, Fresh, CardIds, Existing

(* A row saved over another. *)
LEMMA TypeOverwrite ==
  ASSUME TypeInv, NEW r \in Requests, NEW x \in CardRequest, Underway(x), Step(r, x),
         NEW c \in CardIds, cdRows[c] # NoCard, NEW row \in Row, cdRows' = [cdRows EXCEPT ![c] = row],
         cdNext' = cdNext, cdSpent' \in [CardIds -> Nat], cdRaced' = cdRaced
  PROVE  TypeInv'
<1>1. c < cdNext
  BY Occupied
<1>2. cdRows' \in [CardIds -> Row \cup {NoCard}] /\ \A d \in CardIds \ {c} : cdRows'[d] = cdRows[d]
  BY DEF TypeInv
<1>3. Fresh'
  BY <1>1, <1>2 DEF TypeInv, Fresh, CardIds
<1> QED
  BY <1>2, <1>3, OneRequest DEF TypeInv

(* A new row. *)
LEMMA TypeInsert ==
  ASSUME TypeInv, NEW r \in Requests, NEW x \in CardRequest, Underway(x), Step(r, x),
         NEW row \in Row, NEW spent \in Nat, Insert(row, spent), cdRaced' \in BOOLEAN
  PROVE  TypeInv'
<1>1. /\ cdNext \in 1..(MaxCards + 1) /\ cdNext <= MaxCards /\ cdNext' = cdNext + 1
      /\ cdRows' = [cdRows EXCEPT ![cdNext] = row] /\ cdSpent' = [cdSpent EXCEPT ![cdNext] = spent]
  BY DEF TypeInv, Insert
<1>2. cdNext \in CardIds /\ cdNext' \in 1..(MaxCards + 1)
  BY <1>1, MaxCardsAssumption DEF CardIds
<1>3. cdRows' \in [CardIds -> Row \cup {NoCard}] /\ \A d \in CardIds \ {cdNext} : cdRows'[d] = cdRows[d]
  BY <1>1 DEF TypeInv
<1>4. cdSpent' \in [CardIds -> Nat]
  BY <1>1 DEF TypeInv
<1>5. \A d \in CardIds : d >= cdNext' => d >= cdNext /\ d # cdNext
  BY <1>1 DEF CardIds
<1>6. Fresh'
  BY <1>3, <1>5 DEF TypeInv, Fresh
<1> QED
  BY <1>2, <1>3, <1>4, <1>6, OneRequest DEF TypeInv

LEMMA OverwriteAgrees ==
  ASSUME TypeInv, AgreeInv, NEW r \in Requests, Busy(r), NEW x \in CardRequest, Underway(x), Step(r, x),
         x.step \in {"idle", "done"} \/ (Busy(r) /\ x.op = cdRequests[r].op /\ x.card = cdRequests[r].card),
         NEW c \in CardIds, cdRows[c] # NoCard, NEW row \in Row, cdRows' = [cdRows EXCEPT ![c] = row],
         ~cdRaced, ~BetweenDefaults(x),
         Faithful(x)', row.number = cdRows[c].number,
         \A d \in CardIds \ {c} : cdSpent'[d] = cdSpent[d],
         row.used = cdSpent'[c],
         \/ /\ cdRequests[r].op \in {"charge", "refund", "retry"} /\ c = cdRequests[r].card
            /\ row.isDefault <=> cdRows[c].isDefault
         \/ /\ cdRequests[r].op = "delete" /\ row.isDefault
            /\ \A d \in Existing : ~cdRows[d].isDefault
  PROVE  RequestsApart' /\ Table' /\ \A q \in Requests : Faithful(cdRequests[q])'
<1>1. RequestsApart /\ Table /\ \A q \in Requests : Faithful(cdRequests[q])
  BY DEF AgreeInv
<1>2. /\ cdRequests'[r] = x
      /\ \A q \in Requests \ {r} : cdRequests'[q] = cdRequests[q]
  BY OneRequest
<1>3. cdRows'[c] = row /\ \A d \in CardIds \ {c} : cdRows'[d] = cdRows[d]
  BY DEF TypeInv
<1>4. c \in Existing /\ Existing' = Existing
  BY <1>3, RowIsNoNoCard DEF Existing
<1>5. RequestsApart'
  BY <1>1, ApartStep
<1>6. Table'
  <2>1. \A d \in Existing' : cdRows'[d].used = cdSpent'[d]
    BY <1>1, <1>3, <1>4 DEF Table, Existing
  <2>2. \A d \in CardIds : cdRows'[d].number = cdRows[d].number
    BY <1>3
  <2>3. \A d, e \in Existing' : cdRows'[d].number = cdRows'[e].number => d = e
    BY <1>1, <1>4, <2>2 DEF Table, Existing
  <2>4. CASE cdRequests[r].op = "delete"
    <3>1. \A d \in Existing' : cdRows'[d].isDefault <=> d = c
      BY <1>3, <1>4, <2>4 DEF Existing
    <3> QED
      BY <1>4, <2>1, <2>3, <3>1 DEF Table
  <2>5. CASE cdRequests[r].op # "delete"
    <3>1. \A d \in CardIds : cdRows'[d].isDefault <=> cdRows[d].isDefault
      BY <1>3, <2>5
    <3>2. \A d, e \in Existing' : cdRows'[d].isDefault /\ cdRows'[e].isDefault => d = e
      BY <1>1, <1>4, <3>1 DEF Table, Existing
    <3>3. ~BetweenDefaults(cdRequests[r])
      BY <2>5 DEF TypeInv, Underway, BetweenDefaults
    <3>4. \A q \in Requests : BetweenDefaults(cdRequests[q]) => BetweenDefaults(cdRequests'[q])
      BY <1>2, <3>3
    <3>5. Existing' # {} => \/ \E d \in Existing' : cdRows'[d].isDefault
                            \/ \E q \in Requests : BetweenDefaults(cdRequests'[q])
      BY <1>1, <1>4, <3>1, <3>4 DEF Table, Existing
    <3> QED
      BY <2>1, <2>3, <3>2, <3>5 DEF Table, BetweenDefaults
  <2> QED
    BY <2>4, <2>5
<1>7. ASSUME NEW q \in Requests PROVE Faithful(cdRequests[q])'
  <2>1. CASE q = r
    <3>1. cdRequests'[q] = x
      BY <1>2, <2>1
    <3> QED
      BY <3>1 DEF Faithful
  <2>2. CASE q # r /\ ~Busy(q)
    <3>1. cdRequests'[q].step \in {"idle", "done"}
      BY <1>2, <2>2 DEF Busy
    <3> QED
      BY <3>1 DEF Faithful
  <2>3. CASE q # r /\ Busy(q)
    <3>1. Faithful(cdRequests[q]) /\ cdRequests'[q] = cdRequests[q] /\ Underway(cdRequests[q])
      BY <1>1, <1>2, <2>3 DEF TypeInv
    <3>2. /\ cdRequests[r].op \in {"charge", "refund", "retry"} /\ c = cdRequests[r].card
          /\ \/ cdRequests[q].op = "register"
             \/ cdRequests[q].op \in {"charge", "refund", "retry"} /\ cdRequests[q].card # c
      BY <2>3, OtherRequests
    <3>3. CASE cdRequests[q].op = "register"
      <4>1. cdRequests[q].step \in {"check", "count", "insert"}
        BY <2>3, <3>1, <3>3 DEF Underway, Busy, TypeInv, CardRequest, Steps
      <4>2. \A d \in CardIds : cdRows'[d].number = cdRows[d].number
        BY <1>3
      <4> QED
        BY <1>4, <3>1, <4>1, <4>2 DEF Faithful, Existing
    <3>4. CASE cdRequests[q].op \in {"charge", "refund", "retry"} /\ cdRequests[q].card # c
      <4>1. cdRequests[q].step \in {"read", "save", "charged", "compensate"} /\ cdRequests[q].card \in CardIds
        BY <2>3, <3>1, <3>4 DEF Underway, Busy, TypeInv, CardRequest, Steps
      <4>2. cdRows'[cdRequests[q].card] = cdRows[cdRequests[q].card]
        BY <1>3, <3>4, <4>1
      <4> QED
        BY <1>4, <3>1, <4>1, <4>2 DEF Faithful
    <3> QED
      BY <3>2, <3>3, <3>4
  <2> QED
    BY <2>1, <2>2, <2>3
<1> QED
  BY <1>5, <1>6, <1>7

(* deleteCard: the new default card is saved. *)
LEMMA SaveDefaultInv ==
  ASSUME Inv, NEW r \in Requests, SaveDefault(r)
  PROVE  Inv'
<1> DEFINE request == cdRequests[r]
           c == request.target
           row == request.row
<1>1. /\ Busy(r) /\ request.op = "delete" /\ request.step = "default" /\ Update(r, c)
      /\ cdNext' = cdNext /\ cdSpent' = cdSpent /\ cdRaced' = cdRaced
  BY DEF SaveDefault, At, Busy
<1>2. c \in CardIds /\ row \in Row /\ TypeInv /\ AgreeInv
  BY <1>1 DEF Inv, TypeInv, Underway
<1>3. ~cdRaced => Faithful(request)
  BY DEF Inv, AgreeInv
<1>4. CASE cdRows[c] = NoCard
  <2>1. End(r, FALSE) /\ UNCHANGED <<cdRows, cdNext, cdSpent, cdRaced>>
    BY <1>1, <1>4 DEF Update
  <2>2. ~cdRaced => ~BetweenDefaults(cdRequests[r]) \/ Existing = {}
    BY <1>1, <1>3, <1>4 DEF Faithful, Existing
  <2> QED
    BY <1>1, <2>1, <2>2, QuietEnd
<1>5. CASE cdRows[c] # NoCard
  <2>1. End(r, TRUE) /\ cdRows' = [cdRows EXCEPT ![c] = row]
    BY <1>1, <1>5 DEF Update
  <2>2. PICK x \in CardRequest : Underway(x) /\ x.step = "done" /\ Step(r, x)
    BY <1>2, <2>1, EndedRequest
  <2>3. TypeInv'
    <3>1. cdSpent' \in [CardIds -> Nat]
      BY <1>1, <1>2 DEF TypeInv
    <3> QED
      BY <1>1, <1>2, <1>5, <2>1, <2>2, <3>1, TypeOverwrite
  <2>4. AgreeInv'
    <3> SUFFICES ASSUME ~cdRaced PROVE RequestsApart' /\ Table' /\ \A q \in Requests : Faithful(cdRequests[q])'
      BY <1>1 DEF AgreeInv
    <3>1. /\ row.number = cdRows[c].number /\ row.isDefault
          /\ row.used = cdRows[c].used
          /\ \A d \in Existing : ~cdRows[d].isDefault
      BY <1>1, <1>3 DEF Faithful
    <3>2. cdRows[c].used = cdSpent'[c]
      BY <1>1, <1>2, <1>5, Occupied DEF AgreeInv, Table
    <3>3. ~BetweenDefaults(x) /\ Faithful(x)'
      BY <2>2 DEF BetweenDefaults, Faithful
    <3>4. \A d \in CardIds \ {c} : cdSpent'[d] = cdSpent[d]
      BY <1>1
    <3> QED
      BY <1>1, <1>2, <1>5, <2>1, <2>2, <3>1, <3>2, <3>3, <3>4, OverwriteAgrees
  <2> QED
    BY <2>3, <2>4 DEF Inv
<1> QED
  BY <1>4, <1>5

LEMMA SaveChargeInv ==
  ASSUME Inv, NEW r \in Requests, SaveCharge(r)
  PROVE  Inv'
<1> DEFINE request == cdRequests[r]
           c == request.card
           row == request.row
<1>1. /\ Busy(r) /\ request.op = "charge" /\ request.step = "save" /\ ~BetweenDefaults(request)
      /\ cdNext' = cdNext /\ cdRaced' = cdRaced
  BY DEF SaveCharge, At, Busy, BetweenDefaults
<1>2. c \in CardIds /\ row \in Row /\ TypeInv /\ AgreeInv /\ request.amount \in Nat
  BY <1>1, AmountsAreNat DEF Inv, TypeInv, Underway, CardRequest
<1>3. ~cdRaced => Faithful(request)
  BY DEF Inv, AgreeInv
<1>4. CASE cdRows[c] = NoCard
  <2>1. End(r, FALSE) /\ UNCHANGED <<cdRows, cdNext, cdSpent, cdRaced>>
    BY <1>1, <1>4 DEF SaveCharge
  <2> QED
    BY <1>1, <2>1, QuietEnd
<1>5. CASE cdRows[c] # NoCard
  <2>1. /\ Goto(r, "charged") /\ cdRows' = [cdRows EXCEPT ![c] = row]
        /\ cdSpent' = [cdSpent EXCEPT ![c] = IF cdRaced THEN @ ELSE @ + request.amount]
    BY <1>5 DEF SaveCharge
  <2>2. PICK x \in CardRequest : /\ Underway(x) /\ x.step = "charged" /\ x.op = request.op /\ x.card = c
                                 /\ x.row = row /\ Step(r, x)
    BY <1>1, <1>2, <2>1, GoneRequest
  <2>3. TypeInv'
    <3>1. cdSpent' \in [CardIds -> Nat]
      BY <1>2, <2>1 DEF TypeInv
    <3> QED
      BY <1>1, <1>2, <1>5, <2>1, <2>2, <3>1, TypeOverwrite
  <2>4. AgreeInv'
    <3> SUFFICES ASSUME ~cdRaced PROVE RequestsApart' /\ Table' /\ \A q \in Requests : Faithful(cdRequests[q])'
      BY <1>1 DEF AgreeInv
    <3>1. /\ row.number = cdRows[c].number /\ (row.isDefault <=> cdRows[c].isDefault)
          /\ row.used = cdRows[c].used + request.amount
      BY <1>1, <1>3 DEF Faithful
    <3>2. cdRows[c].used = cdSpent[c]
      BY <1>2, <1>5, Occupied DEF AgreeInv, Table
    <3>3. /\ cdSpent'[c] = cdSpent[c] + request.amount
          /\ \A d \in CardIds \ {c} : cdSpent'[d] = cdSpent[d]
      BY <1>2, <2>1 DEF TypeInv
    <3>4. cdRows'[c] = row /\ c \in Existing'
      BY <1>2, <2>1, RowIsNoNoCard DEF TypeInv, Existing
    <3>5. ~BetweenDefaults(x) /\ Faithful(x)'
      BY <2>2, <3>4 DEF BetweenDefaults, Faithful
    <3>6. row.used = cdSpent'[c]
      BY <3>1, <3>2, <3>3
    <3> QED
      BY <1>1, <1>2, <1>5, <2>1, <2>2, <3>1, <3>3, <3>5, <3>6, OverwriteAgrees
  <2> QED
    BY <2>3, <2>4 DEF Inv
<1> QED
  BY <1>4, <1>5

(* The save of a refund, of the retry job, or of a compensation. *)
LEMMA SaveRefundInv ==
  ASSUME Inv, NEW r \in Requests, SaveRefund(r)
  PROVE  Inv'
<1> DEFINE request == cdRequests[r]
           c == request.card
           row == request.row
<1>1. /\ Busy(r) /\ ~BetweenDefaults(request) /\ cdRaced' = cdRaced
      /\ request.op \in {"charge", "refund", "retry"}
      /\ \/ request.step = "compensate"
         \/ request.step = "save" /\ request.op # "charge"
  BY DEF SaveRefund, At, Busy, BetweenDefaults
<1>2. c \in CardIds /\ row \in Row /\ TypeInv /\ AgreeInv /\ request.amount \in Nat
  BY <1>1, AmountsAreNat DEF Inv, TypeInv, Underway, CardRequest
<1>3. ~cdRaced => Faithful(request)
  BY DEF Inv, AgreeInv
<1>4. ~cdRaced => cdRows[c] # NoCard
  BY <1>1, <1>3 DEF Faithful, Existing
<1>5. CASE request.op = "retry" /\ cdRows[c] = NoCard
  <2>1. Insert(row, row.used) /\ End(r, TRUE)
    BY <1>5 DEF SaveRefund
  <2>2. PICK x \in CardRequest : Underway(x) /\ Step(r, x)
    BY <1>2, <2>1, EndedRequest
  <2>3. row.used \in Nat
    BY <1>2, LimitAssumption DEF Row, Used
  <2>4. TypeInv'
    BY <1>1, <1>2, <2>1, <2>2, <2>3, TypeInsert DEF TypeInv
  <2>5. AgreeInv'
    BY <1>1, <1>4, <1>5 DEF AgreeInv
  <2> QED
    BY <2>4, <2>5 DEF Inv
<1>6. CASE request.op # "retry" /\ cdRows[c] = NoCard
  <2>1. End(r, FALSE) /\ UNCHANGED <<cdRows, cdNext, cdSpent, cdRaced>>
    BY <1>1, <1>6 DEF SaveRefund, Update
  <2> QED
    BY <1>1, <2>1, QuietEnd
<1>7. CASE cdRows[c] # NoCard
  <2>1. /\ End(r, TRUE) /\ cdRows' = [cdRows EXCEPT ![c] = row] /\ cdNext' = cdNext
        /\ SpentLess(c, request.amount)
    BY <1>7 DEF SaveRefund, Update
  <2>2. PICK x \in CardRequest : Underway(x) /\ x.step = "done" /\ Step(r, x)
    BY <1>2, <2>1, EndedRequest
  <2>3. TypeInv'
    <3>1. cdSpent' \in [CardIds -> Nat]
      BY <1>2, <2>1 DEF TypeInv, SpentLess
    <3> QED
      BY <1>1, <1>2, <1>7, <2>1, <2>2, <3>1, TypeOverwrite
  <2>4. AgreeInv'
    <3> SUFFICES ASSUME ~cdRaced PROVE RequestsApart' /\ Table' /\ \A q \in Requests : Faithful(cdRequests[q])'
      BY <1>1 DEF AgreeInv
    <3>1. /\ row.number = cdRows[c].number /\ (row.isDefault <=> cdRows[c].isDefault)
          /\ row.used = IF cdRows[c].used >= request.amount THEN cdRows[c].used - request.amount ELSE 0
      BY <1>1, <1>3 DEF Faithful
    <3>2. cdRows[c].used = cdSpent[c]
      BY <1>2, <1>7, Occupied DEF AgreeInv, Table
    <3>3. /\ cdSpent'[c] = IF cdSpent[c] >= request.amount THEN cdSpent[c] - request.amount ELSE 0
          /\ \A d \in CardIds \ {c} : cdSpent'[d] = cdSpent[d]
      BY <1>2, <2>1 DEF TypeInv, SpentLess
    <3>4. ~BetweenDefaults(x) /\ Faithful(x)'
      BY <2>2 DEF BetweenDefaults, Faithful
    <3>5. row.used = cdSpent'[c]
      BY <3>1, <3>2, <3>3
    <3> QED
      BY <1>1, <1>2, <1>7, <2>1, <2>2, <3>1, <3>3, <3>4, <3>5, OverwriteAgrees
  <2> QED
    BY <2>3, <2>4 DEF Inv
<1> QED
  BY <1>5, <1>6, <1>7

(* registerCard: the new row.  Whoever else is under way charges or refunds a card that exists. *)
LEMMA SaveNewCardInv ==
  ASSUME Inv, NEW r \in Requests, SaveNewCard(r)
  PROVE  Inv'
<1> DEFINE request == cdRequests[r]
           row == request.row
           x == [Rest EXCEPT !.op = "register", !.step = "done", !.card = cdNext, !.ok = TRUE]
<1>1. /\ Busy(r) /\ ~BetweenDefaults(request) /\ request.op = "register" /\ request.step = "insert"
      /\ Insert(row, 0) /\ cdRaced' = cdRaced
  BY DEF SaveNewCard, At, Busy, BetweenDefaults
<1>2. row \in Row /\ TypeInv /\ AgreeInv
  BY <1>1 DEF Inv, TypeInv, Underway
<1>3. /\ cdNext \in CardIds
      /\ cdRows' = [cdRows EXCEPT ![cdNext] = row] /\ cdSpent' = [cdSpent EXCEPT ![cdNext] = 0]
  BY <1>1, <1>2, MaxCardsAssumption DEF Insert, TypeInv, CardIds
<1>4. x \in CardRequest /\ x.step = "done"
  BY <1>3 DEF Rest, CardRequest, Ops, Steps
<1>5. Step(r, x)
  BY DEF SaveNewCard
<1> HIDE DEF x
<1>6. Underway(x) /\ ~BetweenDefaults(x)
  BY <1>4 DEF Underway, BetweenDefaults
<1>7. TypeInv'
  BY <1>1, <1>2, <1>4, <1>5, <1>6, TypeInsert DEF TypeInv
<1>8. AgreeInv'
  <2> SUFFICES ASSUME ~cdRaced PROVE RequestsApart' /\ Table' /\ \A q \in Requests : Faithful(cdRequests[q])'
    BY <1>1 DEF AgreeInv
  <2>1. RequestsApart /\ Table /\ \A q \in Requests : Faithful(cdRequests[q])
    BY <1>2 DEF AgreeInv
  <2>2. /\ row.used = 0 /\ (row.isDefault <=> Existing = {})
        /\ \A c \in Existing : cdRows[c].number # row.number
    BY <1>1, <2>1 DEF Faithful
  <2>3. /\ cdRequests'[r] = x
        /\ \A q \in Requests \ {r} : cdRequests'[q] = cdRequests[q]
    BY <1>2, <1>4, <1>5, <1>6, OneRequest
  <2>4. /\ cdRows'[cdNext] = row /\ cdSpent'[cdNext] = 0
        /\ \A d \in CardIds \ {cdNext} : cdRows'[d] = cdRows[d] /\ cdSpent'[d] = cdSpent[d]
    BY <1>2, <1>3 DEF TypeInv
  <2>5. cdNext \notin Existing
    BY <1>2, <1>3 DEF TypeInv, Fresh, Existing, CardIds
  <2>6. Existing' = Existing \cup {cdNext}
    BY <1>2, <1>3, <2>4, RowIsNoNoCard DEF Existing
  <2>7. RequestsApart'
    BY <1>2, <1>4, <1>5, <1>6, <2>1, ApartStep
  <2>8. Table'
    <3>1. \A d \in Existing : d \in CardIds /\ d # cdNext /\ cdRows'[d] = cdRows[d] /\ cdSpent'[d] = cdSpent[d]
      BY <2>4, <2>5 DEF Existing
    <3>2. \A d \in Existing' : cdRows'[d].used = cdSpent'[d]
      BY <2>1, <2>2, <2>4, <2>6, <3>1 DEF Table
    <3>3. \A d, e \in Existing' : cdRows'[d].number = cdRows'[e].number => d = e
      BY <2>1, <2>2, <2>4, <2>6, <3>1 DEF Table
    <3>4. \A d, e \in Existing' : cdRows'[d].isDefault /\ cdRows'[e].isDefault => d = e
      BY <2>1, <2>2, <2>4, <2>6, <3>1 DEF Table
    <3>5. \A q \in Requests : BetweenDefaults(cdRequests[q]) => BetweenDefaults(cdRequests'[q])
      BY <1>1, <2>3
    <3>6. \/ \E d \in Existing' : cdRows'[d].isDefault
          \/ \E q \in Requests : BetweenDefaults(cdRequests'[q])
      BY <2>1, <2>2, <2>4, <2>6, <3>1, <3>5 DEF Table
    <3> QED
      BY <3>2, <3>3, <3>4, <3>6 DEF Table, BetweenDefaults
  <2>9. ASSUME NEW q \in Requests PROVE Faithful(cdRequests[q])'
    <3>1. CASE q = r \/ ~Busy(q)
      <4>1. cdRequests'[q].step \in {"idle", "done"}
        BY <1>4, <2>3, <3>1 DEF Busy
      <4> QED
        BY <4>1 DEF Faithful
    <3>2. CASE q # r /\ Busy(q)
      <4>1. Faithful(cdRequests[q]) /\ cdRequests'[q] = cdRequests[q] /\ Underway(cdRequests[q])
        BY <1>2, <2>1, <2>3, <3>2 DEF TypeInv
      <4>2. cdRequests[q].op \in {"charge", "refund", "retry"}
        BY <1>1, <1>2, <3>2, OtherRequests
      <4>3. cdRequests[q].step \in {"read", "save", "charged", "compensate"} /\ cdRequests[q].card \in CardIds
        BY <1>2, <3>2, <4>1, <4>2 DEF Underway, Busy, TypeInv, CardRequest, Steps
      <4>4. cdRequests[q].card \in Existing =>
              cdRequests[q].card \in Existing' /\ cdRows'[cdRequests[q].card] = cdRows[cdRequests[q].card]
        BY <2>4, <2>5, <2>6, <4>3
      <4> QED
        BY <4>1, <4>3, <4>4 DEF Faithful
    <3> QED
      BY <3>1, <3>2
  <2> QED
    BY <2>7, <2>8, <2>9
<1> QED
  BY <1>7, <1>8 DEF Inv

(* deleteCard: the row goes.  Nobody else is under way, or it raced. *)
LEMMA DeleteRowInv ==
  ASSUME Inv, NEW r \in Requests, DeleteRow(r)
  PROVE  Inv'
<1> DEFINE request == cdRequests[r]
           c == request.card
<1>1. /\ Busy(r) /\ ~BetweenDefaults(request) /\ request.op = "delete" /\ request.step = "delete"
      /\ cdNext' = cdNext /\ cdSpent' = cdSpent /\ cdRaced' = cdRaced
  BY DEF DeleteRow, At, Busy, BetweenDefaults
<1>2. c \in CardIds /\ request.row \in Row /\ TypeInv /\ AgreeInv
  BY <1>1 DEF Inv, TypeInv, Underway
<1>3. CASE cdRows[c] = NoCard
  <2>1. End(r, FALSE) /\ UNCHANGED <<cdRows, cdNext, cdSpent, cdRaced>>
    BY <1>1, <1>3 DEF DeleteRow
  <2> QED
    BY <1>1, <2>1, QuietEnd
<1>4. CASE cdRows[c] # NoCard
  <2>1. /\ cdRows' = [cdRows EXCEPT ![c] = NoCard]
        /\ IF request.row.isDefault THEN Goto(r, "remaining") ELSE End(r, TRUE)
    BY <1>4 DEF DeleteRow
  <2>2. PICK x \in CardRequest : /\ Underway(x) /\ Step(r, x)
                                 /\ request.row.isDefault => x.step = "remaining"
                                 /\ ~request.row.isDefault => x.step = "done"
                                 /\ x.op = request.op /\ x.card = c
    <3>1. CASE request.row.isDefault
      <4>1. Goto(r, "remaining")
        BY <2>1, <3>1
      <4> QED
        BY <1>1, <1>2, <3>1, <4>1, GoneRequest
    <3>2. CASE ~request.row.isDefault
      <4>1. End(r, TRUE)
        BY <2>1, <3>2
      <4> QED
        BY <1>1, <1>2, <3>2, <4>1, EndedRequest
    <3> QED
      BY <3>1, <3>2
  <2>3. cdRows'[c] = NoCard /\ \A d \in CardIds \ {c} : cdRows'[d] = cdRows[d]
    BY <1>2, <2>1 DEF TypeInv
  <2>4. TypeInv'
    <3>1. cdRows' \in [CardIds -> Row \cup {NoCard}]
      BY <1>2, <2>1 DEF TypeInv
    <3>2. Fresh'
      BY <1>1, <1>2, <2>3 DEF TypeInv, Fresh
    <3> QED
      BY <1>1, <1>2, <2>2, <3>1, <3>2, OneRequest DEF TypeInv
  <2>5. AgreeInv'
    <3> SUFFICES ASSUME ~cdRaced PROVE RequestsApart' /\ Table' /\ \A q \in Requests : Faithful(cdRequests[q])'
      BY <1>1 DEF AgreeInv
    <3>1. RequestsApart /\ Table /\ Faithful(request)
      BY <1>2 DEF AgreeInv
    <3>2. request.row = cdRows[c] /\ c \in Existing
      BY <1>1, <1>2, <1>4, <3>1 DEF Faithful, Existing
    <3>3. Existing' = Existing \ {c} /\ \A d \in Existing' : cdRows'[d] = cdRows[d]
      BY <2>3 DEF Existing
    <3>4. /\ cdRequests'[r] = x
          /\ \A q \in Requests \ {r} : cdRequests'[q] = cdRequests[q] /\ ~Busy(q)
      BY <1>1, <1>2, <2>2, OneRequest, OtherRequests
    <3>5. RequestsApart'
      BY <1>1, <1>2, <2>2, <3>1, ApartStep
    <3>6. Table'
      <4>1. \A d \in Existing' : cdRows'[d].used = cdSpent'[d]
        BY <1>1, <3>1, <3>3 DEF Table
      <4>2. \A d, e \in Existing' : cdRows'[d].number = cdRows'[e].number => d = e
        BY <3>1, <3>3 DEF Table
      <4>3. \A d, e \in Existing' : cdRows'[d].isDefault /\ cdRows'[e].isDefault => d = e
        BY <3>1, <3>3 DEF Table
      <4>4. CASE request.row.isDefault
        <5>1. BetweenDefaults(cdRequests'[r])
          BY <2>2, <3>4, <4>4 DEF BetweenDefaults
        <5> QED
          BY <4>1, <4>2, <4>3, <5>1 DEF Table, BetweenDefaults
      <4>5. CASE ~request.row.isDefault
        <5>1. \A q \in Requests : ~BetweenDefaults(cdRequests[q])
          BY <1>1, <3>4 DEF BetweenDefaults, Busy
        <5>2. \E d \in Existing : cdRows[d].isDefault
          BY <3>1, <3>2, <5>1 DEF Table
        <5>3. \E d \in Existing' : cdRows'[d].isDefault
          BY <3>2, <3>3, <4>5, <5>2
        <5> QED
          BY <4>1, <4>2, <4>3, <5>3 DEF Table
      <4> QED
        BY <4>4, <4>5
    <3>7. ASSUME NEW q \in Requests PROVE Faithful(cdRequests[q])'
      <4>1. CASE q # r
        <5>1. cdRequests'[q].step \in {"idle", "done"}
          BY <3>4, <4>1 DEF Busy
        <5> QED
          BY <5>1 DEF Faithful
      <4>2. CASE q = r /\ ~request.row.isDefault
        BY <2>2, <3>4, <4>2 DEF Faithful
      <4>3. CASE q = r /\ request.row.isDefault
        <5>1. \A d \in Existing' : ~cdRows'[d].isDefault
          BY <3>1, <3>2, <3>3, <4>3 DEF Table
        <5> QED
          BY <2>2, <3>4, <4>3, <5>1 DEF Faithful
      <4> QED
        BY <4>1, <4>2, <4>3
    <3> QED
      BY <3>5, <3>6, <3>7
  <2> QED
    BY <2>4, <2>5 DEF Inv
<1> QED
  BY <1>3, <1>4

-----------------------------------------------------------------------------
(* The theorems *)

LEMMA InvInit == CardsInit => Inv
<1> SUFFICES ASSUME CardsInit PROVE Inv
  OBVIOUS
<1>1. /\ \A r \in Requests : cdRequests[r] = Rest
      /\ \A c \in CardIds : cdRows[c] = NoCard
  BY DEF CardsInit
<1>2. Existing = {}
  BY <1>1 DEF Existing
<1>3. \A r \in Requests : ~Busy(r) /\ Faithful(cdRequests[r])
  BY <1>1, RestIsRequest DEF Busy, Faithful
<1>4. RequestsApart /\ Table
  BY <1>2, <1>3 DEF RequestsApart, Table
<1> QED
  BY <1>3, <1>4, TypeInit DEF Inv, AgreeInv

LEMMA InvStep == Inv /\ [CardsNext]_cdVars => Inv'
<1> SUFFICES ASSUME Inv, [CardsNext]_cdVars PROVE Inv'
  OBVIOUS
<1>1. ASSUME NEW r \in Requests, CardStep(r) PROVE Inv'
  BY <1>1, FindByCardNumberInv, SetDefaultInv, SaveNewCardInv, FindByIdInv, DeleteRowInv, RemainingCardsInv,
     SaveDefaultInv, SaveChargeInv, SettleInv, SaveRefundInv, DiesInv DEF CardStep
<1>2. CASE CardsNext
  BY <1>1, <1>2, CallsInv, ReturnInv DEF CardsNext
<1>3. CASE UNCHANGED cdVars
  <2>1. /\ cdRows' = cdRows /\ cdNext' = cdNext /\ cdRequests' = cdRequests /\ cdSpent' = cdSpent
        /\ cdRaced' = cdRaced
    BY <1>3 DEF cdVars
  <2>2. TypeInv'
    BY <2>1 DEF Inv, TypeInv, Fresh
  <2>3. AgreeInv'
    BY <2>1 DEF Inv, AgreeInv, RequestsApart, Busy, Table, Existing, BetweenDefaults, Faithful
  <2> QED
    BY <2>2, <2>3 DEF Inv
<1> QED
  BY <1>2, <1>3

LEMMA InvEnough == Inv => CardsTypeOK /\ CardsWithinLimit /\ CardsAgree
<1>1. ASSUME Inv PROVE CardsAgree
  <2> SUFFICES ASSUME ~cdRaced
               PROVE  /\ \A c \in Existing : cdRows[c].used = cdSpent[c]
                      /\ \A c, d \in Existing : cdRows[c].number = cdRows[d].number => c = d
                      /\ (\A r \in Requests : cdRequests[r].op # "delete") /\ Existing # {} =>
                           Cardinality({c \in Existing : cdRows[c].isDefault}) = 1
    BY DEF CardsAgree
  <2>1. Table /\ TypeInv
    BY <1>1 DEF Inv, AgreeInv
  <2>2. ASSUME \A r \in Requests : cdRequests[r].op # "delete", Existing # {}
        PROVE  Cardinality({c \in Existing : cdRows[c].isDefault}) = 1
    <3>1. \A r \in Requests : ~BetweenDefaults(cdRequests[r])
      BY <2>1, <2>2 DEF TypeInv, Underway, BetweenDefaults
    <3>2. PICK c \in Existing : cdRows[c].isDefault
      BY <2>1, <2>2, <3>1 DEF Table
    <3>3. {d \in Existing : cdRows[d].isDefault} = {c}
      BY <2>1, <3>2 DEF Table
    <3> QED
      BY <3>3, FS_Singleton
  <2> QED
    BY <2>1, <2>2 DEF Table
<1>2. Inv => CardsTypeOK
  BY DEF Inv, TypeInv, CardsTypeOK
<1>3. Inv => CardsWithinLimit
  BY DEF Inv, TypeInv, CardsWithinLimit, Row
<1> QED
  BY <1>1, <1>2, <1>3

(* The inductive invariant: what the rows are, which rows the requests hold, and that they agree. *)
THEOREM Inductive == CardsSpec => []Inv
  BY InvInit, InvStep, PTL DEF CardsSpec

(* The table, its next id and the requests stay what they are (Card, CardService). *)
THEOREM TypeCorrect == CardsSpec => []CardsTypeOK
  BY Inductive, InvEnough, PTL

(* No card is used above its limit or below zero (processCardPayment, refundCardPayment, deleteCard). *)
THEOREM WithinLimit == CardsSpec => []CardsWithinLimit
  BY Inductive, InvEnough, PTL

(* While no writers collide, each card is used by what was charged less what was     *)
(* refunded, no number is registered twice, and one card is the default.             *)
THEOREM Agree == CardsSpec => []CardsAgree
  BY Inductive, InvEnough, PTL

-----------------------------------------------------------------------------
(* The page of cards.  Until its calls overlap or fail, or others change the *)
(* cards, it has one call at most, and what it lists is what the table has,  *)
(* but for what that call has changed; so its answer makes the list right.   *)

(* The page's requests are of calls it makes, and no others pay. *)
OnlyCards == \A r \in Requests : cdRequests[r].op \in {"none", "register", "delete"}
ClosedPage == ~mpPage.open => mpPage = Unopened
OneCallEach == \A a, b \in mpPage.calls : a.request = b.request => a = b

(* A request that began when these were the cards, and what exists now. *)
Follows(q, cards, existing) ==
  /\ q.step # "idle" => q.op \in {"register", "delete"}
  /\ q.step # "idle" /\ q.op = "register" =>
       existing = IF q.step = "done" /\ q.ok THEN cards \cup {q.card} ELSE cards
  /\ q.step # "idle" /\ q.op = "delete" =>
       existing = IF q.step \in {"remaining", "default"} \/ (q.step = "done" /\ q.ok) THEN cards \ {q.card} ELSE cards
  /\ q.step = "default" => q.target \in existing

PageFollows ==
  mpPage.open /\ ~mpRaced =>
    /\ Others = {}
    /\ mpPage.served # NotServed => mpPage.loading = "cards" /\ mpPage.served = Existing
    /\ mpPage.loading # "loaded" => mpPage.calls = {}
    /\ \A a, b \in mpPage.calls : a = b
    /\ mpPage.loading \in {"orders", "loaded"} /\ mpPage.calls = {} => mpPage.cards = Existing
    /\ \A call \in mpPage.calls :
         call.cards = mpPage.cards /\ Follows(cdRequests[call.request], call.cards, Existing)

CardPage == [open : BOOLEAN, loading : {"member", "point", "cards", "orders", "loaded"},
             served : SUBSET (CardIds \cup {0}), cards : SUBSET CardIds, showCardForm : BOOLEAN,
             calls : SUBSET [request : Requests, cards : SUBSET CardIds]]

MyPageInv ==
  /\ Inv /\ mpPage \in CardPage /\ mpRaced \in BOOLEAN
  /\ OnlyCards /\ ClosedPage /\ PageFollows

LEMMA UnopenedPage ==
  /\ Unopened \in CardPage /\ ~Unopened.open /\ Unopened.calls = {} /\ Unopened.cards = {}
  /\ Unopened.served = NotServed /\ Unopened.loading = "member"
  BY DEF Unopened, CardPage, NotServed

LEMMA ExistingCards == Existing \subseteq CardIds /\ Existing # NotServed
<1>1. 0 \notin CardIds
  BY DEF CardIds
<1>2. Existing \subseteq CardIds
  BY DEF Existing
<1> QED
  BY <1>1, <1>2 DEF NotServed

LEMMA MyPageInitInv == ASSUME MyPageInit PROVE MyPageInv
<1>1. \A r \in Requests : cdRequests[r] = Rest
  BY DEF MyPageInit, CardsInit
<1>2. OnlyCards
  BY <1>1 DEF OnlyCards, Rest
<1> QED
  BY <1>2, InvInit, UnopenedPage DEF MyPageInit, MyPageInv, ClosedPage, PageFollows

-----------------------------------------------------------------------------
(* How the requests go on *)

(* An end says whether it went well. *)
LEMMA EndSays ==
  ASSUME TypeInv, NEW r \in Requests, NEW b \in BOOLEAN, End(r, b)
  PROVE  /\ cdRequests'[r].step = "done" /\ cdRequests'[r].ok = b
         /\ cdRequests'[r].op = cdRequests[r].op /\ cdRequests'[r].card = cdRequests[r].card
<1> DEFINE x == [Rest EXCEPT !.op = cdRequests[r].op, !.step = "done", !.card = cdRequests[r].card, !.ok = b]
<1>1. x.step = "done" /\ x.ok = b /\ x.op = cdRequests[r].op /\ x.card = cdRequests[r].card
  BY DEF Rest
<1>2. cdRequests' = [cdRequests EXCEPT ![r] = x]
  BY DEF End, Step
<1> HIDE DEF x
<1>3. cdRequests'[r] = x
  BY <1>2 DEF TypeInv
<1> QED
  BY <1>1, <1>3

(* No step makes a request one of another operation. *)
LEMMA OpsKept ==
  ASSUME TypeInv, NEW r \in Requests, CardStep(r)
  PROVE  /\ cdRequests'[r].op \in {cdRequests[r].op, "none"}
         /\ \A q \in Requests \ {r} : cdRequests'[q] = cdRequests[q]
         /\ Busy(r)
<1> DEFINE op == cdRequests[r].op
<1>1. cdRequests \in [Requests -> CardRequest] /\ cdRequests[r] \in CardRequest
  BY DEF TypeInv
<1>2. PICK x : Step(r, x) /\ x.op \in {op, "none"}
  <2>1. ASSUME NEW b \in BOOLEAN, End(r, b) PROVE \E x : Step(r, x) /\ x.op \in {op, "none"}
    BY <2>1, EndedRequest
  <2>2. ASSUME NEW s, Goto(r, s) PROVE \E x : Step(r, x) /\ x.op \in {op, "none"}
    <3>1. [cdRequests[r] EXCEPT !.step = s].op = op
      BY <1>1 DEF CardRequest
    <3> QED
      BY <2>2, <3>1 DEF Goto
  <2>3. ASSUME NEW s, NEW row, Hold(r, row, s) PROVE \E x : Step(r, x) /\ x.op \in {op, "none"}
    <3>1. [cdRequests[r] EXCEPT !.step = s, !.row = row].op = op
      BY <1>1 DEF CardRequest
    <3> QED
      BY <2>3, <3>1 DEF Hold
  <2>4. CASE SaveNewCard(r)
    <3>1. [Rest EXCEPT !.op = "register", !.step = "done", !.card = cdNext, !.ok = TRUE].op = "register"
      BY DEF Rest
    <3> QED
      BY <2>4, <3>1 DEF SaveNewCard, At
  <2>5. CASE RemainingCards(r)
    <3>1. ASSUME NEW c \in Existing
          PROVE  [cdRequests[r] EXCEPT !.step = "default", !.target = c,
                                       !.row = [cdRows[c] EXCEPT !.isDefault = TRUE]].op = op
      BY <1>1 DEF CardRequest
    <3> QED
      BY <2>1, <2>5, <3>1 DEF RemainingCards
  <2>6. CASE Dies(r)
    BY <2>6 DEF Dies, Rest
  <2>7. CASE FindByCardNumber(r) \/ SetDefault(r) \/ Settle(r)
    BY <2>1, <2>2, <2>3, <2>7 DEF FindByCardNumber, SetDefault, Settle
  <2>8. CASE FindById(r)
    BY <2>1, <2>3, <2>8 DEF FindById
  <2>9. CASE DeleteRow(r)
    BY <2>1, <2>2, <2>9 DEF DeleteRow
  <2>10. CASE SaveDefault(r) \/ SaveCharge(r) \/ SaveRefund(r)
    BY <2>1, <2>2, <2>10 DEF SaveDefault, SaveCharge, SaveRefund, Update
  <2> QED
    BY <2>4, <2>5, <2>6, <2>7, <2>8, <2>9, <2>10 DEF CardStep
<1>3. cdRequests' = [cdRequests EXCEPT ![r] = x]
  BY <1>2 DEF Step
<1>4. Busy(r)
  BY DEF CardStep, Busy, FindByCardNumber, SetDefault, SaveNewCard, FindById, DeleteRow, RemainingCards, SaveDefault,
         SaveCharge, Settle, SaveRefund, Dies, At
<1> QED
  BY <1>1, <1>2, <1>3, <1>4

LEMMA GoesAs ==
  ASSUME TypeInv, NEW r \in Requests, NEW s, Goto(r, s)
  PROVE  /\ cdRequests'[r].step = s
         /\ cdRequests'[r].op = cdRequests[r].op /\ cdRequests'[r].card = cdRequests[r].card
<1> DEFINE x == [cdRequests[r] EXCEPT !.step = s]
<1>1. x.step = s /\ x.op = cdRequests[r].op /\ x.card = cdRequests[r].card
  BY DEF TypeInv, CardRequest
<1>2. cdRequests' = [cdRequests EXCEPT ![r] = x]
  BY DEF Goto, Step
<1> HIDE DEF x
<1>3. cdRequests'[r] = x
  BY <1>2 DEF TypeInv
<1> QED
  BY <1>1, <1>3

LEMMA HoldsAs ==
  ASSUME TypeInv, NEW r \in Requests, NEW s, NEW row, Hold(r, row, s)
  PROVE  cdRequests'[r].step = s /\ cdRequests'[r].op = cdRequests[r].op
<1> DEFINE x == [cdRequests[r] EXCEPT !.step = s, !.row = row]
<1>1. x.step = s /\ x.op = cdRequests[r].op
  BY DEF TypeInv, CardRequest
<1>2. cdRequests' = [cdRequests EXCEPT ![r] = x]
  BY DEF Hold, Step
<1> HIDE DEF x
<1>3. cdRequests'[r] = x
  BY <1>2 DEF TypeInv
<1> QED
  BY <1>1, <1>3

(* A request that goes on changes the cards as its answer will say. *)
LEMMA FollowsStep ==
  ASSUME TypeInv, OnlyCards, NEW r \in Requests, CardStep(r),
         NEW cards, Follows(cdRequests[r], cards, Existing)
  PROVE  Follows(cdRequests'[r], cards, Existing')
<1> DEFINE q == cdRequests[r]
           new == cdRequests'[r]
<1>1. q \in CardRequest /\ Underway(q) /\ cdRows \in [CardIds -> Row \cup {NoCard}] /\ cdNext \in Nat
  BY MaxCardsAssumption DEF TypeInv
<1>2. UNCHANGED cdRows => Existing' = Existing
  BY DEF Existing
<1>3. q.op \in {"none", "register", "delete"}
  BY DEF OnlyCards
<1>4. CASE FindByCardNumber(r)
  <2>1. q.op = "register" /\ q.step = "check" /\ Existing' = Existing /\ (End(r, FALSE) \/ Goto(r, "count"))
    BY <1>2, <1>4 DEF FindByCardNumber, At
  <2>2. new.op = "register" /\ (new.step = "count" \/ (new.step = "done" /\ ~new.ok))
    <3>1. CASE End(r, FALSE)
      BY <2>1, <3>1, EndSays
    <3>2. CASE Goto(r, "count")
      BY <2>1, <3>2, GoesAs
    <3> QED
      BY <2>1, <3>1, <3>2
  <2> HIDE DEF q, new
  <2> QED
    BY <2>1, <2>2 DEF Follows, q, new
<1>5. CASE SetDefault(r)
  <2> DEFINE row == [number |-> q.number, used |-> 0, isDefault |-> Existing = {}]
  <2>1. q.op = "register" /\ q.step = "count" /\ Existing' = Existing /\ Hold(r, row, "insert")
    BY <1>2, <1>5 DEF SetDefault, At
  <2>2. row \in Row
    BY <1>1, <2>1, LimitAssumption DEF Underway, Row, Used
  <2> HIDE DEF row
  <2>3. new.op = "register" /\ new.step = "insert"
    BY <2>1, <2>2, HoldsAs
  <2> QED
    BY <2>1, <2>3 DEF Follows
<1>6. CASE SaveNewCard(r)
  <2>1. /\ q.op = "register" /\ q.step = "insert" /\ cdNext <= MaxCards /\ q.row \in Row
        /\ cdRows' = [cdRows EXCEPT ![cdNext] = q.row]
        /\ Step(r, [Rest EXCEPT !.op = "register", !.step = "done", !.card = cdNext, !.ok = TRUE])
    BY <1>1, <1>6 DEF SaveNewCard, At, Insert, Underway
  <2>2. cdNext \in CardIds
    BY <2>1, MaxCardsAssumption DEF TypeInv, CardIds
  <2>3. Existing' = Existing \cup {cdNext}
    BY <1>1, <2>1, <2>2, RowIsNoNoCard DEF Existing
  <2>4. new.op = "register" /\ new.step = "done" /\ new.ok /\ new.card = cdNext
    <3> DEFINE x == [Rest EXCEPT !.op = "register", !.step = "done", !.card = cdNext, !.ok = TRUE]
    <3>1. x.op = "register" /\ x.step = "done" /\ x.ok /\ x.card = cdNext
      BY DEF Rest
    <3>2. new = x
      BY <2>1 DEF Step, TypeInv
    <3> QED
      BY <3>1, <3>2
  <2> HIDE DEF q, new
  <2> QED
    BY <2>1, <2>3, <2>4 DEF Follows, q, new
<1>7. CASE FindById(r)
  <2>1. q.step = "read" /\ q.op = "delete" /\ q.card \in CardIds /\ Existing' = Existing
    BY <1>1, <1>2, <1>3, <1>7 DEF FindById, Underway
  <2>2. End(r, FALSE) \/ (cdRows[q.card] \in Row /\ Hold(r, cdRows[q.card], "delete"))
    BY <1>1, <1>7, <2>1 DEF FindById
  <2>3. new.op = "delete" /\ (new.step = "delete" \/ (new.step = "done" /\ ~new.ok))
    <3>1. CASE End(r, FALSE)
      BY <2>1, <3>1, EndSays
    <3>2. CASE cdRows[q.card] \in Row /\ Hold(r, cdRows[q.card], "delete")
      BY <2>1, <3>2, HoldsAs
    <3> QED
      BY <2>2, <3>1, <3>2
  <2> HIDE DEF q, new
  <2> QED
    BY <2>1, <2>3 DEF Follows, q, new
<1>8. CASE DeleteRow(r)
  <2>1. q.op = "delete" /\ q.step = "delete" /\ q.card \in CardIds
    BY <1>1, <1>8 DEF DeleteRow, At, Underway
  <2>2. CASE cdRows[q.card] = NoCard
    <3>1. End(r, FALSE) /\ Existing' = Existing
      BY <1>2, <1>8, <2>2 DEF DeleteRow
    <3>2. new.op = "delete" /\ new.step = "done" /\ ~new.ok
      BY <2>1, <3>1, EndSays
    <3> HIDE DEF q, new
    <3> QED
      BY <2>1, <3>1, <3>2 DEF Follows, q, new
  <2>3. CASE cdRows[q.card] # NoCard
    <3>1. cdRows' = [cdRows EXCEPT ![q.card] = NoCard] /\ (Goto(r, "remaining") \/ End(r, TRUE))
      BY <1>8, <2>3 DEF DeleteRow
    <3>2. Existing' = Existing \ {q.card}
      BY <1>1, <2>1, <3>1 DEF Existing
    <3>3. new.op = "delete" /\ new.card = q.card /\ (new.step = "remaining" \/ (new.step = "done" /\ new.ok))
      <4>1. CASE End(r, TRUE)
        BY <2>1, <4>1, EndSays
      <4>2. CASE Goto(r, "remaining")
        BY <2>1, <4>2, GoesAs
      <4> QED
        BY <3>1, <4>1, <4>2
    <3> HIDE DEF q, new
    <3> QED
      BY <2>1, <3>2, <3>3 DEF Follows, q, new
  <2> QED
    BY <2>2, <2>3
<1>9. CASE RemainingCards(r)
  <2>1. q.op = "delete" /\ q.step = "remaining" /\ Existing' = Existing
    BY <1>2, <1>9 DEF RemainingCards, At
  <2>2. CASE End(r, TRUE)
    <3>1. new.op = "delete" /\ new.card = q.card /\ new.step = "done" /\ new.ok
      BY <2>1, <2>2, EndSays
    <3> HIDE DEF q, new
    <3> QED
      BY <2>1, <3>1 DEF Follows, q, new
  <2>3. ASSUME NEW c \in Existing,
               Step(r, [cdRequests[r] EXCEPT !.step = "default", !.target = c,
                                             !.row = [cdRows[c] EXCEPT !.isDefault = TRUE]])
        PROVE  Follows(cdRequests'[r], cards, Existing')
    <3> DEFINE row == [cdRows[c] EXCEPT !.isDefault = TRUE]
               x == [cdRequests[r] EXCEPT !.step = "default", !.target = c, !.row = row]
    <3>1. x.op = q.op /\ x.card = q.card /\ x.step = "default" /\ x.target = c
      BY <1>1 DEF CardRequest
    <3>2. cdRequests' = [cdRequests EXCEPT ![r] = x]
      BY <2>3 DEF Step
    <3> HIDE DEF x
    <3>3. new = x
      BY <3>2 DEF TypeInv
    <3> HIDE DEF q, new
    <3> QED
      BY <2>1, <3>1, <3>3 DEF Follows, q, new
  <2> QED
    BY <1>9, <2>2, <2>3 DEF RemainingCards
<1>10. CASE SaveDefault(r)
  <2>1. q.op = "delete" /\ q.step = "default" /\ q.target \in Existing /\ q.row \in Row /\ q.target \in CardIds
    BY <1>1, <1>10 DEF SaveDefault, At, Follows, Underway
  <2>2. End(r, TRUE) /\ cdRows' = [cdRows EXCEPT ![q.target] = q.row]
    BY <1>10, <2>1 DEF SaveDefault, Update, Existing
  <2>3. Existing' = Existing
    BY <1>1, <2>1, <2>2, RowIsNoNoCard DEF Existing
  <2>4. new.op = "delete" /\ new.card = q.card /\ new.step = "done" /\ new.ok
    BY <2>1, <2>2, EndSays
  <2> HIDE DEF q, new
  <2> QED
    BY <2>1, <2>3, <2>4 DEF Follows, q, new
<1>11. CASE Dies(r)
  <2>1. new = Rest
    BY <1>11 DEF Dies, Step, TypeInv
  <2> QED
    BY <2>1, RestIsRequest DEF Follows
<1>12. ~(SaveCharge(r) \/ Settle(r) \/ SaveRefund(r))
  BY <1>3 DEF SaveCharge, Settle, SaveRefund, At
<1> QED
  BY <1>4, <1>5, <1>6, <1>7, <1>8, <1>9, <1>10, <1>11, <1>12 DEF CardStep

-----------------------------------------------------------------------------
(* Steps of the page *)

LEMMA PageAlone ==
  ASSUME MyPageInv, UNCHANGED cdVars
  PROVE  /\ Inv' /\ OnlyCards' /\ Existing' = Existing /\ cdRequests' = cdRequests
         /\ mpPage'.calls = mpPage.calls => Others' = Others
<1>1. UNCHANGED <<cdRows, cdNext, cdRequests, cdSpent, cdRaced>>
  BY DEF cdVars
<1>2. Inv'
  BY InvStep DEF MyPageInv
<1>3. OnlyCards' /\ Existing' = Existing
  BY <1>1 DEF MyPageInv, OnlyCards, Existing
<1>4. mpPage'.calls = mpPage.calls => Others' = Others
  BY <1>1 DEF Others, Own, Busy
<1> QED
  BY <1>1, <1>2, <1>3, <1>4

(* What the page's invariant asks for after a step of the page alone. *)
LEMMA PageAloneKeeps ==
  ASSUME MyPageInv, UNCHANGED cdVars, mpPage' \in CardPage, mpRaced' \in BOOLEAN, ~mpPage'.open => mpPage' = Unopened,
         mpPage'.calls = mpPage.calls,
         mpPage'.open /\ ~mpRaced' =>
           /\ Others = {}
           /\ mpPage'.served # NotServed => mpPage'.loading = "cards" /\ mpPage'.served = Existing
           /\ mpPage'.loading # "loaded" => mpPage.calls = {}
           /\ \A a, b \in mpPage.calls : a = b
           /\ mpPage'.loading \in {"orders", "loaded"} /\ mpPage.calls = {} => mpPage'.cards = Existing
           /\ \A call \in mpPage.calls :
                call.cards = mpPage'.cards /\ Follows(cdRequests[call.request], call.cards, Existing)
  PROVE  MyPageInv'
<1>1. Inv' /\ OnlyCards' /\ Existing' = Existing /\ cdRequests' = cdRequests /\ Others' = Others
  BY PageAlone
<1>2. ClosedPage'
  BY UnopenedPage DEF ClosedPage, Unopened, NotServed
<1>3. PageFollows'
  BY <1>1 DEF PageFollows, NotServed
<1> QED
  BY <1>1, <1>2, <1>3 DEF MyPageInv, CardPage, CardIds

LEMMA LeaveMyPageKeeps == ASSUME MyPageInv, LeaveMyPage PROVE MyPageInv'
<1>1. mpPage' = Unopened /\ mpRaced' = FALSE /\ UNCHANGED cdVars
  BY DEF LeaveMyPage
<1>2. Inv' /\ OnlyCards'
  BY <1>1, PageAlone
<1>3. mpPage' \in CardPage /\ ~mpPage'.open
  BY <1>1, UnopenedPage
<1>4. ClosedPage' /\ PageFollows'
  BY <1>1, <1>3 DEF ClosedPage, PageFollows, Unopened, NotServed
<1> QED
  BY <1>1, <1>2, <1>3, <1>4 DEF MyPageInv, CardPage, CardIds

LEMMA OpenMyPageKeeps == ASSUME MyPageInv, OpenMyPage PROVE MyPageInv'
<1>1. mpPage' = [Unopened EXCEPT !.open = TRUE] /\ mpRaced' = (Others # {}) /\ UNCHANGED cdVars /\ mpPage = Unopened
  BY DEF OpenMyPage, MyPageInv, ClosedPage
<1>2. /\ mpPage' \in CardPage /\ mpPage'.open /\ mpPage'.calls = {}
      /\ mpPage'.served = NotServed /\ mpPage'.loading = "member"
  BY <1>1 DEF Unopened, CardPage, NotServed
<1>3. mpPage.calls = {}
  BY <1>1, UnopenedPage
<1> QED
  BY <1>1, <1>2, <1>3, PageAloneKeeps

LEMMA GetUserCardsKeeps == ASSUME MyPageInv, ~mpRaced, GetUserCards PROVE MyPageInv'
<1>1. /\ mpPage.open /\ mpPage.loading = "cards" /\ mpPage' = [mpPage EXCEPT !.served = Existing]
      /\ UNCHANGED mpRaced /\ UNCHANGED cdVars
  BY DEF GetUserCards
<1>2. mpPage \in CardPage /\ PageFollows
  BY DEF MyPageInv
<1>3. /\ mpPage' \in CardPage /\ mpPage'.open /\ mpPage'.loading = "cards"
      /\ mpPage'.served = Existing /\ mpPage'.calls = mpPage.calls /\ mpPage'.cards = mpPage.cards
  BY <1>1, <1>2, ExistingCards DEF CardPage
<1> QED
  BY <1>1, <1>2, <1>3, PageAloneKeeps DEF PageFollows, MyPageInv

LEMMA ToggleCardFormKeeps == ASSUME MyPageInv, ~mpRaced, ToggleCardForm PROVE MyPageInv'
<1>1. /\ mpPage.open /\ mpPage' = [mpPage EXCEPT !.showCardForm = ~mpPage.showCardForm]
      /\ UNCHANGED mpRaced /\ UNCHANGED cdVars
  BY DEF ToggleCardForm
<1>2. mpPage \in CardPage /\ PageFollows /\ mpPage.showCardForm \in BOOLEAN
  BY DEF MyPageInv, CardPage
<1>3. (~mpPage.showCardForm) \in BOOLEAN
  OBVIOUS
<1>4. /\ mpPage' \in CardPage /\ mpPage'.open /\ mpPage'.loading = mpPage.loading
      /\ mpPage'.served = mpPage.served /\ mpPage'.calls = mpPage.calls /\ mpPage'.cards = mpPage.cards
  BY <1>1, <1>2, <1>3 DEF CardPage
<1> QED
  BY <1>1, <1>2, <1>4, PageAloneKeeps DEF PageFollows, MyPageInv

LEMMA LoadMyPageKeeps == ASSUME MyPageInv, ~mpRaced, LoadMyPage PROVE MyPageInv'
<1>1. mpPage.open /\ UNCHANGED cdVars /\ mpPage \in CardPage /\ PageFollows /\ mpRaced = FALSE
  BY DEF LoadMyPage, MyPageInv
<1>2. ASSUME NEW loading \in {"point", "cards", "loaded"}, mpPage' = [mpPage EXCEPT !.loading = loading], UNCHANGED mpRaced,
             \/ loading = "point" /\ mpPage.loading = "member"
             \/ loading = "cards" /\ mpPage.loading = "point"
             \/ loading = "loaded" /\ mpPage.loading = "orders"
      PROVE  MyPageInv'
  <2>1. /\ mpPage' \in CardPage /\ mpPage'.open /\ mpPage'.loading = loading
        /\ mpPage'.served = mpPage.served /\ mpPage'.calls = mpPage.calls /\ mpPage'.cards = mpPage.cards
    BY <1>1, <1>2 DEF CardPage
  <2>2. mpPage.loading # "cards" /\ mpPage.loading # "loaded"
    BY <1>2
  <2>3. Others = {} /\ mpPage.served = NotServed /\ mpPage.calls = {}
    BY <1>1, <2>2 DEF PageFollows
  <2>4. loading \in {"orders", "loaded"} => mpPage.cards = Existing
    BY <1>1, <1>2, <2>3 DEF PageFollows
  <2> QED
    BY <1>1, <1>2, <2>1, <2>3, <2>4, PageAloneKeeps
<1>3. ASSUME mpPage.loading = "cards", mpPage.served # NotServed,
             mpPage' = [mpPage EXCEPT !.loading = "orders", !.cards = mpPage.served, !.served = NotServed], UNCHANGED mpRaced
      PROVE  MyPageInv'
  <2>1. Others = {} /\ mpPage.served = Existing /\ mpPage.calls = {}
    BY <1>1, <1>3 DEF PageFollows
  <2>2. NotServed \in SUBSET (CardIds \cup {0})
    BY DEF NotServed
  <2>3. /\ mpPage' \in CardPage /\ mpPage'.open /\ mpPage'.loading = "orders"
        /\ mpPage'.served = NotServed /\ mpPage'.calls = mpPage.calls /\ mpPage'.cards = Existing
    BY <1>1, <1>3, <2>1, <2>2, ExistingCards DEF CardPage
  <2> QED
    BY <1>1, <1>3, <2>1, <2>3, PageAloneKeeps
<1>4. ASSUME mpPage' = [mpPage EXCEPT !.loading = "orders", !.cards = {}, !.served = NotServed], mpRaced' = TRUE
      PROVE  MyPageInv'
  <2>1. NotServed \in SUBSET (CardIds \cup {0})
    BY DEF NotServed
  <2>2. mpPage' \in CardPage /\ mpPage'.open /\ mpPage'.calls = mpPage.calls
    BY <1>1, <1>4, <2>1 DEF CardPage
  <2> QED
    BY <1>1, <1>4, <2>2, PageAloneKeeps
<1> QED
  BY <1>2, <1>3, <1>4 DEF LoadMyPage

-----------------------------------------------------------------------------
(* Calls of the page *)

(* A call that is made while the page has loaded, and has no other.  What its *)
(* request begins with is of the cards as they are.                          *)
LEMMA CallingKeeps ==
  ASSUME MyPageInv, ~mpRaced, NEW r \in Requests \ Own, NEW x \in CardRequest, Underway(x), Begin(r, x),
         x.op \in {"register", "delete"}, x.step \in {"check", "read"}, mpPage.open, Calling(r), Inv'
  PROVE  MyPageInv'
<1> DEFINE call == [request |-> r, cards |-> mpPage.cards]
<1>1. /\ mpPage' = [mpPage EXCEPT !.calls = mpPage.calls \cup {call}]
      /\ mpRaced' = (mpRaced \/ mpPage.calls # {} \/ mpPage.loading # "loaded")
      /\ mpPage \in CardPage /\ PageFollows
  BY DEF Calling, MyPageInv
<1>2. /\ UNCHANGED cdRows /\ Step(r, x)
      /\ cdRequests'[r] = x /\ \A q \in Requests \ {r} : cdRequests'[q] = cdRequests[q]
  <2>1. UNCHANGED cdRows /\ Step(r, x)
    BY DEF Begin, Step
  <2> QED
    BY <2>1, OneRequest DEF MyPageInv, Inv
<1>3. call \in [request : Requests, cards : SUBSET CardIds] /\ call.request = r /\ call.cards = mpPage.cards
  BY <1>1 DEF CardPage
<1> HIDE DEF call
<1>4. /\ mpPage' \in CardPage /\ mpPage'.open = mpPage.open /\ mpPage'.loading = mpPage.loading
      /\ mpPage'.served = mpPage.served /\ mpPage'.cards = mpPage.cards /\ mpPage'.calls = mpPage.calls \cup {call}
  BY <1>1, <1>3 DEF CardPage
<1>5. Existing' = Existing
  BY <1>2 DEF Existing
<1>6. OnlyCards'
  BY <1>2 DEF MyPageInv, OnlyCards
<1>7. PageFollows'
  <2> SUFFICES ASSUME ~mpRaced'
               PROVE  /\ Others' = {}
                      /\ mpPage'.served # NotServed => mpPage'.loading = "cards" /\ mpPage'.served = Existing'
                      /\ mpPage'.loading # "loaded" => mpPage'.calls = {}
                      /\ \A a, b \in mpPage'.calls : a = b
                      /\ mpPage'.loading \in {"orders", "loaded"} /\ mpPage'.calls = {} => mpPage'.cards = Existing'
                      /\ \A c \in mpPage'.calls :
                           c.cards = mpPage'.cards /\ Follows(cdRequests'[c.request], c.cards, Existing')
    BY DEF PageFollows, NotServed
  <2>1. mpPage.calls = {} /\ mpPage.loading = "loaded"
    BY <1>1
  <2>2. Others = {} /\ mpPage.cards = Existing /\ mpPage.served = NotServed
    BY <1>1, <2>1 DEF PageFollows
  <2>3. mpPage'.calls = {call}
    BY <1>4, <2>1
  <2>4. Own' = {r} /\ Own = {}
    <3>1. Own' = {c.request : c \in mpPage'.calls} /\ Own = {c.request : c \in mpPage.calls}
      BY DEF Own
    <3> QED
      BY <1>3, <2>1, <2>3, <3>1
  <2>5. Others' = {}
    BY <1>2, <2>2, <2>4 DEF Others, Busy
  <2>6. Follows(x, mpPage.cards, Existing)
    BY <2>2 DEF Follows
  <2> QED
    BY <1>2, <1>3, <1>4, <1>5, <2>1, <2>2, <2>3, <2>5, <2>6
<1>8. mpRaced' \in BOOLEAN
  BY <1>1 DEF MyPageInv
<1>9. ClosedPage'
  BY <1>4 DEF ClosedPage
<1> QED
  BY <1>4, <1>6, <1>7, <1>8, <1>9 DEF MyPageInv, CardPage, CardIds

LEMMA CardSectionKeeps ==
  ASSUME MyPageInv, ~mpRaced, NEW r \in Requests \ Own, HandleCardRegister(r) \/ HandleDeleteCard(r)
  PROVE  MyPageInv'
<1>1. CASE HandleCardRegister(r)
  <2>1. PICK n \in Numbers : RegisterCard(r, n)
    BY <1>1 DEF HandleCardRegister
  <2> DEFINE x == [Rest EXCEPT !.op = "register", !.step = "check", !.number = n]
  <2>2. x \in CardRequest /\ x.op = "register" /\ x.step = "check" /\ x.number \in Numbers
    BY DEF CardRequest, Ops, Steps, Rest
  <2>3. Begin(r, x)
    BY <2>1 DEF RegisterCard
  <2>4. Inv'
    <3>1. CardsNext
      BY <2>1 DEF CardsNext
    <3> QED
      BY <3>1, InvStep DEF MyPageInv
  <2> HIDE DEF x
  <2>5. Underway(x)
    BY <2>2 DEF Underway
  <2> QED
    BY <1>1, <2>2, <2>3, <2>4, <2>5, CallingKeeps DEF HandleCardRegister
<1>2. CASE HandleDeleteCard(r)
  <2>1. PICK c \in mpPage.cards : DeleteCard(r, c)
    BY <1>2 DEF HandleDeleteCard
  <2>2. c \in CardIds
    BY DEF MyPageInv, CardPage
  <2> DEFINE x == [Rest EXCEPT !.op = "delete", !.step = "read", !.card = c]
  <2>3. x \in CardRequest /\ x.op = "delete" /\ x.step = "read" /\ x.card \in CardIds
    BY <2>2 DEF CardRequest, Ops, Steps, Rest
  <2>4. Begin(r, x)
    BY <2>1 DEF DeleteCard
  <2>5. Inv'
    <3>1. CardsNext
      BY <2>1, <2>2 DEF CardsNext
    <3> QED
      BY <3>1, InvStep DEF MyPageInv
  <2> HIDE DEF x
  <2>6. Underway(x)
    BY <2>3 DEF Underway
  <2> QED
    BY <1>2, <2>3, <2>4, <2>5, <2>6, CallingKeeps DEF HandleDeleteCard
<1> QED
  BY <1>1, <1>2

(* An answered call was the only one: the page lists what is there. *)
LEMMA CallAnsweredKeeps == ASSUME MyPageInv, ~mpRaced, CallAnswered PROVE MyPageInv'
<1>1. PICK call \in mpPage.calls :
        LET request == cdRequests[call.request]
            rest == mpPage.calls \ {call}
        IN \/ /\ request.step = "done" /\ request.ok
              /\ mpPage' = [mpPage EXCEPT !.cards = ListedThen(call), !.calls = rest,
                                          !.showCardForm = mpPage.showCardForm /\ request.op # "register"]
              /\ Return(call.request)
              /\ UNCHANGED mpRaced
           \/ /\ request.step = "done" /\ ~request.ok
              /\ mpPage' = [mpPage EXCEPT !.calls = rest]
              /\ Return(call.request)
              /\ UNCHANGED mpRaced
           \/ /\ request.step = "idle"
              /\ mpPage' = [mpPage EXCEPT !.calls = rest]
              /\ mpRaced' = TRUE
              /\ UNCHANGED cdVars
  BY DEF CallAnswered
<1> DEFINE r == call.request
           request == cdRequests[r]
           rest == mpPage.calls \ {call}
<1>2. mpPage \in CardPage /\ mpPage.open /\ PageFollows /\ r \in Requests /\ call.cards \in SUBSET CardIds /\ mpRaced = FALSE
  BY UnopenedPage DEF MyPageInv, ClosedPage, CardPage
<1>3. /\ Others = {} /\ mpPage.loading = "loaded" /\ mpPage.served = NotServed /\ rest = {}
      /\ call.cards = mpPage.cards /\ Follows(request, call.cards, Existing)
  BY <1>2 DEF PageFollows
<1>4. request \in CardRequest /\ request.op \in {"none", "register", "delete"} /\ request.card \in CardIds \cup {0}
  BY <1>2 DEF MyPageInv, OnlyCards, Inv, TypeInv, CardRequest
<1>5. CASE request.step = "idle"
  <2>1. mpPage' = [mpPage EXCEPT !.calls = rest] /\ mpRaced' = TRUE /\ UNCHANGED cdVars
    BY <1>1, <1>5
  <2>2. mpPage' \in CardPage /\ mpPage'.open
    BY <1>2, <2>1 DEF CardPage
  <2>3. Inv' /\ OnlyCards'
    BY <2>1, PageAlone
  <2> QED
    BY <2>1, <2>2, <2>3 DEF MyPageInv, ClosedPage, PageFollows, CardPage, CardIds
<1>6. ASSUME NEW cards, cards = Existing, NEW showing \in BOOLEAN,
             mpPage' = [mpPage EXCEPT !.cards = cards, !.calls = rest, !.showCardForm = showing],
             Return(r), UNCHANGED mpRaced
      PROVE  MyPageInv'
  <2>1. /\ mpPage' \in CardPage /\ mpPage'.open /\ mpPage'.loading = "loaded"
        /\ mpPage'.served = NotServed /\ mpPage'.cards = Existing /\ mpPage'.calls = {}
    BY <1>2, <1>3, <1>6, ExistingCards DEF CardPage
  <2>2. /\ UNCHANGED cdRows /\ cdRequests' = [cdRequests EXCEPT ![r] = Rest]
    BY <1>6 DEF Return, Step
  <2>3. cdRequests'[r] = Rest /\ \A q \in Requests \ {r} : cdRequests'[q] = cdRequests[q]
    BY <1>2, <2>2 DEF MyPageInv, Inv, TypeInv
  <2>4. Inv'
    <3>1. CardsNext
      BY <1>2, <1>6 DEF CardsNext
    <3> QED
      BY <3>1, InvStep DEF MyPageInv
  <2>5. OnlyCards'
    BY <2>3 DEF MyPageInv, OnlyCards, Rest
  <2>6. Existing' = Existing
    BY <2>2 DEF Existing
  <2>7. Others' = {}
    <3>1. Own \subseteq {r}
      BY <1>3 DEF Own
    <3> QED
      BY <1>3, <2>3, <3>1, RestIsRequest DEF Others, Busy
  <2>8. PageFollows'
    BY <2>1, <2>6, <2>7 DEF PageFollows, NotServed
  <2> QED
    BY <1>2, <1>6, <2>1, <2>4, <2>5, <2>8 DEF MyPageInv, ClosedPage, CardPage, CardIds
<1>7. CASE request.step = "done" /\ request.ok
  <2>1. /\ mpPage' = [mpPage EXCEPT !.cards = ListedThen(call), !.calls = rest,
                                    !.showCardForm = mpPage.showCardForm /\ request.op # "register"]
        /\ Return(r) /\ UNCHANGED mpRaced
    BY <1>1, <1>7
  <2>2. ListedThen(call) = Existing
    BY <1>3, <1>7 DEF ListedThen, Follows
  <2>3. (mpPage.showCardForm /\ request.op # "register") \in BOOLEAN
    OBVIOUS
  <2> QED
    BY <1>6, <2>1, <2>2, <2>3
<1>8. CASE request.step = "done" /\ ~request.ok
  <2>1. mpPage' = [mpPage EXCEPT !.calls = rest] /\ Return(r) /\ UNCHANGED mpRaced
    BY <1>1, <1>8
  <2>2. mpPage.cards = Existing
    BY <1>3, <1>8 DEF Follows
  <2>3. mpPage' = [mpPage EXCEPT !.cards = mpPage.cards, !.calls = rest, !.showCardForm = mpPage.showCardForm]
    BY <1>2, <2>1 DEF CardPage
  <2>4. mpPage.showCardForm \in BOOLEAN
    BY <1>2 DEF CardPage
  <2> QED
    BY <1>6, <2>1, <2>2, <2>3, <2>4
<1> QED
  BY <1>1, <1>5, <1>7, <1>8

LEMMA CardsGoOnKeeps == ASSUME MyPageInv, ~mpRaced, CardsGoOn PROVE MyPageInv'
<1>1. /\ UNCHANGED mpPage /\ mpRaced' = (mpRaced \/ (mpPage.open /\ (Others # {} \/ Others' # {})))
      /\ Own' = Own
  BY DEF CardsGoOn, Own
<1>2. PICK r \in Requests :
        \/ CardStep(r)
        \/ r \notin Own /\ \/ \E n \in Numbers : RegisterCard(r, n)
                           \/ \E c \in CardIds : DeleteCard(r, c)
                           \/ Return(r)
  BY DEF CardsGoOn
<1>3. TypeInv /\ OnlyCards /\ ClosedPage /\ PageFollows /\ mpPage \in CardPage /\ mpRaced = FALSE
  BY DEF MyPageInv, Inv
<1>4. Inv'
  <2>1. CardsNext
    BY <1>2 DEF CardsNext
  <2> QED
    BY <2>1, InvStep DEF MyPageInv
<1>5. ASSUME NEW n \in Numbers, RegisterCard(r, n)
      PROVE  /\ cdRequests'[r].op = "register" /\ cdRequests'[r].step = "check"
             /\ \A q \in Requests \ {r} : cdRequests'[q] = cdRequests[q]
  <2> DEFINE x == [Rest EXCEPT !.op = "register", !.step = "check", !.number = n]
  <2>1. x.op = "register" /\ x.step = "check"
    BY DEF Rest
  <2>2. cdRequests' = [cdRequests EXCEPT ![r] = x]
    BY <1>5 DEF RegisterCard, Begin
  <2> HIDE DEF x
  <2> QED
    BY <1>3, <2>1, <2>2 DEF TypeInv
<1>6. ASSUME NEW c \in CardIds, DeleteCard(r, c)
      PROVE  /\ cdRequests'[r].op = "delete" /\ cdRequests'[r].step = "read"
             /\ \A q \in Requests \ {r} : cdRequests'[q] = cdRequests[q]
  <2> DEFINE x == [Rest EXCEPT !.op = "delete", !.step = "read", !.card = c]
  <2>1. x.op = "delete" /\ x.step = "read"
    BY DEF Rest
  <2>2. cdRequests' = [cdRequests EXCEPT ![r] = x]
    BY <1>6 DEF DeleteCard, Begin
  <2> HIDE DEF x
  <2> QED
    BY <1>3, <2>1, <2>2 DEF TypeInv
<1>7. ASSUME Return(r)
      PROVE  cdRequests'[r] = Rest /\ UNCHANGED cdRows /\ \A q \in Requests \ {r} : cdRequests'[q] = cdRequests[q]
  BY <1>3, <1>7 DEF Return, Step, TypeInv
<1>8. OnlyCards'
  <2>1. CASE CardStep(r)
    BY <1>3, <2>1, OpsKept DEF OnlyCards
  <2>2. CASE \E n \in Numbers : RegisterCard(r, n)
    BY <1>3, <1>5, <2>2 DEF OnlyCards
  <2>3. CASE \E c \in CardIds : DeleteCard(r, c)
    BY <1>3, <1>6, <2>3 DEF OnlyCards
  <2>4. CASE Return(r)
    BY <1>3, <1>7, <2>4 DEF OnlyCards, Rest
  <2> QED
    BY <1>2, <2>1, <2>2, <2>3, <2>4
<1>9. PageFollows'
  <2> SUFFICES ASSUME mpPage.open, ~mpRaced'
               PROVE  /\ Others' = {}
                      /\ mpPage.served # NotServed => mpPage.loading = "cards" /\ mpPage.served = Existing'
                      /\ mpPage.loading # "loaded" => mpPage.calls = {}
                      /\ \A a, b \in mpPage.calls : a = b
                      /\ mpPage.loading \in {"orders", "loaded"} /\ mpPage.calls = {} => mpPage.cards = Existing'
                      /\ \A call \in mpPage.calls :
                           call.cards = mpPage.cards /\ Follows(cdRequests'[call.request], call.cards, Existing')
    BY <1>1 DEF PageFollows, NotServed
  <2>1. Others = {} /\ Others' = {}
    BY <1>1
  <2>2. CASE CardStep(r)
    <3>1. Busy(r) /\ cdRequests[r].op \in {"register", "delete"}
      BY <1>3, <2>2, OpsKept, BusyOps DEF OnlyCards
    <3>2. PICK call \in mpPage.calls : call.request = r
      BY <2>1, <3>1 DEF Others, Own
    <3>3. mpPage.loading = "loaded" /\ mpPage.served = NotServed /\ mpPage.calls = {call} /\ call.cards = mpPage.cards
      BY <1>3, <3>2 DEF PageFollows
    <3>4. Follows(cdRequests[r], call.cards, Existing)
      BY <1>3, <3>2 DEF PageFollows
    <3>5. Follows(cdRequests'[r], call.cards, Existing')
      BY <1>3, <2>2, <3>4, FollowsStep
    <3> QED
      BY <2>1, <3>2, <3>3, <3>5
  <2>3. CASE r \notin Own /\ \E n \in Numbers : RegisterCard(r, n)
    <3>1. r \in Others'
      BY <1>1, <1>5, <2>3 DEF Others, Busy
    <3> QED
      BY <2>1, <3>1
  <2>4. CASE r \notin Own /\ \E c \in CardIds : DeleteCard(r, c)
    <3>1. r \in Others'
      BY <1>1, <1>6, <2>4 DEF Others, Busy
    <3> QED
      BY <2>1, <3>1
  <2>5. CASE r \notin Own /\ Return(r)
    <3>1. Existing' = Existing
      BY <1>7, <2>5 DEF Existing
    <3>2. \A call \in mpPage.calls : cdRequests'[call.request] = cdRequests[call.request]
      <4>1. \A call \in mpPage.calls : call.request \in Requests /\ call.request # r
        BY <1>3, <2>5 DEF CardPage, Own
      <4> QED
        BY <1>7, <2>5, <4>1
    <3> QED
      BY <1>3, <2>1, <3>1, <3>2 DEF PageFollows
  <2> QED
    BY <1>2, <2>2, <2>3, <2>4, <2>5
<1>10. mpRaced' \in BOOLEAN
  BY <1>1
<1> QED
  BY <1>1, <1>3, <1>4, <1>8, <1>9, <1>10 DEF MyPageInv, ClosedPage, CardPage, CardIds, Unopened, NotServed

-----------------------------------------------------------------------------
(* The theorems about the page *)

LEMMA MyPageStep == ASSUME MyPageInv, [MyPageNext]_<<mpVars, cdVars>> PROVE MyPageInv'
<1>1. CASE MyPageNext
  BY <1>1, LeaveMyPageKeeps, OpenMyPageKeeps, LoadMyPageKeeps, GetUserCardsKeeps, ToggleCardFormKeeps, CardSectionKeeps,
     CallAnsweredKeeps, CardsGoOnKeeps DEF MyPageNext, CardSection
<1>2. CASE UNCHANGED <<mpVars, cdVars>>
  <2>1. UNCHANGED cdVars /\ UNCHANGED mpPage /\ UNCHANGED mpRaced
    BY <1>2 DEF mpVars
  <2>2. mpPage \in CardPage /\ mpRaced \in BOOLEAN /\ ClosedPage /\ PageFollows
    BY DEF MyPageInv
  <2> QED
    BY <2>1, <2>2, PageAloneKeeps DEF ClosedPage, PageFollows
<1> QED
  BY <1>1, <1>2

LEMMA MyPageInvEnough == ASSUME MyPageInv PROVE MyPageTypeOK /\ MyPageListsTheCards
<1>1. CardsTypeOK
  BY DEF MyPageInv, Inv, TypeInv, CardsTypeOK
<1>2. MyPageTypeOK
  BY <1>1 DEF MyPageInv, MyPageTypeOK, CardPage
<1>3. MyPageListsTheCards
  BY DEF MyPageInv, PageFollows, MyPageListsTheCards
<1> QED
  BY <1>2, <1>3

(* Whatever its calls and the rows are, the page of cards follows them: the *)
(* strengthening of PageListsCards (MyPage.js over CardService).            *)
THEOREM MyPageInductive == MyPageSpec => []MyPageInv
<1>1. MyPageInit => MyPageInv
  BY MyPageInitInv
<1>2. MyPageInv /\ [MyPageNext]_<<mpVars, cdVars>> => MyPageInv'
  BY MyPageStep
<1> QED
  BY <1>1, <1>2, PTL DEF MyPageSpec

(* The page of cards lists the user's cards when it has loaded and no call of its  *)
(* own is under way, if its calls came one after the other, none failed and nobody *)
(* else changed the cards (MyPage.js over CardService).                            *)
THEOREM PageListsCards == MyPageSpec => [](MyPageTypeOK /\ MyPageListsTheCards)
  BY MyPageInductive, MyPageInvEnough, PTL
=============================================================================
