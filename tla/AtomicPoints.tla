---------------------------- MODULE AtomicPoints ----------------------------
(***************************************************************************)
(* What point-service promises its callers about one member's account: a   *)
(* request takes effect at one instant between its arrival and its answer, *)
(* a refused request has no effect, and an answer "ok" carries the balance *)
(* of that instant.  A request may also be answered "error": then it took  *)
(* effect at most once, and the caller cannot tell.                        *)
(*                                                                         *)
(* The module says nothing of rows, locks, versions or caches; PointLedger *)
(* is shown to implement it.                                               *)
(***************************************************************************)
EXTENDS Integers

CONSTANTS Clients, Amounts

VARIABLES account,   \* the member's account: does it exist, what can be spent
          request,   \* per client: the request under way
          answer     \* per client: what became of it

vars == <<account, request, answer>>

NoRequest == [kind |-> "none", amount |-> 0]
NoAnswer  == [status |-> "none", balance |-> 0]
Done(b)   == [status |-> "ok", balance |-> b]
Refused(why) == [status |-> why, balance |-> 0]

Kinds    == {"get", "earn", "use", "cancel"}
Refusals == {"notfound", "insufficient", "conflict", "error"}

Init ==
  /\ account = [exists |-> FALSE, available |-> 0, total |-> 0]
  /\ request = [c \in Clients |-> NoRequest]
  /\ answer = [c \in Clients |-> NoAnswer]

Pending(c) == request[c] # NoRequest /\ answer[c] = NoAnswer

(* What a request does to the account, and when it may do it. *)
Allowed(kind, amount) ==
  CASE kind \in {"get", "earn"} -> TRUE
    [] kind = "cancel"          -> account.exists
    [] kind = "use"             -> account.exists /\ account.available >= amount

Effect(kind, amount) ==
  CASE kind = "get" -> [account EXCEPT !.exists = TRUE]
    [] kind = "use" -> [account EXCEPT !.available = @ - amount]
    [] OTHER        -> [exists |-> TRUE,
                        available |-> account.available + amount,
                        total |-> account.total + amount]

Invoke(c) ==
  /\ request[c] = NoRequest
  /\ \E k \in Kinds, a \in Amounts :
       request' = [request EXCEPT ![c] = [kind |-> k, amount |-> a]]
  /\ UNCHANGED <<account, answer>>

(* The instant at which the request takes effect. *)
Apply(c) ==
  /\ Pending(c)
  /\ Allowed(request[c].kind, request[c].amount)
  /\ account' = Effect(request[c].kind, request[c].amount)
  /\ answer' = [answer EXCEPT ![c] = Done(account'.available)]
  /\ UNCHANGED request

(* A refusal for want of an account or of points is true of the account. *)
Refuse(c) ==
  /\ Pending(c)
  /\ \E why \in Refusals :
       /\ why = "notfound" => ~account.exists
       /\ why = "insufficient" => /\ request[c].kind = "use"
                                  /\ account.available < request[c].amount
       /\ answer' = [answer EXCEPT ![c] = Refused(why)]
  /\ UNCHANGED <<account, request>>

(* The effect stands but its answer is lost on the way. *)
LoseAnswer(c) ==
  /\ answer[c].status = "ok"
  /\ answer' = [answer EXCEPT ![c] = Refused("error")]
  /\ UNCHANGED <<account, request>>

Return(c) ==
  /\ answer[c] # NoAnswer
  /\ request' = [request EXCEPT ![c] = NoRequest]
  /\ answer' = [answer EXCEPT ![c] = NoAnswer]
  /\ UNCHANGED account

Next == \E c \in Clients :
          \/ Invoke(c) \/ Apply(c) \/ Refuse(c) \/ LoseAnswer(c) \/ Return(c)

Spec == Init /\ [][Next]_vars
=============================================================================
