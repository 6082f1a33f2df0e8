---------------------------- MODULE ProductPage ----------------------------
(***************************************************************************)
(* The components of the web client that show one product: its page and    *)
(* its card in a list, while it is sold (Product, Productcomponent) and     *)
(* while its survey runs (Quantity, Quantitycomponent), and the page of    *)
(* its seller (Productlead, Quantitylead); with product-service's likes    *)
(* and surveys and order-service's count behind them.                      *)
(*                                                                         *)
(* The heart is set when it is clicked, not when the service answers, and  *)
(* the id a later unlike needs is only learnt from the list of likes that  *)
(* a component asks for when it is mounted.                                *)
(***************************************************************************)
EXTENDS Integers, FiniteSets

CONSTANTS MinCounts,   \* what the seller may type as min_count: nothing refuses 0 or less
          MaxCounted,  \* bound: units ordered or surveyed
          MaxClicks    \* bound: clicks on hearts

ASSUME MinCountsAssumption == MinCounts \subseteq Int
ASSUME ClicksAssumption == MaxClicks \in Nat /\ MaxCounted \in Nat

VARIABLES
  ppLikes,   \* collection like: the ids of the user's likes of the product
  ppUnits,   \* units ordered, or surveyed, for its title
  ppPage,    \* the component that is mounted
  ppCalls,   \* calls of POST and DELETE /my/like under way
  ppClicks,  \* clicks so far
  ppRaced    \* history: did a list race with a call, or a call fail, or was a like doubled

ppVars == <<ppLikes, ppUnits, ppPage, ppCalls, ppClicks, ppRaced>>

(* What each component has: a heart, the count it asks for, a percentage capped at *)
(* 100, a min_count that is 1 when it is 0, and words for a minimum that is met.   *)
Component(heart, counts, capped, orOne, words) ==
  [heart |-> heart, counts |-> counts, capped |-> capped, orOne |-> orOne, words |-> words]

Product == Component(TRUE, "orders", TRUE, FALSE, TRUE)
Productcomponent == Component(TRUE, "orders", TRUE, TRUE, TRUE)
Quantity == Component(TRUE, "surveys", FALSE, FALSE, TRUE)
Quantitycomponent == Component(TRUE, "surveys", FALSE, FALSE, FALSE)
Productlead == Component(FALSE, "orders", FALSE, FALSE, FALSE)
Quantitylead == Component(FALSE, "surveys", FALSE, FALSE, FALSE)

Components == {Product, Productcomponent, Quantity, Quantitycomponent, Productlead, Quantitylead}

NoId == 0   \* useState("")

(* list: the call of GET /my/like/{pid}, asked, served with those ids, or answered; *)
(* min: min_count as App loaded it; posted: history, a like was posted from here.   *)
Closed == [open |-> FALSE, heart |-> FALSE, heartid |-> NoId, list |-> "answered", ids |-> {},
           count |-> 0, has |-> Product, min |-> 0, posted |-> FALSE]

ProductPageInit ==
  /\ ppLikes = {} /\ ppUnits = 0
  /\ ppPage = Closed
  /\ ppCalls = {} /\ ppClicks = 0 /\ ppRaced = FALSE

Like(n) == [method |-> "POST", id |-> n]
Unlike(id) == [method |-> "DELETE", id |-> id]

(* The effect of a component: its list of likes and its count are asked for.  Its  *)
(* seller may have typed another min_count since the last time (Editgonggu.js:155). *)
Mount(component, m) ==
  /\ ~ppPage.open
  /\ ppPage' = [Closed EXCEPT !.open = TRUE, !.has = component, !.min = m,
                              !.list = IF component.heart THEN "asked" ELSE "answered"]
  /\ ppRaced' = (ppRaced \/ ppCalls # {})
  /\ UNCHANGED <<ppLikes, ppUnits, ppCalls, ppClicks>>

Leave ==
  /\ ppPage.open
  /\ ppPage' = Closed
  /\ UNCHANGED <<ppLikes, ppUnits, ppCalls, ppClicks, ppRaced>>

(* LikeController.findByPid *)
FindByPid ==
  /\ ppPage.list = "asked"
  /\ ppPage' = [ppPage EXCEPT !.list = "served", !.ids = ppLikes]
  /\ ppRaced' = (ppRaced \/ Cardinality(ppLikes) > 1)
  /\ UNCHANGED <<ppLikes, ppUnits, ppCalls, ppClicks>>

Oldest(ids) == CHOOSE i \in ids : \A j \in ids : i <= j

HeartListsWithoutId ==   \* the id not set, for mutation
  /\ ppPage.list = "served"
  /\ ppPage' = [ppPage EXCEPT !.list = "answered", !.ids = {}, !.heart = @ \/ ppPage.ids # {}]
  /\ UNCHANGED <<ppLikes, ppUnits, ppCalls, ppClicks, ppRaced>>

(* heartlists has its answer: the first like of the title sets id and heart. *)
HeartLists ==
  /\ ppPage.list = "served"
  /\ ppPage' = IF ppPage.ids = {}
               THEN [ppPage EXCEPT !.list = "answered"]
               ELSE [ppPage EXCEPT !.list = "answered", !.ids = {},
                                   !.heartid = Oldest(ppPage.ids), !.heart = TRUE]
  /\ UNCHANGED <<ppLikes, ppUnits, ppCalls, ppClicks, ppRaced>>

(* clickLike: the heart first, then the call; neither learns or forgets an id. *)
ClickLike ==
  /\ ppPage.open /\ ppPage.has.heart /\ ppClicks < MaxClicks
  /\ ppClicks' = ppClicks + 1
  /\ ppPage' = [ppPage EXCEPT !.heart = ~@, !.posted = @ \/ ~ppPage.heart]
  /\ ppCalls' = ppCalls \cup {IF ppPage.heart THEN Unlike(ppPage.heartid) ELSE Like(ppClicks')}
  /\ UNCHANGED <<ppLikes, ppUnits, ppRaced>>

(* LikeController.save and delete, in any order; DELETE /my/like/ has no handler. *)
ServeLike(call) ==
  /\ ppLikes' = IF call.method = "POST" THEN ppLikes \cup {call.id} ELSE ppLikes \ {call.id}
  /\ ppCalls' = ppCalls \ {call}
  /\ UNCHANGED <<ppUnits, ppPage, ppClicks, ppRaced>>

(* A call or a list that fails is an unhandled rejection: nothing is undone. *)
LikeFails ==
  /\ \/ \E call \in ppCalls : ppCalls' = ppCalls \ {call} /\ UNCHANGED ppPage
     \/ /\ ppPage.list # "answered"
        /\ ppPage' = [ppPage EXCEPT !.list = "answered", !.ids = {}]
        /\ UNCHANGED ppCalls
  /\ ppRaced' = TRUE
  /\ UNCHANGED <<ppLikes, ppUnits, ppClicks>>

(* RegistrationController.save and SurveyController.save only add rows. *)
UnitsAdded(q) ==
  /\ ppUnits + q <= MaxCounted
  /\ ppUnits' = ppUnits + q
  /\ UNCHANGED <<ppLikes, ppPage, ppCalls, ppClicks, ppRaced>>

(* Quantity's prom and sendapply: a number above zero; the page's own count stays. *)
SendApply(q) ==
  /\ ppPage.open /\ ppPage.has = Quantity
  /\ UnitsAdded(q)

(* calculateRate: GET /order/count or GET /survey; a failure leaves or sets 0. *)
CalculateRate ==
  /\ ppPage.open /\ ppPage.count = 0
  /\ ppPage' = [ppPage EXCEPT !.count = ppUnits]
  /\ UNCHANGED <<ppLikes, ppUnits, ppCalls, ppClicks, ppRaced>>

(* The min_count a component divides by, and compares with. *)
Least == IF ppPage.min = 0 /\ ppPage.has.orOne THEN 1 ELSE ppPage.min

(* Math.ceil of n / d; the floating point of the code errs, but not across 99 or 100. *)
Ceil(n, d) == IF d > 0 THEN (n + d - 1) \div d ELSE -(n \div (-d))

AtMost100(n) == IF n > 100 THEN 100 ELSE n

(* The percentage beside the product: NaN or Infinity when it is divided by zero. *)
Percent ==
  IF Least = 0
  THEN IF ppPage.count = 0 THEN "NaN" ELSE IF ppPage.has.capped THEN 100 ELSE "Infinity"
  ELSE LET up == Ceil(ppPage.count * 100, Least) IN IF ppPage.has.capped THEN AtMost100(up) ELSE up

(* isAchieved, and the words of Quantity for a minimum that is met. *)
IsAchieved == ppPage.has.words /\ ppPage.count >= Least

ProductPageNext ==
  \/ \E component \in Components, m \in MinCounts : Mount(component, m)
  \/ Leave
  \/ FindByPid \/ HeartLists \/ LikeFails
  \/ ClickLike
  \/ \E call \in ppCalls : ServeLike(call)
  \/ \E q \in 1..MaxCounted : SendApply(q) \/ UnitsAdded(q)
  \/ CalculateRate

ProductPageSpec == ProductPageInit /\ [][ProductPageNext]_ppVars

-----------------------------------------------------------------------------
(* Properties *)

ProductPageTypeOK ==
  /\ ppLikes \subseteq 1..MaxClicks
  /\ ppUnits \in 0..MaxCounted
  /\ ppPage \in [open : BOOLEAN, heart : BOOLEAN, heartid : 0..MaxClicks,
                 list : {"asked", "served", "answered"}, ids : SUBSET (1..MaxClicks),
                 count : 0..MaxCounted, has : Components, min : MinCounts \cup {0}, posted : BOOLEAN]
  /\ ppCalls \subseteq [method : {"POST", "DELETE"}, id : 0..MaxClicks]
  /\ ppClicks \in 0..MaxClicks
  /\ ppRaced \in BOOLEAN

(* When nothing is under way and nothing failed, a full heart means the user does  *)
(* like the product, and an empty one that the user does not, unless the like was  *)
(* posted from this very component, which never learns its id, or was posted twice *)
(* before.                                                                         *)
HeartAgrees ==
  ppPage.open /\ ppPage.has.heart /\ ppPage.list = "answered" /\ ppCalls = {} /\ ~ppRaced =>
    /\ ppPage.heart => ppLikes # {}
    /\ ~ppPage.heart /\ ppLikes # {} => ppPage.posted

(* A product said to be achieved has been ordered or surveyed that often, and if   *)
(* its min_count is above zero the percentage beside it is 100, or more where it   *)
(* is not capped.  A percentage of 100 need not mean achieved, as it is rounded up *)
(* (199 of 200), but less than one percent is missing.  With a min_count of zero   *)
(* or less all is said to be achieved, at any percentage, NaN among them.          *)
RateAgrees ==
  ppPage.open =>
    /\ IsAchieved => ppUnits >= Least
    /\ IsAchieved /\ Least > 0 => Percent >= 100 /\ (ppPage.has.capped => Percent = 100)
    /\ Least > 0 /\ Percent >= 100 => ppUnits * 100 > Least * 99

(* What the component shows of the user's like and of the count (clickLike,        *)
(* heartlists, calculateRate, isAchieved).                                         *)
ProductPageAgrees == HeartAgrees /\ RateAgrees
=============================================================================
