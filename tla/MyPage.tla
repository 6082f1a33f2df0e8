------------------------------ MODULE MyPage ------------------------------
(***************************************************************************)
(* The page of the web client on which a user looks after cards            *)
(* (components/MyPage.js), and the requests it and others make of Cards.   *)
(* It loads member, points, cards and orders one after the other; adding   *)
(* and deleting a card sets the list from the one of the render in which   *)
(* the button was pressed.  Member, points and orders are only displayed.  *)
(***************************************************************************)
EXTENDS Cards

VARIABLES
  mpPage,   \* its state
  mpRaced   \* history: since it was opened, did its calls overlap or fail, or did others add or delete cards

mpVars == <<mpPage, mpRaced>>

NotServed == {0}   \* GET /payment/card has no answer yet

(* calls: its POST and DELETE calls under way, with cards as its render had them. *)
Unopened == [open |-> FALSE, loading |-> "member", served |-> NotServed, cards |-> {}, showCardForm |-> FALSE, calls |-> {}]

MyPageInit == CardsInit /\ mpPage = Unopened /\ mpRaced = FALSE

Own == {call.request : call \in mpPage.calls}

(* Requests of others that change which cards there are. *)
Others == {r \in Requests : Busy(r) /\ r \notin Own /\ cdRequests[r].op \in {"register", "delete"}}

(* routes/MyPage.js shows the page when anything is stored in the session. *)
OpenMyPage ==
  /\ ~mpPage.open
  /\ mpPage' = [Unopened EXCEPT !.open = TRUE]
  /\ mpRaced' = (Others # {})
  /\ UNCHANGED cdVars

(* Its calls go on without it. *)
LeaveMyPage ==
  /\ mpPage.open
  /\ mpPage' = Unopened
  /\ mpRaced' = FALSE
  /\ UNCHANGED cdVars

(* fetchData: each answer or failure leads to the next call. *)
LoadMyPage ==
  /\ mpPage.open
  /\ \/ mpPage.loading = "member" /\ mpPage' = [mpPage EXCEPT !.loading = "point"] /\ UNCHANGED mpRaced
     \/ mpPage.loading = "point" /\ mpPage' = [mpPage EXCEPT !.loading = "cards"] /\ UNCHANGED mpRaced
     \/ /\ mpPage.loading = "cards" /\ mpPage.served # NotServed
        /\ mpPage' = [mpPage EXCEPT !.loading = "orders", !.cards = mpPage.served, !.served = NotServed]
        /\ UNCHANGED mpRaced
     \/ /\ mpPage.loading = "cards"
        /\ mpPage' = [mpPage EXCEPT !.loading = "orders", !.cards = {}, !.served = NotServed]
        /\ mpRaced' = TRUE
     \/ mpPage.loading = "orders" /\ mpPage' = [mpPage EXCEPT !.loading = "loaded"] /\ UNCHANGED mpRaced
  /\ UNCHANGED cdVars

GetUserCards ==
  /\ mpPage.open /\ mpPage.loading = "cards" /\ mpPage.served = NotServed
  /\ mpPage' = [mpPage EXCEPT !.served = Existing]
  /\ UNCHANGED <<mpRaced, cdVars>>

ToggleCardForm ==
  /\ mpPage.open
  /\ mpPage' = [mpPage EXCEPT !.showCardForm = ~@]
  /\ UNCHANGED <<mpRaced, cdVars>>

Calling(r) ==
  /\ mpPage' = [mpPage EXCEPT !.calls = @ \cup {[request |-> r, cards |-> mpPage.cards]}]
  /\ mpRaced' = (mpRaced \/ mpPage.calls # {} \/ mpPage.loading # "loaded")

(* The form is there while the page is loading, too. *)
HandleCardRegister(r) ==
  /\ mpPage.open /\ mpPage.showCardForm
  /\ \E n \in Numbers : RegisterCard(r, n)
  /\ Calling(r)

(* The buttons in the list, which is there when the page has loaded. *)
HandleDeleteCard(r) ==
  /\ mpPage.open /\ mpPage.loading = "loaded"
  /\ \E c \in mpPage.cards : DeleteCard(r, c)
  /\ Calling(r)

(* The section of the cards: its button, its form and its list. *)
CardSection ==
  \/ ToggleCardForm
  \/ \E r \in Requests \ Own : HandleCardRegister(r) \/ HandleDeleteCard(r)

ListedNewOnly(call) ==   \* the cards before it forgotten, for mutation
  LET request == cdRequests[call.request] IN
  IF request.op = "register" THEN {request.card} ELSE call.cards \ {request.card}

ListedThen(call) ==
  LET request == cdRequests[call.request] IN
  IF request.op = "register" THEN call.cards \cup {request.card} ELSE call.cards \ {request.card}

(* The answer of a call: the list of its render, with the card or without it. *)
(* A refusal, or a connection that broke, is an alert.                        *)
CallAnswered ==
  \E call \in mpPage.calls :
    LET request == cdRequests[call.request]
        rest == mpPage.calls \ {call}
    IN \/ /\ request.step = "done" /\ request.ok
          /\ mpPage' = [mpPage EXCEPT !.cards = ListedThen(call), !.calls = rest,
                                      !.showCardForm = @ /\ request.op # "register"]
          /\ Return(call.request)
          /\ UNCHANGED mpRaced
       \/ /\ request.step = "done" /\ ~request.ok
          /\ mpPage' = [mpPage EXCEPT !.calls = rest]
          /\ Return(call.request)
          /\ UNCHANGED mpRaced
       \/ /\ request.step = "idle"
          /\ mpPage' = [mpPage EXCEPT !.calls = rest]
          /\ mpRaced' = TRUE
          /\ UNCHANGED cdVars

(* Requests go on, and others begin and end that add and delete cards.  Charges and *)
(* refunds, which Cards follows, are left out here.                                 *)
CardsGoOn ==
  /\ UNCHANGED mpPage
  /\ \/ \E r \in Requests : CardStep(r)
     \/ \E r \in Requests \ Own :
          \/ \E n \in Numbers : RegisterCard(r, n)
          \/ \E c \in CardIds : DeleteCard(r, c)
          \/ Return(r)
  /\ mpRaced' = (mpRaced \/ (mpPage.open /\ (Others # {} \/ Others' # {})))

(* Bound: of a page whose calls overlapped or failed, or behind whose back cards    *)
(* were added or deleted, the calls are followed and not the page.                  *)
MyPageNext ==
  \/ LeaveMyPage
  \/ /\ ~mpRaced
     /\ OpenMyPage \/ LoadMyPage \/ GetUserCards \/ CardSection \/ CallAnswered \/ CardsGoOn

MyPageSpec == MyPageInit /\ [][MyPageNext]_<<mpVars, cdVars>>

-----------------------------------------------------------------------------
(* Properties *)

MyPageTypeOK ==
  /\ CardsTypeOK
  /\ mpPage \in [open : BOOLEAN, loading : {"member", "point", "cards", "orders", "loaded"},
                 served : SUBSET (CardIds \cup {0}), cards : SUBSET CardIds, showCardForm : BOOLEAN,
                 calls : SUBSET [request : Requests, cards : SUBSET CardIds]]
  /\ mpRaced \in BOOLEAN

(* The cards of the page are the user's cards when it has loaded and no call of     *)
(* its own is under way, if its calls came one after the other, none failed, and    *)
(* nobody else added or deleted one (MyPage.js fetchData, handleCardRegister,       *)
(* handleDeleteCard, over CardService).                                             *)
MyPageListsTheCards ==
  mpPage.open /\ mpPage.loading = "loaded" /\ mpPage.calls = {} /\ ~mpRaced => mpPage.cards = Existing
=============================================================================
