------------------------------- MODULE MCShop -------------------------------
(***************************************************************************)
(* The parts of the web shop that share no state, side by side: a behaviour *)
(* is one of a single area, and the others rest in their initial states.   *)
(* One run checks them all; none restricts another.                        *)
(***************************************************************************)
EXTENDS ProductPage, ProductLists, ProductForm, MyPage, OrderEvents, Ranking, OrderNotification, SearchBox,
        Catalogue, Members, TLC

VARIABLE area   \* what this behaviour is about

Areas == {"product page", "lists", "form", "cards", "my page", "order events", "ranking", "notifications",
          "search box", "catalogue", "members"}

MCProduct(id, start, finish, research, category, managed) ==
  [id |-> id, startDate |-> start, finishDate |-> finish, finishResearch |-> research, category |-> category,
   managed |-> managed]

(* Below zero, zero, and a number that orders reach. *)
MCMinCounts == {-1, 0, 2}

(* Now is 2. *)
MCOffered == {MCProduct("running", 1, 3, 1, "clothes", TRUE), MCProduct("upcoming", 3, 4, 3, "badge", TRUE),
              MCProduct("over", 0, 1, 0, "etc", FALSE)}
MCTestProducts == {MCProduct("test", 1, 3, 0, "food", FALSE)}

MCInit ==
  /\ area \in Areas
  /\ ProductPageInit /\ ProductListsInit /\ ProductFormInit /\ MyPageInit /\ OrderEventsInit /\ RankingInit
  /\ OrderNotificationInit /\ SearchBoxInit /\ CatalogueInit /\ MembersInit

OnlyPages == UNCHANGED <<oeVars, rkVars, ntVars, sbVars, caVars, mbVars>>
OnlyRest == UNCHANGED <<ppVars, plVars, pfVars, cdVars, mpVars>>

(* An area for which fairness is assumed goes on alone. *)
OrderEventsArea == area = "order events" /\ OrderEventsNext /\ OnlyRest /\ UNCHANGED <<rkVars, ntVars, sbVars, caVars, mbVars>>
RankingArea == area = "ranking" /\ RankingNext /\ OnlyRest /\ UNCHANGED <<oeVars, ntVars, sbVars, caVars, mbVars>>
NotificationsArea ==
  area = "notifications" /\ OrderNotificationNext /\ OnlyRest /\ UNCHANGED <<oeVars, rkVars, sbVars, caVars, mbVars>>
SearchBoxArea == area = "search box" /\ SearchBoxNext /\ OnlyRest /\ UNCHANGED <<oeVars, rkVars, ntVars, caVars, mbVars>>

MCNext ==
  /\ UNCHANGED area
  /\ \/ area = "product page" /\ ProductPageNext /\ OnlyPages /\ UNCHANGED <<plVars, pfVars, cdVars, mpVars>>
     \/ area = "lists" /\ ProductListsNext /\ OnlyPages /\ UNCHANGED <<ppVars, pfVars, cdVars, mpVars>>
     \/ area = "form" /\ ProductFormNext /\ OnlyPages /\ UNCHANGED <<ppVars, plVars, cdVars, mpVars>>
     \/ area = "cards" /\ CardsNext /\ OnlyPages /\ UNCHANGED <<ppVars, plVars, pfVars, mpVars>>
     \/ area = "my page" /\ MyPageNext /\ OnlyPages /\ UNCHANGED <<ppVars, plVars, pfVars>>
     \/ area = "catalogue" /\ CatalogueNext /\ OnlyRest /\ UNCHANGED <<oeVars, rkVars, ntVars, sbVars, mbVars>>
     \/ area = "members" /\ MembersNext /\ OnlyRest /\ UNCHANGED <<oeVars, rkVars, ntVars, sbVars, caVars>>
     \/ OrderEventsArea \/ RankingArea \/ NotificationsArea \/ SearchBoxArea

mcVars == <<area, ppVars, plVars, pfVars, cdVars, mpVars, oeVars, rkVars, ntVars, sbVars, caVars, mbVars>>

(* The fairness of the areas; the scheduler of the ranking runs only in its own. *)
MCFairness ==
  /\ OrderEventsFairness
  /\ OrderNotificationFairness
  /\ SearchBoxFairness
  /\ WF_rkVars(area = "ranking" /\ BroadcastRankings)
  /\ RankingProgress

MCSpec == MCInit /\ [][MCNext]_mcVars /\ MCFairness

(* The state of the area a behaviour is about has its types. *)
ShopTypeOK ==
  CASE area = "product page" -> ProductPageTypeOK
    [] area = "lists" -> ProductListsTypeOK
    [] area = "form" -> ProductFormTypeOK
    [] area = "cards" -> CardsTypeOK
    [] area = "my page" -> MyPageTypeOK
    [] area = "order events" -> OrderEventsTypeOK
    [] area = "ranking" -> RankingTypeOK
    [] area = "notifications" -> OrderNotificationTypeOK
    [] area = "search box" -> SearchBoxTypeOK
    [] area = "catalogue" -> CatalogueTypeOK
    [] area = "members" -> MembersTypeOK

(* Neither products nor members are there twice, nor welcomed twice, and their     *)
(* copies follow them, as long as no calls overlap and nothing fails.              *)
DocumentsAgree == CatalogueAgrees /\ MembersAgree

(* When nothing new happens, everything that follows asynchronously comes to rest  *)
(* where it should: the consumers of order-events and the retry job, the ranking   *)
(* on a page, the notifications and the search on the start page.                  *)
ShopSettles == <>[](Consumed /\ RankingShown /\ NotificationsGone /\ SearchSettled)
=============================================================================
