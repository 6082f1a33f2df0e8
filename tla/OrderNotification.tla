------------------------- MODULE OrderNotification -------------------------
(***************************************************************************)
(* The notifications of orders at the top of the web client                *)
(* (components/OrderNotification.js): each arrives over the connection to  *)
(* order-service, is put before the others, and sets a timer that removes   *)
(* every notification of its order.  Only the newest are kept.             *)
(***************************************************************************)
EXTENDS Integers, Sequences

CONSTANTS Notified,          \* ids of orders
          MaxNotifications,  \* how many are kept
          MaxMessages        \* bound: messages that arrive

ASSUME NotificationsAssumption == MaxNotifications \in Nat \ {0} /\ MaxMessages \in Nat

VARIABLES
  ntMounted,        \* is the application mounted
  ntNotifications,  \* its state notifications: order ids, the newest first
  ntTimers,         \* the timers under way, by the message that set each
  ntMessages        \* messages so far

ntVars == <<ntMounted, ntNotifications, ntTimers, ntMessages>>

OrderNotificationInit == ntMounted = TRUE /\ ntNotifications = <<>> /\ ntTimers = {} /\ ntMessages = 0

AllKept(list) == list   \* without the slice, for mutation

Newest(list) == SubSeq(list, 1, IF Len(list) < MaxNotifications THEN Len(list) ELSE MaxNotifications)

(* The subscriber of /topic/orders. *)
Notification(orderId) ==
  /\ ntMounted /\ ntMessages < MaxMessages
  /\ ntNotifications' = Newest(<<orderId>> \o ntNotifications)
  /\ ntTimers' = ntTimers \cup {[orderId |-> orderId, message |-> ntMessages]}
  /\ ntMessages' = ntMessages + 1
  /\ UNCHANGED ntMounted

(* prev.filter *)
OfOtherOrders(list, orderId) ==
  LET kept[i \in 0..Len(list)] ==
        IF i = 0 THEN <<>>
        ELSE IF list[i] = orderId THEN kept[i - 1]
        ELSE Append(kept[i - 1], list[i])
  IN kept[Len(list)]

(* 5 seconds later. *)
TimeOut(timer) ==
  /\ timer \in ntTimers
  /\ ntTimers' = ntTimers \ {timer}
  /\ ntNotifications' = OfOtherOrders(ntNotifications, timer.orderId)
  /\ UNCHANGED <<ntMounted, ntMessages>>

(* The application is taken off; the timers find nothing to change. *)
DeactivateClient ==
  /\ ntMounted
  /\ ntMounted' = FALSE /\ ntNotifications' = <<>>
  /\ UNCHANGED <<ntTimers, ntMessages>>

NotificationTimers == [orderId : Notified, message : 0..MaxMessages]

OrderNotificationNext ==
  \/ \E orderId \in Notified : Notification(orderId)
  \/ \E timer \in NotificationTimers : TimeOut(timer)
  \/ DeactivateClient

(* Timers fire. *)
OrderNotificationFairness == WF_ntVars(\E timer \in NotificationTimers : TimeOut(timer))

OrderNotificationSpec == OrderNotificationInit /\ [][OrderNotificationNext]_ntVars /\ OrderNotificationFairness

-----------------------------------------------------------------------------
(* Properties *)

OrderNotificationTypeOK ==
  /\ ntMounted \in BOOLEAN
  /\ ntNotifications \in Seq(Notified) /\ Len(ntNotifications) <= MaxNotifications
  /\ ntTimers \subseteq NotificationTimers
  /\ ntMessages \in 0..MaxMessages

(* When no more orders come, no notification stays on the screen, although a timer   *)
(* removes all notifications of its order and old ones are cut off (subscribe,       *)
(* setTimeout).                                                                      *)
NotificationsGone == ntNotifications = <<>>
NotificationsLeave == <>[]NotificationsGone
=============================================================================
