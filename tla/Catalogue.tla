------------------------------ MODULE Catalogue ------------------------------
(***************************************************************************)
(* product-service's documents of products and their copies in the search   *)
(* index: SellController.save and update, the topic product-events, and     *)
(* search-service's ProductEventConsumer.                                   *)
(*                                                                         *)
(* A seller's title is looked up and the document inserted in two steps,    *)
(* and an event is sent after the document was saved, in no transaction     *)
(* with it.  Of a document only the title is followed, of one seller; stock *)
(* and the cache of single products are in StockOrders.                     *)
(***************************************************************************)
EXTENDS Integers, Sequences, FiniteSets

CONSTANTS SaleTitles,   \* titles of one seller's products
          Sellers,      \* calls under way at a time
          MaxDocuments, \* bound: documents ever inserted
          MaxWrites,    \* bound: documents inserted and updated
          NoDocument    \* no document

ASSUME DocumentsAssumption == MaxDocuments \in Nat /\ MaxWrites \in Nat
ASSUME TitlesAssumption == NoDocument \notin SaleTitles

VARIABLES
  caSell,       \* collection sell: the title of each document
  caCalls,      \* per call: how far it is, its document and title
  caWrites,     \* writes so far
  caEvents,     \* product-events
  caPosition,   \* events the consumer has handled
  caCommitted,  \* the offset it starts from after a death
  caIndex,      \* the search index
  caRaced,      \* history: did calls overlap, or an update take a title that was taken
  caLost        \* history: was an event not sent or its handling swallowed

caVars == <<caSell, caCalls, caWrites, caEvents, caPosition, caCommitted, caIndex, caRaced, caLost>>
caBroker == <<caPosition, caCommitted, caIndex>>

Documents == 1..MaxDocuments
NoRequest == [step |-> "idle", id |-> 0, title |-> NoDocument]

CatalogueInit ==
  /\ caSell = [d \in Documents |-> NoDocument] /\ caIndex = caSell
  /\ caCalls = [s \in Sellers |-> NoRequest]
  /\ caWrites = 0
  /\ caEvents = <<>> /\ caPosition = 0 /\ caCommitted = 0
  /\ caRaced = FALSE /\ caLost = FALSE

Inserted == {d \in Documents : caSell[d] # NoDocument}
Taken(title) == \E d \in Inserted : caSell[d] = title

Request(s, request) ==
  /\ caCalls[s] = NoRequest
  /\ caCalls' = [caCalls EXCEPT ![s] = request]
  /\ caRaced' = (caRaced \/ \E other \in Sellers : caCalls[other] # NoRequest)
  /\ UNCHANGED <<caSell, caWrites, caEvents, caBroker, caLost>>

(* POST /sell, PUT /sell/{id}.  The forms let the same product be sent twice. *)
PostSell(s, title) == Request(s, [step |-> "find", id |-> 0, title |-> title])
PutSell(s, d, title) == Request(s, [step |-> "read", id |-> d, title |-> title])

Proceed(s, step) == caCalls' = [caCalls EXCEPT ![s].step = step]
Finish(s) == caCalls' = [caCalls EXCEPT ![s] = NoRequest]

FindNothing(s) ==   \* without the test for the title, for mutation
  /\ caCalls[s].step = "find"
  /\ Proceed(s, "insert")
  /\ UNCHANGED <<caSell, caWrites, caEvents, caBroker, caRaced, caLost>>

(* save: findByTitleAndManagerId; a title that is there is a conflict. *)
FindByTitleAndManagerId(s) ==
  /\ caCalls[s].step = "find"
  /\ IF Taken(caCalls[s].title) THEN Finish(s) ELSE Proceed(s, "insert")
  /\ UNCHANGED <<caSell, caWrites, caEvents, caBroker, caRaced, caLost>>

(* update: findById. *)
FindSellById(s) ==
  /\ caCalls[s].step = "read"
  /\ IF caSell[caCalls[s].id] = NoDocument THEN Finish(s) ELSE Proceed(s, "write")
  /\ UNCHANGED <<caSell, caWrites, caEvents, caBroker, caRaced, caLost>>

SaveSell(s, d) ==
  /\ caWrites < MaxWrites
  /\ caWrites' = caWrites + 1
  /\ caSell' = [caSell EXCEPT ![d] = caCalls[s].title]
  /\ caCalls' = [caCalls EXCEPT ![s].step = "send", ![s].id = d]
  /\ UNCHANGED <<caEvents, caBroker, caLost>>

InsertSell(s) ==
  /\ caCalls[s].step = "insert"
  /\ Cardinality(Inserted) < MaxDocuments
  /\ SaveSell(s, Cardinality(Inserted) + 1)
  /\ UNCHANGED caRaced

(* Nothing looks whether the new title is taken. *)
UpdateSell(s) ==
  /\ caCalls[s].step = "write"
  /\ SaveSell(s, caCalls[s].id)
  /\ caRaced' = (caRaced \/ \E d \in Inserted : d # caCalls[s].id /\ caSell[d] = caCalls[s].title)

(* sendProductEvent, keyed by the id: what was saved by this call. *)
SendProductEvent(s) ==
  /\ caCalls[s].step = "send"
  /\ caEvents' = Append(caEvents, [id |-> caCalls[s].id, title |-> caCalls[s].title])
  /\ Finish(s)
  /\ UNCHANGED <<caSell, caWrites, caBroker, caRaced, caLost>>

(* Redis fails on the cached copy, the process dies, or the broker does not take it. *)
EventLost(s) ==
  /\ caCalls[s].step = "send"
  /\ Finish(s)
  /\ caLost' = TRUE
  /\ UNCHANGED <<caSell, caWrites, caEvents, caBroker, caRaced>>

(* handleProductEvent, with the failure it swallows.  No status is DELETED. *)
IndexProduct ==
  /\ caPosition < Len(caEvents)
  /\ LET event == caEvents[caPosition + 1] IN
     \/ caIndex' = [caIndex EXCEPT ![event.id] = event.title] /\ UNCHANGED caLost
     \/ UNCHANGED caIndex /\ caLost' = TRUE
  /\ caPosition' = caPosition + 1
  /\ UNCHANGED <<caSell, caCalls, caWrites, caEvents, caCommitted, caRaced>>

(* The offset is committed, or the consumer dies and starts from it again. *)
CommitIndexed ==
  /\ caCommitted # caPosition
  /\ \/ caCommitted' = caPosition /\ UNCHANGED caPosition
     \/ caPosition' = caCommitted /\ UNCHANGED caCommitted
  /\ UNCHANGED <<caSell, caCalls, caWrites, caEvents, caIndex, caRaced, caLost>>

CatalogueNext ==
  \/ \E s \in Sellers :
       \/ \E title \in SaleTitles : PostSell(s, title) \/ \E d \in Documents : PutSell(s, d, title)
       \/ FindByTitleAndManagerId(s) \/ InsertSell(s)
       \/ FindSellById(s) \/ UpdateSell(s)
       \/ SendProductEvent(s) \/ EventLost(s)
  \/ IndexProduct \/ CommitIndexed

CatalogueSpec == CatalogueInit /\ [][CatalogueNext]_caVars

-----------------------------------------------------------------------------
(* Properties *)

CatalogueTypeOK ==
  /\ caSell \in [Documents -> SaleTitles \cup {NoDocument}] /\ caIndex \in [Documents -> SaleTitles \cup {NoDocument}]
  /\ caCalls \in [Sellers -> [step : {"idle", "find", "insert", "read", "write", "send"}, id : 0..MaxDocuments,
                              title : SaleTitles \cup {NoDocument}]]
  /\ caWrites \in 0..MaxWrites
  /\ caEvents \in Seq([id : Documents, title : SaleTitles]) /\ Len(caEvents) <= MaxWrites
  /\ caPosition \in 0..Len(caEvents) /\ caCommitted \in 0..caPosition
  /\ caRaced \in BOOLEAN /\ caLost \in BOOLEAN

(* Two documents of a seller have the same title only if calls overlapped or an     *)
(* update took a title that was taken.  The index has every document with the title *)
(* it has, once all events were handled, however often the consumer died, unless    *)
(* calls overlapped or an event was lost or swallowed; and it has nothing of a      *)
(* document that was not inserted (SellController, ProductEventConsumer).           *)
CatalogueAgrees ==
  /\ ~caRaced => \A c, d \in Inserted : caSell[c] = caSell[d] => c = d
  /\ ~caRaced /\ ~caLost /\ caPosition = Len(caEvents) =>
       \A d \in Documents : caIndex[d] # caSell[d] => \E s \in Sellers : caCalls[s].step = "send" /\ caCalls[s].id = d
  /\ \A d \in Documents : caIndex[d] # NoDocument => d \in Inserted
=============================================================================
