----------------------------- MODULE PointLedger -----------------------------
(***************************************************************************)
(* point-service: the account of ONE member (a row of table point, its     *)
(* rows in point_history and its Redis keys) under concurrent requests.    *)
(* Requests of different members touch different rows and different keys.  *)
(*                                                                         *)
(* earnPoints, usePoints and cancelPoints of PointService lock the row     *)
(* (SELECT ... FOR UPDATE); RedisLockPointFacade.usePoints takes a Redis   *)
(* lock with a lease and reads the row without locking it; getPoint reads  *)
(* and fills a cache.  A transaction buffers its writes until it commits;  *)
(* the commit writes absolute values under the row's @Version.             *)
(***************************************************************************)
EXTENDS Integers

CONSTANTS Clients,      \* request threads, of any number of replicas
          Amounts,      \* the amounts requests carry
          MaxRequests,  \* bound: how many requests are made in a behaviour
          None,         \* no client
          Orphan        \* owner of a Redis lock whose process died

ASSUME AmountsAssumption == Amounts \subseteq Nat \ {0}
ASSUME NoneAssumption == None \notin Clients /\ Orphan \notin Clients
ASSUME BoundAssumption == MaxRequests \in Nat

VARIABLES
  row,        \* the committed row of table point
  booked,     \* the sum of amount over the committed rows of point_history
  credited,   \* the sum of its positive amounts (EARN and CANCEL)
  rowLock,    \* the transaction holding the row's (or new row's) write lock
  redisLock,  \* the owner of the lock point:lock:<userId>
  cache,      \* point:balance:<userId>, None when there is no such key
  request,    \* per client: the request being served
  pc,         \* per client: its next step
  seen,       \* per client: the entity in its persistence context
  answer,     \* per client: the outcome of its request
  started     \* how many requests have been made

vars == <<row, booked, credited, rowLock, redisLock, cache,
          request, pc, seen, answer, started>>

NoRequest == [kind |-> "none", amount |-> 0]
NoAnswer  == [status |-> "none", balance |-> 0]
Done(b)   == [status |-> "ok", balance |-> b]
Refused(why) == [status |-> why, balance |-> 0]

Locking == {"earn", "use", "cancel"}        \* PointService, FOR UPDATE
Writing == Locking \cup {"redisUse"}
Kinds   == Writing \cup {"get"}
Debits  == {"use", "redisUse"}

FirstStep(kind) == CASE kind = "get"      -> "readCache"
                     [] kind = "redisUse" -> "tryLock"
                     [] OTHER             -> "read"

(* Where a request goes when its transaction is over: the facade's finally *)
(* block for the Redis path, back to the controller for the others.        *)
AfterTransaction(kind) == IF kind = "redisUse" THEN "unlock" ELSE "done"

InTransaction(c) == pc[c] \in {"read", "readCache", "readRow", "readRowCached",
                               "insert", "fill", "evict", "commit"}

NewRow == [exists |-> FALSE, available |-> 0, total |-> 0, version |-> 0]

Init ==
  /\ row = NewRow
  /\ booked = 0 /\ credited = 0
  /\ rowLock = None /\ redisLock = None /\ cache = None
  /\ request = [c \in Clients |-> NoRequest]
  /\ pc = [c \in Clients |-> "idle"]
  /\ seen = [c \in Clients |-> NewRow]
  /\ answer = [c \in Clients |-> NoAnswer]
  /\ started = 0

Goto(c, step) == pc' = [pc EXCEPT ![c] = step]

Release(c) == rowLock' = IF rowLock = c THEN None ELSE rowLock

(* The transaction of c ends without effect and its request is answered.   *)
Abandon(c, why) ==
  /\ answer' = [answer EXCEPT ![c] = Refused(why)]
  /\ Goto(c, AfterTransaction(request[c].kind))
  /\ Release(c)
  /\ UNCHANGED <<row, booked, credited, redisLock, cache, request, seen, started>>

-----------------------------------------------------------------------------
(* A controller receives a request. *)
Invoke(c) ==
  /\ pc[c] = "idle"
  /\ started < MaxRequests
  /\ started' = started + 1
  /\ \E k \in Kinds, a \in Amounts :
       /\ request' = [request EXCEPT ![c] = [kind |-> k, amount |-> a]]
       /\ Goto(c, FirstStep(k))
  /\ UNCHANGED <<row, booked, credited, rowLock, redisLock, cache, seen, answer>>

(* What the locked read waits for, and what every deduction asks of the    *)
(* row it read.  The two operators before them are the same code with the  *)
(* lock annotation or the check left out, for mutation.                    *)
NoLockAnnotation == TRUE
NoBalanceCheck(c) == TRUE

RowUnlocked == rowLock = None
Enough(c) == row.available >= request[c].amount

(* findByUserIdForUpdate: waits for the row's lock, then reads the row.    *)
(* No row: earn goes on to insert one, use and cancel answer 404.  The     *)
(* balance check of usePoints is made on what was read.                    *)
SelectForUpdate(c) ==
  /\ pc[c] = "read" /\ request[c].kind \in Locking
  /\ RowUnlocked
  /\ \/ /\ ~row.exists /\ request[c].kind = "earn"
        /\ Goto(c, "insert")
        /\ UNCHANGED <<row, booked, credited, rowLock, redisLock, cache,
                       request, seen, answer, started>>
     \/ /\ ~row.exists /\ request[c].kind # "earn"
        /\ Abandon(c, "notfound")
     \/ /\ row.exists
        /\ request[c].kind = "use" /\ ~Enough(c)
        /\ Abandon(c, "insufficient")
     \/ /\ row.exists
        /\ request[c].kind = "use" => Enough(c)
        /\ rowLock' = c
        /\ seen' = [seen EXCEPT ![c] = row]
        /\ Goto(c, "evict")
        /\ UNCHANGED <<row, booked, credited, redisLock, cache, request, answer, started>>

(* save(newPoint): the INSERT of a zero row, at once (IDENTITY key) but    *)
(* uncommitted.  A committed row with this userId makes it fail, and so    *)
(* may another transaction that has read the gap and wants to insert too.  *)
InsertRow(c) ==
  /\ pc[c] = "insert"
  /\ rowLock = None
  /\ ~row.exists
  /\ rowLock' = c
  /\ seen' = [seen EXCEPT ![c] = NewRow]
  /\ Goto(c, IF request[c].kind = "get" THEN "fill" ELSE "evict")
  /\ UNCHANGED <<row, booked, credited, redisLock, cache, request, answer, started>>

InsertFails(c) ==
  /\ pc[c] = "insert"
  /\ row.exists \/ \E d \in Clients \ {c} : pc[d] = "insert" \/ rowLock = d
  /\ Abandon(c, "error")

(* evictPoint, inside the transaction: the key goes before the commit. *)
Evict(c) ==
  /\ pc[c] = "evict"
  /\ cache' = None
  /\ Goto(c, "commit")
  /\ UNCHANGED <<row, booked, credited, rowLock, redisLock, request, seen, answer, started>>

(* What the transaction makes of the entity it read. *)
NewAvailable(c) == IF request[c].kind \in Debits
                     THEN seen[c].available - request[c].amount
                     ELSE seen[c].available + request[c].amount

NewTotal(c) == IF request[c].kind \in Debits
                 THEN seen[c].total
                 ELSE seen[c].total + request[c].amount

(* WHERE version = v, that Hibernate adds for the @Version field (and the  *)
(* UPDATE without it, for mutation).                                       *)
NoVersionField(c) == TRUE

VersionMatches(c) == row.version = seen[c].version

(* UPDATE point SET ... , version = v + 1 WHERE id = ? AND version = v,    *)
(* with the history row, and COMMIT.  The UPDATE waits for the row's lock. *)
Commit(c) ==
  /\ pc[c] = "commit" /\ request[c].kind \in Writing
  /\ rowLock \in {c, None}
  /\ VersionMatches(c)
  /\ row' = [exists |-> TRUE, available |-> NewAvailable(c),
             total |-> NewTotal(c), version |-> seen[c].version + 1]
  /\ booked' = booked + (IF request[c].kind \in Debits
                           THEN 0 - request[c].amount ELSE request[c].amount)
  /\ credited' = credited + (IF request[c].kind \in Debits
                               THEN 0 ELSE request[c].amount)
  /\ answer' = [answer EXCEPT ![c] = Done(NewAvailable(c))]
  /\ Release(c)
  /\ Goto(c, AfterTransaction(request[c].kind))
  /\ UNCHANGED <<redisLock, cache, request, seen, started>>

(* No row has the version that was read: the optimistic lock fails. *)
VersionConflict(c) ==
  /\ pc[c] = "commit" /\ request[c].kind \in Writing
  /\ rowLock \in {c, None}
  /\ ~VersionMatches(c)
  /\ Abandon(c, "error")

(* InnoDB gives up waiting for a row lock another transaction holds. *)
LockWaitTimeout(c) ==
  /\ pc[c] \in {"read", "insert", "commit"}
  /\ pc[c] = "read" => request[c].kind \in Locking
  /\ rowLock \notin {c, None}
  /\ Abandon(c, "error")

-----------------------------------------------------------------------------
(* getPoint.  The cached balance decides only whether the cache is filled  *)
(* again: what is returned is the row, read in either case.                *)
ReadCache(c) ==
  /\ pc[c] = "readCache"
  /\ Goto(c, IF cache = None THEN "readRow" ELSE "readRowCached")
  /\ UNCHANGED <<row, booked, credited, rowLock, redisLock, cache,
                 request, seen, answer, started>>

CachedBalance(c) == IF pc[c] = "readRowCached" /\ cache # None   \* for mutation
                      THEN cache ELSE row.available

ReturnedBalance(c) == row.available

ReadRow(c) ==
  /\ pc[c] \in {"readRow", "readRowCached"}
  /\ \/ /\ ~row.exists
        /\ Goto(c, "insert")
        /\ UNCHANGED <<seen, answer>>
     \/ /\ row.exists
        /\ seen' = [seen EXCEPT ![c] = row]
        /\ answer' = [answer EXCEPT ![c] = Done(ReturnedBalance(c))]
        /\ Goto(c, IF pc[c] = "readRow" THEN "fill" ELSE "done")
  /\ UNCHANGED <<row, booked, credited, rowLock, redisLock, cache, request, started>>

(* cachePoint with the balance read, whatever has been committed since. *)
FillCache(c) ==
  /\ pc[c] = "fill"
  /\ cache' = seen[c].available
  /\ Goto(c, IF rowLock = c THEN "commit" ELSE "done")
  /\ UNCHANGED <<row, booked, credited, rowLock, redisLock, request, seen, answer, started>>

(* The commit of the zero row a getPoint inserted. *)
CommitNewRow(c) ==
  /\ pc[c] = "commit" /\ request[c].kind = "get"
  /\ row' = [exists |-> TRUE, available |-> 0, total |-> 0, version |-> 0]
  /\ answer' = [answer EXCEPT ![c] = Done(0)]
  /\ Release(c)
  /\ Goto(c, "done")
  /\ UNCHANGED <<booked, credited, redisLock, cache, request, seen, started>>

(* The key's time to live (300 s) is over. *)
CacheExpires ==
  /\ cache # None
  /\ cache' = None
  /\ UNCHANGED <<row, booked, credited, rowLock, redisLock, request, pc, seen, answer, started>>

-----------------------------------------------------------------------------
(* RedisLockPointFacade.usePoints: tryLock(10 s, lease 15 s), then the     *)
(* transaction of RedisLockPointInnerService, then unlock in finally.      *)
TryLock(c) ==
  /\ pc[c] = "tryLock"
  /\ redisLock = None
  /\ redisLock' = c
  /\ Goto(c, "read")
  /\ UNCHANGED <<row, booked, credited, rowLock, cache, request, seen, answer, started>>

WaitForLock(c) == FALSE   \* lock() in place of tryLock(), for mutation

GiveUpLock(c) ==
  /\ pc[c] = "tryLock"
  /\ redisLock # None
  /\ Abandon(c, "conflict")

(* findByUserId: the committed row, without waiting for its lock. *)
PlainRead(c) ==
  /\ pc[c] = "read" /\ request[c].kind = "redisUse"
  /\ \/ ~row.exists /\ Abandon(c, "notfound")
     \/ /\ row.exists /\ ~Enough(c)
        /\ Abandon(c, "insufficient")
     \/ /\ row.exists /\ Enough(c)
        /\ seen' = [seen EXCEPT ![c] = row]
        /\ Goto(c, "evict")
        /\ UNCHANGED <<row, booked, credited, rowLock, redisLock, cache,
                       request, answer, started>>

(* finally: unlock only a lock this thread still holds. *)
Unlock(c) ==
  /\ pc[c] = "unlock"
  /\ redisLock' = IF redisLock = c THEN None ELSE redisLock
  /\ Goto(c, "done")
  /\ UNCHANGED <<row, booked, credited, rowLock, cache, request, seen, answer, started>>

(* The lease ends whatever its holder is doing. *)
LeaseExpires ==
  /\ redisLock # None
  /\ redisLock' = None
  /\ UNCHANGED <<row, booked, credited, rowLock, cache, request, pc, seen, answer, started>>

-----------------------------------------------------------------------------
(* The caller gets its answer. *)
Return(c) ==
  /\ pc[c] = "done"
  /\ request' = [request EXCEPT ![c] = NoRequest]
  /\ answer' = [answer EXCEPT ![c] = NoAnswer]
  /\ seen' = [seen EXCEPT ![c] = NewRow]
  /\ Goto(c, "idle")
  /\ UNCHANGED <<row, booked, credited, rowLock, redisLock, cache, started>>

(* An exception in a transaction: MySQL or Redis fails, a deadlock victim, *)
(* a read-only connection refusing getPoint's INSERT.                      *)
Rollback(c) ==
  /\ InTransaction(c)
  /\ Abandon(c, "error")

(* The process dies, or its answer is lost on the way to the caller.  MySQL *)
(* rolls back; the Redis lock stays until its lease is over.                *)
Crash(c) ==
  /\ pc[c] # "idle"
  /\ answer' = [answer EXCEPT ![c] = IF answer[c].status \in {"none", "ok"}
                                       THEN Refused("error") ELSE answer[c]]
  /\ redisLock' = IF redisLock = c THEN Orphan ELSE redisLock
  /\ Release(c)
  /\ Goto(c, "done")
  /\ UNCHANGED <<row, booked, credited, cache, request, seen, started>>

(* The steps a live process takes when nothing fails. *)
Step(c) ==
  \/ SelectForUpdate(c) \/ InsertRow(c) \/ InsertFails(c)
  \/ Evict(c) \/ Commit(c) \/ VersionConflict(c) \/ LockWaitTimeout(c)
  \/ ReadCache(c) \/ ReadRow(c) \/ FillCache(c) \/ CommitNewRow(c)
  \/ TryLock(c) \/ GiveUpLock(c) \/ PlainRead(c) \/ Unlock(c)
  \/ Return(c)

(* The bound is reached and every request has been answered. *)
AllServed ==
  /\ started = MaxRequests
  /\ \A c \in Clients : pc[c] = "idle"
  /\ UNCHANGED vars

Next ==
  \/ \E c \in Clients : Invoke(c) \/ Step(c) \/ Rollback(c) \/ Crash(c)
  \/ CacheExpires \/ LeaseExpires \/ AllServed

Spec == Init /\ [][Next]_vars

(* A thread that can take a step takes one: nothing else is assumed, not   *)
(* that the Redis lease ends, nor that anything fails.                     *)
Fairness == \A c \in Clients : WF_vars(Step(c))

FairSpec == Spec /\ Fairness

-----------------------------------------------------------------------------
(* Every variable has its type; no balance, committed or about to be, is   *)
(* negative.                                                               *)
Steps == {"idle", "tryLock", "read", "readCache", "readRow", "readRowCached",
          "insert", "fill", "evict", "commit", "unlock", "done"}

Rows == [exists : BOOLEAN, available : Nat, total : Nat, version : Nat]

Statuses == {"none", "ok", "notfound", "insufficient", "conflict", "error"}

Answers == [status : Statuses, balance : Nat]

TypeOK ==
  /\ row \in Rows
  /\ booked \in Int /\ credited \in Int
  /\ rowLock \in Clients \cup {None}
  /\ redisLock \in Clients \cup {None, Orphan}
  /\ cache \in Nat \cup {None}
  /\ request \in [Clients -> [kind : Kinds \cup {"none"}, amount : Amounts \cup {0}]]
  /\ pc \in [Clients -> Steps]
  /\ seen \in [Clients -> Rows]
  /\ answer \in [Clients -> Answers]
  /\ started \in Nat

(* The balance of the row is what its history says, however the locking    *)
(* path, the Redis path, lease expiry and failures interleave: no update   *)
(* is lost and none is applied twice (PointService:58-68, 97-106, 121-130, *)
(* RedisLockPointInnerService:33-40, all of them absolute writes).  The    *)
(* lease (RedisLockPointFacade:27) lets two deductions of the Redis path   *)
(* into their transactions at once: then it is @Version that keeps this.   *)
LedgerBalanced == row.available = booked /\ row.total = credited

(* The points ever spent do not exceed the points ever credited, although  *)
(* the check and the deduction are made on what a transaction read, and    *)
(* two Redis-path deductions can be in a transaction at once.              *)
NoOverdraft == booked >= 0

(* What FOR UPDATE read stays current until its transaction ends, so the   *)
(* @Version kept on the entity never fails a locking request:              *)
(* docs/PAYMENT_TROUBLESHOOTING.md:927 leaves the control to the lock.     *)
LockedReadIsCurrent ==
  \A c \in Clients :
    pc[c] \in {"evict", "commit"} /\ request[c].kind \in Locking
      => /\ rowLock = c
         /\ seen[c] = row

(* Every request is answered: none waits for ever for a row lock, for the  *)
(* Redis lock, or for a lock its lease took from it.                       *)
EveryRequestAnswered == \A c \in Clients : pc[c] # "idle" ~> pc[c] = "idle"

(* The refinement: point-service gives what AtomicPoints promises.  A      *)
(* request takes effect at its commit, or at the read that answers it.     *)
Promise == INSTANCE AtomicPoints WITH
  account <- [exists |-> row.exists, available |-> row.available, total |-> row.total],
  request <- [c \in Clients |-> IF request[c].kind = "redisUse"
                                  THEN [request[c] EXCEPT !.kind = "use"]
                                  ELSE request[c]]

ImplementsPromise == Promise!Spec
=============================================================================
