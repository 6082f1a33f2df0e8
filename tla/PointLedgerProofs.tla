-------------------------- MODULE PointLedgerProofs --------------------------
(***************************************************************************)
(* What PointLedger keeps for every number of clients, every set of        *)
(* positive amounts and every number of requests.                          *)
(*                                                                         *)
(* The balance equals the history because a transaction that commits       *)
(* writes on top of the row it read.  For a locking request that is the    *)
(* row lock's doing, for a Redis-path deduction the version's: a version   *)
(* that has not moved means a row that has not moved (SeenIsPast).         *)
(***************************************************************************)
EXTENDS PointLedger, TLAPS

(* Which request can be at a step, and who can hold the row's lock. *)
KindAtStep ==
  \A c \in Clients :
    /\ pc[c] \in {"readCache", "readRow", "readRowCached", "fill"}
         => request[c].kind = "get"
    /\ pc[c] = "insert" => request[c].kind \in {"get", "earn"}
    /\ pc[c] = "evict" => request[c].kind \in Writing

LockHeldInside ==
  \A c \in Clients : rowLock = c => pc[c] \in {"fill", "evict", "commit"}

(* A getPoint that holds the lock has inserted the row nobody else sees. *)
InsertedUnseen ==
  \A c \in Clients :
    /\ pc[c] = "fill" /\ rowLock = c => ~row.exists
    /\ pc[c] = "commit" /\ request[c].kind = "get" => rowLock = c /\ ~row.exists

NoRowNoPoints == ~row.exists => row = NewRow

(* A Redis-path deduction read a past row; if the version is still the one *)
(* it read, it read the present row.                                       *)
SeenIsPast ==
  \A c \in Clients :
    pc[c] \in {"evict", "commit"} /\ request[c].kind = "redisUse"
      => /\ row.exists
         /\ seen[c].version <= row.version
         /\ seen[c].version = row.version => seen[c] = row

EnoughSeen ==
  \A c \in Clients :
    pc[c] \in {"evict", "commit"} /\ request[c].kind \in Debits
      => seen[c].available >= request[c].amount

Shape == KindAtStep /\ LockHeldInside /\ InsertedUnseen /\ NoRowNoPoints
Reads == LockedReadIsCurrent /\ SeenIsPast /\ EnoughSeen
Books == LedgerBalanced /\ NoOverdraft

IInv == TypeOK /\ Shape /\ Reads /\ Books

-----------------------------------------------------------------------------
(* What a request carries can be added and subtracted. *)
LEMMA AmountsAreNat == \A a \in Amounts \cup {0} : a \in Nat
  BY AmountsAssumption, SMT

LEMMA AmountIsNat ==
  ASSUME TypeOK, NEW c \in Clients
  PROVE  request[c].amount \in Nat
<1>1. request[c].amount \in Amounts \cup {0}
  BY DEF TypeOK
<1> QED
  BY <1>1, AmountsAreNat, Zenon

(* A transaction that ends without effect keeps the types. *)
LEMMA AbandonTypeOK ==
  ASSUME TypeOK, NEW c \in Clients, NEW why \in Statuses, Abandon(c, why)
  PROVE  TypeOK'
  BY DEF Abandon, AfterTransaction, Release, Refused, Goto, TypeOK, Steps,
     Answers, Statuses

(* Every step keeps the types.  That a deduction leaves a natural number is *)
(* what the check made on the row read is for.                             *)
LEMMA TypeOKStep ==
  ASSUME TypeOK, EnoughSeen, [Next]_vars
  PROVE  TypeOK'
<1>0. /\ row.available \in Nat /\ row.total \in Nat
      /\ NewRow \in Rows
      /\ [exists |-> TRUE, available |-> 0, total |-> 0, version |-> 0] \in Rows
      /\ \A b \in Nat : Done(b) \in Answers
      /\ NoAnswer \in Answers /\ Refused("error") \in Answers
  BY DEF TypeOK, Rows, NewRow, Answers, Statuses, Done, NoAnswer, Refused
<1> USE DEF TypeOK, Steps, Kinds, Writing, Locking, NoRequest, Goto, Release
<1>1. ASSUME NEW c \in Clients, Invoke(c) PROVE TypeOK'
  BY <1>0, <1>1 DEF Invoke, FirstStep
<1>2. ASSUME NEW c \in Clients, SelectForUpdate(c) PROVE TypeOK'
  BY <1>0, <1>2, AbandonTypeOK DEF SelectForUpdate, Statuses
<1>3. ASSUME NEW c \in Clients, InsertRow(c) PROVE TypeOK'
  BY <1>0, <1>3 DEF InsertRow
<1>4. ASSUME NEW c \in Clients, InsertFails(c) PROVE TypeOK'
  BY <1>4, AbandonTypeOK DEF InsertFails, Statuses
<1>5. ASSUME NEW c \in Clients, Evict(c) PROVE TypeOK'
  BY <1>0, <1>5 DEF Evict
<1>6. ASSUME NEW c \in Clients, Commit(c) PROVE TypeOK'
  <2>1. /\ seen[c].available \in Nat /\ seen[c].total \in Nat
        /\ seen[c].version + 1 \in Nat
    BY DEF Rows
  <2>2. request[c].amount \in Nat
    BY AmountIsNat
  <2>3. NewAvailable(c) \in Nat /\ NewTotal(c) \in Nat
    BY <1>6, <2>1, <2>2 DEF NewAvailable, NewTotal, EnoughSeen, Commit
  <2>4. row' \in Rows
    BY <1>6, <2>1, <2>3 DEF Commit, Rows
  <2>5. booked' \in Int /\ credited' \in Int
    BY <1>6, <2>2 DEF Commit
  <2> QED
    BY <1>0, <1>6, <2>3, <2>4, <2>5 DEF Commit, AfterTransaction
<1>7. ASSUME NEW c \in Clients, VersionConflict(c) PROVE TypeOK'
  BY <1>7, AbandonTypeOK DEF VersionConflict, Statuses
<1>8. ASSUME NEW c \in Clients, LockWaitTimeout(c) PROVE TypeOK'
  BY <1>8, AbandonTypeOK DEF LockWaitTimeout, Statuses
<1>9. ASSUME NEW c \in Clients, ReadCache(c) PROVE TypeOK'
  BY <1>0, <1>9 DEF ReadCache
<1>10. ASSUME NEW c \in Clients, ReadRow(c) PROVE TypeOK'
  BY <1>0, <1>10 DEF ReadRow, ReturnedBalance
<1>11. ASSUME NEW c \in Clients, FillCache(c) PROVE TypeOK'
  <2>1. seen[c].available \in Nat
    BY DEF Rows
  <2> QED
    BY <1>11, <2>1 DEF FillCache
<1>12. ASSUME NEW c \in Clients, CommitNewRow(c) PROVE TypeOK'
  BY <1>0, <1>12 DEF CommitNewRow
<1>13. ASSUME NEW c \in Clients, TryLock(c) PROVE TypeOK'
  BY <1>0, <1>13 DEF TryLock
<1>14. ASSUME NEW c \in Clients, GiveUpLock(c) PROVE TypeOK'
  BY <1>14, AbandonTypeOK DEF GiveUpLock, Statuses
<1>15. ASSUME NEW c \in Clients, PlainRead(c) PROVE TypeOK'
  BY <1>15, AbandonTypeOK DEF PlainRead, Statuses
<1>16. ASSUME NEW c \in Clients, Unlock(c) PROVE TypeOK'
  BY <1>0, <1>16 DEF Unlock
<1>17. ASSUME NEW c \in Clients, Return(c) PROVE TypeOK'
  BY <1>0, <1>17 DEF Return
<1>18. ASSUME NEW c \in Clients, Rollback(c) PROVE TypeOK'
  BY <1>18, AbandonTypeOK DEF Rollback, Statuses
<1>19. ASSUME NEW c \in Clients, Crash(c) PROVE TypeOK'
  BY <1>0, <1>19 DEF Crash
<1>20. CASE CacheExpires
  BY <1>0, <1>20 DEF CacheExpires
<1>21. CASE LeaseExpires
  BY <1>0, <1>21 DEF LeaseExpires
<1>22. CASE UNCHANGED vars
  BY <1>0, <1>22 DEF vars
<1> QED
  BY <1>1, <1>2, <1>3, <1>4, <1>5, <1>6, <1>7, <1>8, <1>9, <1>10, <1>11, <1>12,
     <1>13, <1>14, <1>15, <1>16, <1>17, <1>18, <1>19, <1>20, <1>21, <1>22 DEF
     Next, Step, AllServed

(* The heart of the argument: what a transaction committing read is the    *)
(* present row, because its lock kept the row or its version says so.      *)
LEMMA CommitsOnPresentRow ==
  ASSUME IInv, NEW c \in Clients, Commit(c)
  PROVE  seen[c] = row
<1>1. CASE request[c].kind \in Locking
  BY <1>1 DEF IInv, Reads, LockedReadIsCurrent, Commit
<1>2. CASE request[c].kind = "redisUse"
  BY <1>2 DEF IInv, Reads, SeenIsPast, Commit, VersionMatches
<1> QED
  BY <1>1, <1>2 DEF Commit, Writing

(* A transaction that ends without effect keeps the inductive invariant. *)
LEMMA AbandonKeeps ==
  ASSUME IInv, NEW c \in Clients, NEW why \in Statuses, Abandon(c, why)
  PROVE  IInv'
<1>1. TypeOK'
  BY AbandonTypeOK DEF IInv
<1>2. Shape'
  BY NoneAssumption DEF IInv, TypeOK, Shape, KindAtStep, LockHeldInside,
     InsertedUnseen, NoRowNoPoints, Abandon, AfterTransaction, Release, Goto
<1>3. Reads'
  BY NoneAssumption DEF IInv, TypeOK, Reads, LockedReadIsCurrent, SeenIsPast,
     EnoughSeen, Abandon, AfterTransaction, Release, Goto
<1>4. Books'
  BY DEF IInv, Books, LedgerBalanced, NoOverdraft, Abandon
<1> QED
  BY <1>1, <1>2, <1>3, <1>4 DEF IInv

(* Every step keeps the inductive invariant. *)
LEMMA IInvStep ==
  ASSUME IInv, [Next]_vars
  PROVE  IInv'
<1>1. TypeOK /\ TypeOK'
  BY TypeOKStep DEF IInv, Reads
<1>2. Shape /\ Reads /\ Books
  BY DEF IInv
<1>3. ASSUME NEW c \in Clients, Invoke(c) PROVE IInv'
  <2>1. Shape'
    BY <1>1, <1>2, <1>3, NoneAssumption DEF TypeOK, Shape, KindAtStep,
       LockHeldInside,
       InsertedUnseen, NoRowNoPoints, Invoke, FirstStep, Goto
  <2>2. Reads'
    BY <1>1, <1>2, <1>3, NoneAssumption DEF TypeOK, Reads, LockedReadIsCurrent,
       SeenIsPast, EnoughSeen,
       Invoke, FirstStep, Goto
  <2>3. Books'
    BY <1>1, <1>2, <1>3 DEF Books, LedgerBalanced, NoOverdraft, Invoke
  <2> QED
    BY <1>1, <2>1, <2>2, <2>3 DEF IInv
<1>4. ASSUME NEW c \in Clients, SelectForUpdate(c) PROVE IInv'
  <2>1. CASE \E why \in Statuses : Abandon(c, why)
    BY <2>1, AbandonKeeps
  <2>2. CASE pc' = [pc EXCEPT ![c] = "insert"] /\ request[c].kind = "earn"
             /\ UNCHANGED <<row, booked, credited, rowLock, request, seen>>
    <3>1. Shape'
      BY <1>1, <1>2, <1>4, <2>2 DEF TypeOK, Shape, KindAtStep, LockHeldInside,
         InsertedUnseen, NoRowNoPoints, SelectForUpdate
    <3>2. Reads' /\ Books'
      BY <1>1, <1>2, <2>2 DEF TypeOK, Reads, LockedReadIsCurrent, SeenIsPast,
         EnoughSeen,
         Books, LedgerBalanced, NoOverdraft
    <3> QED
      BY <1>1, <3>1, <3>2 DEF IInv
  <2>3. CASE /\ row.exists /\ rowLock = None /\ rowLock' = c
             /\ request[c].kind \in Locking
             /\ request[c].kind = "use" => row.available >= request[c].amount
             /\ seen' = [seen EXCEPT ![c] = row]
             /\ pc' = [pc EXCEPT ![c] = "evict"]
             /\ UNCHANGED <<row, booked, credited, request>>
    <3>1. Shape'
      BY <1>1, <1>2, <2>3, NoneAssumption DEF TypeOK, Shape, KindAtStep,
         LockHeldInside,
         InsertedUnseen, NoRowNoPoints, Locking, Writing
    <3>2. Reads'
      BY <1>1, <1>2, <2>3, NoneAssumption DEF TypeOK, Reads,
         LockedReadIsCurrent, SeenIsPast, EnoughSeen,
         Locking, Debits
    <3>3. Books'
      BY <1>2, <2>3 DEF Books, LedgerBalanced, NoOverdraft
    <3> QED
      BY <1>1, <3>1, <3>2, <3>3 DEF IInv
  <2> QED
    BY <1>4, <2>1, <2>2, <2>3 DEF SelectForUpdate, RowUnlocked, Enough, Statuses, Goto
<1>5. ASSUME NEW c \in Clients, InsertRow(c) PROVE IInv'
  <2>1. Shape'
    BY <1>1, <1>2, <1>5, NoneAssumption DEF TypeOK, Shape, KindAtStep,
       LockHeldInside,
       InsertedUnseen, NoRowNoPoints, InsertRow, Goto, Locking, Writing
  <2>2. Reads'
    BY <1>1, <1>2, <1>5, NoneAssumption DEF TypeOK, Reads, LockedReadIsCurrent,
       SeenIsPast, EnoughSeen,
       Shape, NoRowNoPoints, KindAtStep, InsertRow, Goto, Locking, Debits
  <2>3. Books'
    BY <1>1, <1>2, <1>5 DEF Books, LedgerBalanced, NoOverdraft, InsertRow
  <2> QED
    BY <1>1, <2>1, <2>2, <2>3 DEF IInv
<1>6. ASSUME NEW c \in Clients, InsertFails(c) PROVE IInv'
  BY <1>6, AbandonKeeps DEF InsertFails, Statuses
<1>7. ASSUME NEW c \in Clients, Evict(c) PROVE IInv'
  <2>1. Shape'
    BY <1>1, <1>2, <1>7, NoneAssumption DEF TypeOK, Shape, KindAtStep,
       LockHeldInside,
       InsertedUnseen, NoRowNoPoints, Evict, Goto, Writing, Locking
  <2>2. Reads'
    BY <1>1, <1>2, <1>7, NoneAssumption DEF TypeOK, Reads, LockedReadIsCurrent,
       SeenIsPast, EnoughSeen,
       Shape, KindAtStep, LockHeldInside, InsertedUnseen, Evict, Goto
  <2>3. Books'
    BY <1>1, <1>2, <1>7 DEF Books, LedgerBalanced, NoOverdraft, Evict
  <2> QED
    BY <1>1, <2>1, <2>2, <2>3 DEF IInv
<1>8. ASSUME NEW c \in Clients, Commit(c) PROVE IInv'
  <2>1. seen[c] = row
    BY <1>8, CommitsOnPresentRow
  <2>2. Shape'
    BY <1>1, <1>2, <1>8, NoneAssumption DEF TypeOK, Shape, KindAtStep,
       LockHeldInside,
       InsertedUnseen, NoRowNoPoints, Commit, AfterTransaction, Release, Goto
  <2>3. Reads'
    <3>1. row.version \in Nat /\ row'.version = row.version + 1 /\ row'.exists
      BY <1>1, <1>8, <2>1 DEF TypeOK, Rows, Commit
    <3>2. \A d \in Clients : seen[d].version \in Nat
      BY <1>1 DEF TypeOK, Rows
    <3> QED
      BY <1>1, <1>2, <1>8, <3>1, <3>2, NoneAssumption DEF TypeOK, Reads,
         LockedReadIsCurrent, SeenIsPast, EnoughSeen,
         Commit, AfterTransaction, Release, Goto
  <2>4. Books'
    <3>1. row.available \in Int /\ row.total \in Int /\ request[c].amount \in Nat
      BY <1>1, AmountIsNat DEF TypeOK, Rows
    <3>2. LedgerBalanced'
      BY <1>2, <1>8, <2>1, <3>1 DEF Books, LedgerBalanced, Commit, NewAvailable,
         NewTotal
    <3>3. NoOverdraft'
      BY <1>2, <1>8, <2>1, <3>1 DEF Books, LedgerBalanced, NoOverdraft, Reads,
         EnoughSeen, Commit
    <3> QED
      BY <3>2, <3>3 DEF Books
  <2> QED
    BY <1>1, <2>2, <2>3, <2>4 DEF IInv
<1>9. ASSUME NEW c \in Clients, VersionConflict(c) PROVE IInv'
  BY <1>9, AbandonKeeps DEF VersionConflict, Statuses
<1>10. ASSUME NEW c \in Clients, LockWaitTimeout(c) PROVE IInv'
  BY <1>10, AbandonKeeps DEF LockWaitTimeout, Statuses
<1>11. ASSUME NEW c \in Clients, ReadCache(c) PROVE IInv'
  <2>1. Shape'
    BY <1>1, <1>2, <1>11, NoneAssumption DEF TypeOK, Shape, KindAtStep,
       LockHeldInside,
       InsertedUnseen, NoRowNoPoints, ReadCache, Goto
  <2>2. Reads'
    BY <1>1, <1>2, <1>11, NoneAssumption DEF TypeOK, Reads, LockedReadIsCurrent,
       SeenIsPast, EnoughSeen,
       Shape, KindAtStep, LockHeldInside, InsertedUnseen, ReadCache, Goto
  <2>3. Books'
    BY <1>1, <1>2, <1>11 DEF Books, LedgerBalanced, NoOverdraft, ReadCache
  <2> QED
    BY <1>1, <2>1, <2>2, <2>3 DEF IInv
<1>12. ASSUME NEW c \in Clients, ReadRow(c) PROVE IInv'
  <2>1. Shape'
    BY <1>1, <1>2, <1>12, NoneAssumption DEF TypeOK, Shape, KindAtStep,
       LockHeldInside,
       InsertedUnseen, NoRowNoPoints, ReadRow, Goto
  <2>2. Reads'
    BY <1>1, <1>2, <1>12, NoneAssumption DEF TypeOK, Reads, LockedReadIsCurrent,
       SeenIsPast, EnoughSeen,
       Shape, KindAtStep, LockHeldInside, InsertedUnseen, ReadRow, Goto
  <2>3. Books'
    BY <1>1, <1>2, <1>12 DEF Books, LedgerBalanced, NoOverdraft, ReadRow
  <2> QED
    BY <1>1, <2>1, <2>2, <2>3 DEF IInv
<1>13. ASSUME NEW c \in Clients, FillCache(c) PROVE IInv'
  <2>1. Shape'
    BY <1>1, <1>2, <1>13, NoneAssumption DEF TypeOK, Shape, KindAtStep,
       LockHeldInside,
       InsertedUnseen, NoRowNoPoints, FillCache, Goto
  <2>2. Reads'
    BY <1>1, <1>2, <1>13, NoneAssumption DEF TypeOK, Reads, LockedReadIsCurrent,
       SeenIsPast, EnoughSeen,
       Shape, KindAtStep, LockHeldInside, InsertedUnseen, FillCache, Goto,
       Locking, Debits
  <2>3. Books'
    BY <1>1, <1>2, <1>13 DEF Books, LedgerBalanced, NoOverdraft, FillCache
  <2> QED
    BY <1>1, <2>1, <2>2, <2>3 DEF IInv
<1>14. ASSUME NEW c \in Clients, CommitNewRow(c) PROVE IInv'
  <2>1. /\ rowLock = c /\ ~row.exists /\ row = NewRow
        /\ row'.exists /\ row'.available = row.available /\ row'.total = row.total
    BY <1>2, <1>14 DEF Shape, InsertedUnseen, NoRowNoPoints, CommitNewRow, NewRow
  <2>2. Shape'
    BY <1>1, <1>2, <1>14, <2>1, NoneAssumption DEF TypeOK, Shape, KindAtStep,
       LockHeldInside,
       InsertedUnseen, NoRowNoPoints, CommitNewRow, Release, Goto
  <2>3. Reads'
    BY <1>1, <1>2, <1>14, <2>1, NoneAssumption DEF TypeOK, Reads,
       LockedReadIsCurrent, SeenIsPast, EnoughSeen,
       CommitNewRow, Release, Goto
  <2>4. Books'
    BY <1>2, <1>14, <2>1 DEF Books, LedgerBalanced, NoOverdraft, CommitNewRow
  <2> QED
    BY <1>1, <2>2, <2>3, <2>4 DEF IInv
<1>15. ASSUME NEW c \in Clients, TryLock(c) PROVE IInv'
  <2>1. Shape'
    BY <1>1, <1>2, <1>15, NoneAssumption DEF TypeOK, Shape, KindAtStep,
       LockHeldInside,
       InsertedUnseen, NoRowNoPoints, TryLock, Goto
  <2>2. Reads'
    BY <1>1, <1>2, <1>15, NoneAssumption DEF TypeOK, Reads, LockedReadIsCurrent,
       SeenIsPast, EnoughSeen, TryLock, Goto
  <2>3. Books'
    BY <1>1, <1>2, <1>15 DEF Books, LedgerBalanced, NoOverdraft, TryLock
  <2> QED
    BY <1>1, <2>1, <2>2, <2>3 DEF IInv
<1>16. ASSUME NEW c \in Clients, GiveUpLock(c) PROVE IInv'
  BY <1>16, AbandonKeeps DEF GiveUpLock, Statuses
<1>17. ASSUME NEW c \in Clients, PlainRead(c) PROVE IInv'
  <2>1. CASE \E why \in Statuses : Abandon(c, why)
    BY <2>1, AbandonKeeps
  <2>2. CASE /\ row.exists /\ row.available >= request[c].amount
             /\ pc[c] = "read" /\ request[c].kind = "redisUse"
             /\ seen' = [seen EXCEPT ![c] = row]
             /\ pc' = [pc EXCEPT ![c] = "evict"]
             /\ UNCHANGED <<row, booked, credited, rowLock, request>>
    <3>1. Shape'
      BY <1>1, <1>2, <2>2 DEF TypeOK, Shape, KindAtStep, LockHeldInside,
         InsertedUnseen, NoRowNoPoints, Writing
    <3>2. row.version \in Nat
      BY <1>1 DEF TypeOK, Rows
    <3>3. Reads'
      BY <1>1, <1>2, <2>2, <3>2 DEF TypeOK, Reads, LockedReadIsCurrent,
         SeenIsPast, EnoughSeen, Locking
    <3>4. Books'
      BY <1>2, <2>2 DEF Books, LedgerBalanced, NoOverdraft
    <3> QED
      BY <1>1, <3>1, <3>3, <3>4 DEF IInv
  <2> QED
    BY <1>17, <2>1, <2>2 DEF PlainRead, Enough, Statuses, Goto
<1>18. ASSUME NEW c \in Clients, Unlock(c) PROVE IInv'
  <2>1. Shape'
    BY <1>1, <1>2, <1>18, NoneAssumption DEF TypeOK, Shape, KindAtStep,
       LockHeldInside,
       InsertedUnseen, NoRowNoPoints, Unlock, Goto
  <2>2. Reads'
    BY <1>1, <1>2, <1>18, NoneAssumption DEF TypeOK, Reads, LockedReadIsCurrent,
       SeenIsPast, EnoughSeen, Unlock, Goto
  <2>3. Books'
    BY <1>1, <1>2, <1>18 DEF Books, LedgerBalanced, NoOverdraft, Unlock
  <2> QED
    BY <1>1, <2>1, <2>2, <2>3 DEF IInv
<1>19. ASSUME NEW c \in Clients, Return(c) PROVE IInv'
  <2>1. Shape'
    BY <1>1, <1>2, <1>19, NoneAssumption DEF TypeOK, Shape, KindAtStep,
       LockHeldInside,
       InsertedUnseen, NoRowNoPoints, Return, Goto, NoRequest
  <2>2. Reads'
    BY <1>1, <1>2, <1>19, NoneAssumption DEF TypeOK, Reads, LockedReadIsCurrent,
       SeenIsPast, EnoughSeen,
       Shape, KindAtStep, LockHeldInside, InsertedUnseen, Return, Goto
  <2>3. Books'
    BY <1>1, <1>2, <1>19 DEF Books, LedgerBalanced, NoOverdraft, Return
  <2> QED
    BY <1>1, <2>1, <2>2, <2>3 DEF IInv
<1>20. ASSUME NEW c \in Clients, Rollback(c) PROVE IInv'
  BY <1>20, AbandonKeeps DEF Rollback, Statuses
<1>21. ASSUME NEW c \in Clients, Crash(c) PROVE IInv'
  <2>1. Shape'
    BY <1>1, <1>2, <1>21, NoneAssumption DEF TypeOK, Shape, KindAtStep,
       LockHeldInside,
       InsertedUnseen, NoRowNoPoints, Crash, Release, Goto
  <2>2. Reads'
    BY <1>1, <1>2, <1>21, NoneAssumption DEF TypeOK, Reads, LockedReadIsCurrent,
       SeenIsPast, EnoughSeen, Crash, Release, Goto
  <2>3. Books'
    BY <1>1, <1>2, <1>21 DEF Books, LedgerBalanced, NoOverdraft, Crash
  <2> QED
    BY <1>1, <2>1, <2>2, <2>3 DEF IInv
<1>22. CASE CacheExpires
  BY <1>1, <1>2, <1>22 DEF CacheExpires, IInv, Shape, KindAtStep,
     LockHeldInside, InsertedUnseen, NoRowNoPoints,
     Reads, LockedReadIsCurrent, SeenIsPast, EnoughSeen,
     Books, LedgerBalanced, NoOverdraft
<1>23. CASE LeaseExpires
  BY <1>1, <1>2, <1>23 DEF LeaseExpires, IInv, Shape, KindAtStep,
     LockHeldInside, InsertedUnseen, NoRowNoPoints,
     Reads, LockedReadIsCurrent, SeenIsPast, EnoughSeen,
     Books, LedgerBalanced, NoOverdraft
<1>24. CASE UNCHANGED vars
  BY <1>1, <1>2, <1>24 DEF vars, IInv, Shape, KindAtStep, LockHeldInside,
     InsertedUnseen, NoRowNoPoints,
     Reads, LockedReadIsCurrent, SeenIsPast, EnoughSeen,
     Books, LedgerBalanced, NoOverdraft
<1> QED
  BY <1>3, <1>4, <1>5, <1>6, <1>7, <1>8, <1>9, <1>10, <1>11, <1>12, <1>13,
     <1>14, <1>15, <1>16, <1>17, <1>18, <1>19, <1>20, <1>21, <1>22, <1>23, <1>24
     DEF Next, Step, AllServed

-----------------------------------------------------------------------------
LEMMA IInvInit == ASSUME Init PROVE IInv
<1> USE NoneAssumption DEF Init, NewRow, NoRequest, NoAnswer
<1>1. TypeOK
  BY DEF TypeOK, Rows, Steps, Kinds, Writing, Locking, Answers, Statuses
<1>2. Shape
  BY DEF Shape, KindAtStep, LockHeldInside, InsertedUnseen, NoRowNoPoints
<1>3. Reads
  BY DEF Reads, LockedReadIsCurrent, SeenIsPast, EnoughSeen
<1>4. Books
  BY DEF Books, LedgerBalanced, NoOverdraft
<1> QED
  BY <1>1, <1>2, <1>3, <1>4 DEF IInv

(* The inductive invariant, hence each of its conjuncts, in every state. *)
THEOREM Inductive == Spec => []IInv
<1>1. Init => IInv
  BY IInvInit
<1>2. IInv /\ [Next]_vars => IInv'
  BY IInvStep
<1> QED
  BY <1>1, <1>2, PTL DEF Spec

(* Every variable always has its type; in particular no committed balance, *)
(* none a transaction is about to commit, and none cached is negative.     *)
THEOREM TypeCorrect == Spec => []TypeOK
<1>1. IInv => TypeOK
  BY DEF IInv
<1> QED
  BY <1>1, Inductive, PTL

(* No interleaving of the locking requests, the Redis-path deductions,     *)
(* lease expiry, rollbacks and crashes makes the balance of the row differ *)
(* from the sum of its history: no deduction or credit is lost or doubled. *)
THEOREM BalanceIsHistory == Spec => []LedgerBalanced
<1>1. IInv => LedgerBalanced
  BY DEF IInv, Books
<1> QED
  BY <1>1, Inductive, PTL

(* No interleaving of those spends more points than were ever credited. *)
THEOREM NeverOverdrawn == Spec => []NoOverdraft
<1>1. IInv => NoOverdraft
  BY DEF IInv, Books
<1> QED
  BY <1>1, Inductive, PTL

(* The row that earnPoints, usePoints and cancelPoints locked does not     *)
(* change under them, so their commits never fail on the version.          *)
THEOREM LockedReadsStayCurrent == Spec => []LockedReadIsCurrent
<1>1. IInv => LockedReadIsCurrent
  BY DEF IInv, Reads
<1> QED
  BY <1>1, Inductive, PTL
-----------------------------------------------------------------------------
(* The refinement of AtomicPoints.  Where a request stands tells whether it *)
(* has been answered: not before its commit or its read, and always once   *)
(* its transaction is over.  A getPoint is answered by its read, before it *)
(* fills the cache, unless it first inserts the row.                       *)
Unanswered == {"tryLock", "read", "readCache", "readRow", "readRowCached",
               "insert", "evict", "commit"}

AnsweredWhenServed ==
  \A c \in Clients :
    /\ pc[c] = "idle" <=> request[c].kind = "none"
    /\ pc[c] = "idle" => request[c] = NoRequest
    /\ pc[c] \in Unanswered \cup {"idle"} => answer[c] = NoAnswer
    /\ pc[c] = "fill" /\ rowLock = c => answer[c] = NoAnswer
    /\ pc[c] = "fill" /\ rowLock # c => answer[c].status = "ok"
    /\ pc[c] \in {"unlock", "done"} => answer[c].status # "none"

(* Only earnPoints and getPoint go on without a row. *)
RowFound ==
  \A c \in Clients :
    pc[c] \in {"evict", "commit"} /\ request[c].kind \in {"use", "cancel", "redisUse"}
      => seen[c].exists

Served == AnsweredWhenServed /\ RowFound

LEMMA ServedInit == ASSUME Init PROVE Served
  BY DEF Init, Served, AnsweredWhenServed, RowFound, Unanswered, NoRequest, NoAnswer

(* A refusal, whatever the request was doing, answers it. *)
LEMMA AbandonAnswers ==
  ASSUME TypeOK, AnsweredWhenServed, NEW c \in Clients, pc[c] # "idle",
         NEW why \in Statuses \ {"none", "ok"}, Abandon(c, why)
  PROVE  AnsweredWhenServed'
  BY NoneAssumption DEF TypeOK, AnsweredWhenServed, Unanswered, Abandon,
     AfterTransaction, Release, Refused, Goto, Statuses

(* Every step keeps it. *)
LEMMA AnsweredStep ==
  ASSUME IInv, AnsweredWhenServed, [Next]_vars
  PROVE  AnsweredWhenServed'
<1>1. TypeOK /\ LockHeldInside
  BY DEF IInv, Shape
<1> USE NoneAssumption DEF TypeOK, AnsweredWhenServed, Unanswered, Goto,
    NoRequest, NoAnswer
<1>2. ASSUME NEW c \in Clients, NEW why \in Statuses \ {"none", "ok"},
             pc[c] # "idle", Abandon(c, why)
      PROVE  AnsweredWhenServed'
  BY <1>1, <1>2, AbandonAnswers
<1>3. ASSUME NEW c \in Clients, Invoke(c) PROVE AnsweredWhenServed'
  BY <1>1, <1>3 DEF Invoke, FirstStep, Kinds, Writing, Locking
<1>4. ASSUME NEW c \in Clients, SelectForUpdate(c) PROVE AnsweredWhenServed'
  <2>1. CASE \E why \in {"notfound", "insufficient"} : Abandon(c, why)
    BY <1>2, <1>4, <2>1 DEF SelectForUpdate, Statuses
  <2>2. CASE /\ pc' = [pc EXCEPT ![c] = "insert"]
             /\ UNCHANGED <<rowLock, request, answer>>
    BY <1>1, <1>4, <2>2 DEF SelectForUpdate
  <2>3. CASE /\ pc' = [pc EXCEPT ![c] = "evict"]
             /\ rowLock = None /\ rowLock' = c
             /\ UNCHANGED <<request, answer>>
    BY <1>1, <1>4, <2>3 DEF SelectForUpdate
  <2> QED
    BY <1>4, <2>1, <2>2, <2>3 DEF SelectForUpdate, RowUnlocked
<1>5. ASSUME NEW c \in Clients, InsertRow(c) PROVE AnsweredWhenServed'
  BY <1>1, <1>5 DEF InsertRow, LockHeldInside
<1>6. ASSUME NEW c \in Clients, InsertFails(c) PROVE AnsweredWhenServed'
  BY <1>1, <1>2, <1>6 DEF InsertFails, Statuses
<1>7. ASSUME NEW c \in Clients, Evict(c) PROVE AnsweredWhenServed'
  BY <1>1, <1>7 DEF Evict
<1>8. ASSUME NEW c \in Clients, Commit(c) PROVE AnsweredWhenServed'
  BY <1>1, <1>8 DEF Commit, Done, Release, AfterTransaction
<1>9. ASSUME NEW c \in Clients, VersionConflict(c) PROVE AnsweredWhenServed'
  BY <1>1, <1>2, <1>9 DEF VersionConflict, Statuses
<1>10. ASSUME NEW c \in Clients, LockWaitTimeout(c) PROVE AnsweredWhenServed'
  BY <1>1, <1>2, <1>10 DEF LockWaitTimeout, Statuses
<1>11. ASSUME NEW c \in Clients, ReadCache(c) PROVE AnsweredWhenServed'
  BY <1>1, <1>11 DEF ReadCache
<1>12. ASSUME NEW c \in Clients, ReadRow(c) PROVE AnsweredWhenServed'
  BY <1>1, <1>12 DEF ReadRow, Done, LockHeldInside
<1>13. ASSUME NEW c \in Clients, FillCache(c) PROVE AnsweredWhenServed'
  BY <1>1, <1>13 DEF FillCache
<1>14. ASSUME NEW c \in Clients, CommitNewRow(c) PROVE AnsweredWhenServed'
  BY <1>1, <1>14 DEF CommitNewRow, Done, Release
<1>15. ASSUME NEW c \in Clients, TryLock(c) PROVE AnsweredWhenServed'
  BY <1>1, <1>15 DEF TryLock
<1>16. ASSUME NEW c \in Clients, GiveUpLock(c) PROVE AnsweredWhenServed'
  BY <1>1, <1>2, <1>16 DEF GiveUpLock, Statuses
<1>17. ASSUME NEW c \in Clients, PlainRead(c) PROVE AnsweredWhenServed'
  BY <1>1, <1>2, <1>17 DEF PlainRead, Statuses
<1>18. ASSUME NEW c \in Clients, Unlock(c) PROVE AnsweredWhenServed'
  BY <1>1, <1>18 DEF Unlock
<1>19. ASSUME NEW c \in Clients, Return(c) PROVE AnsweredWhenServed'
  BY <1>1, <1>19 DEF Return, LockHeldInside
<1>20. ASSUME NEW c \in Clients, Rollback(c) PROVE AnsweredWhenServed'
  BY <1>1, <1>2, <1>20 DEF Rollback, InTransaction, Statuses
<1>21. ASSUME NEW c \in Clients, Crash(c) PROVE AnsweredWhenServed'
  BY <1>1, <1>21 DEF Crash, Release, Refused
<1>22. CASE CacheExpires
  BY <1>1, <1>22 DEF CacheExpires
<1>23. CASE LeaseExpires
  BY <1>1, <1>23 DEF LeaseExpires
<1>24. CASE UNCHANGED vars
  BY <1>1, <1>24 DEF vars
<1> QED
  BY <1>3, <1>4, <1>5, <1>6, <1>7, <1>8, <1>9, <1>10, <1>11, <1>12, <1>13,
     <1>14, <1>15, <1>16, <1>17, <1>18, <1>19, <1>20, <1>21, <1>22, <1>23, <1>24
     DEF Next, Step, AllServed

LEMMA RowFoundStep ==
  ASSUME IInv, RowFound, [Next]_vars
  PROVE  RowFound'
<1>1. TypeOK /\ KindAtStep
  BY DEF IInv, Shape
<1> USE DEF TypeOK, RowFound, Goto, Abandon, AfterTransaction
<1>2. ASSUME NEW c \in Clients, Invoke(c) PROVE RowFound'
  BY <1>1, <1>2 DEF Invoke, FirstStep
<1>3. ASSUME NEW c \in Clients, SelectForUpdate(c) PROVE RowFound'
  BY <1>1, <1>3 DEF SelectForUpdate
<1>4. ASSUME NEW c \in Clients, InsertRow(c) PROVE RowFound'
  BY <1>1, <1>4 DEF InsertRow, KindAtStep
<1>5. ASSUME NEW c \in Clients, PlainRead(c) PROVE RowFound'
  BY <1>1, <1>5 DEF PlainRead
<1>6. ASSUME NEW c \in Clients, FillCache(c) PROVE RowFound'
  BY <1>1, <1>6 DEF FillCache, KindAtStep
<1>7. ASSUME NEW c \in Clients,
             InsertFails(c) \/ Evict(c) \/ Commit(c) \/ VersionConflict(c)
             \/ LockWaitTimeout(c) \/ ReadCache(c) \/ CommitNewRow(c) \/ TryLock(c)
             \/ GiveUpLock(c) \/ Unlock(c) \/ Rollback(c)
      PROVE  RowFound'
  BY <1>1, <1>7 DEF InsertFails, Evict, Commit, VersionConflict, LockWaitTimeout,
     ReadCache, CommitNewRow, TryLock, GiveUpLock, Unlock, Rollback
<1>8. ASSUME NEW c \in Clients, ReadRow(c) \/ Return(c) \/ Crash(c) PROVE RowFound'
  BY <1>1, <1>8 DEF ReadRow, Return, Crash, KindAtStep
<1>9. CASE CacheExpires \/ LeaseExpires \/ UNCHANGED vars
  BY <1>1, <1>9 DEF CacheExpires, LeaseExpires, vars
<1> QED
  BY <1>2, <1>3, <1>4, <1>5, <1>6, <1>7, <1>8, <1>9 DEF Next, Step, AllServed

(* Steps that change neither the row, nor a request, nor an answer are no   *)
(* steps of AtomicPoints.                                                  *)
LEMMA Stutters ==
  ASSUME UNCHANGED <<row, request, answer>>
  PROVE  UNCHANGED Promise!vars
  BY DEF Promise!vars

(* A request under way here is pending there. *)
LEMMA UnansweredIsPending ==
  ASSUME TypeOK, NEW c \in Clients, request[c].kind # "none", answer[c] = NoAnswer
  PROVE  Promise!Pending(c)
  BY DEF TypeOK, Promise!Pending, Promise!NoRequest, NoAnswer, Promise!NoAnswer

(* A request that is given up refuses it, and says so truthfully. *)
LEMMA AbandonRefuses ==
  ASSUME TypeOK, NEW c \in Clients, request[c].kind # "none",
         answer[c] = NoAnswer,
         NEW why \in Promise!Refusals, Abandon(c, why),
         why = "notfound" => ~row.exists,
         why = "insufficient" => /\ request[c].kind \in Debits
                                 /\ row.available < request[c].amount
  PROVE  Promise!Refuse(c)
<1>1. Promise!Pending(c)
  BY UnansweredIsPending
<1>2. /\ answer' = [answer EXCEPT ![c] = Promise!Refused(why)]
      /\ UNCHANGED <<row, request>>
  BY DEF Abandon, Refused, Promise!Refused
<1> DEFINE asked == IF request[c].kind = "redisUse"
                      THEN [request[c] EXCEPT !.kind = "use"] ELSE request[c]
<1>3. why = "insufficient" => /\ asked.kind = "use"
                              /\ row.available < asked.amount
  BY DEF TypeOK, Debits
<1> QED
  BY <1>1, <1>2, <1>3 DEF Promise!Refuse

(* An answer "ok" that does not arrive becomes the answer "error". *)
LEMMA AbandonLosesAnswer ==
  ASSUME NEW c \in Clients, answer[c].status = "ok", Abandon(c, "error")
  PROVE  Promise!LoseAnswer(c)
  BY DEF Abandon, Promise!LoseAnswer, Promise!Refused, Refused

(* A commit applies its request to the account at that instant. *)
LEMMA CommitApplies ==
  ASSUME IInv, Served, NEW c \in Clients, Commit(c)
  PROVE  Promise!Apply(c)
<1>1. TypeOK /\ seen[c] = row /\ request[c].amount \in Nat
  BY CommitsOnPresentRow, AmountIsNat DEF IInv
<1>2. /\ pc[c] = "commit" /\ request[c].kind \in Writing
      /\ answer[c] = NoAnswer
  BY DEF Commit, Served, AnsweredWhenServed, Unanswered
<1>3. Promise!Pending(c)
  BY <1>1, <1>2, UnansweredIsPending DEF Writing, Locking
<1>4. row.available \in Nat /\ row.total \in Nat /\ row.exists \in BOOLEAN
  BY <1>1 DEF TypeOK, Rows
<1>5. request[c].kind \in {"use", "cancel", "redisUse"} => row.exists
  BY <1>1, <1>2 DEF Served, RowFound
<1>6. request[c].kind \in Debits => row.available >= request[c].amount
  BY <1>1, <1>2 DEF IInv, Reads, EnoughSeen
<1>7. request[c] = [kind |-> request[c].kind, amount |-> request[c].amount]
  BY <1>1 DEF TypeOK
<1>8. answer' = [answer EXCEPT ![c] = Done(row'.available)] /\ request' = request
  BY DEF Commit
<1> DEFINE asked == IF request[c].kind = "redisUse"
                      THEN [request[c] EXCEPT !.kind = "use"] ELSE request[c]
<1>9. /\ asked.amount = request[c].amount
      /\ asked.kind = IF request[c].kind = "redisUse" THEN "use" ELSE request[c].kind
  BY <1>7
<1>10. Promise!Allowed(asked.kind, asked.amount)
  BY <1>2, <1>5, <1>6, <1>9 DEF Promise!Allowed, Writing, Locking, Debits
<1>11. [exists |-> row.exists, available |-> row.available, total |-> row.total]'
         = Promise!Effect(asked.kind, asked.amount)
  <2>1. row' = [exists |-> TRUE, available |-> NewAvailable(c),
                total |-> NewTotal(c), version |-> seen[c].version + 1]
    BY DEF Commit
  <2>2. CASE request[c].kind \in Debits
    <3>1. asked.kind = "use" /\ row.exists = TRUE
      BY <1>4, <1>5, <1>9, <2>2 DEF Debits
    <3>2. /\ NewAvailable(c) = row.available - asked.amount
          /\ NewTotal(c) = row.total
      BY <1>1, <1>9, <2>2 DEF NewAvailable, NewTotal
    <3> HIDE DEF asked
    <3> QED
      BY <2>1, <3>1, <3>2 DEF Promise!Effect
  <2>3. CASE request[c].kind \in {"earn", "cancel"}
    BY <1>1, <1>9, <2>1, <2>3 DEF NewAvailable, NewTotal, Debits, Promise!Effect
  <2> QED
    BY <1>2, <2>2, <2>3 DEF Writing, Locking, Debits
<1> QED
  BY <1>3, <1>8, <1>10, <1>11 DEF Promise!Apply, Promise!Done, Done

(* The first getPoint of a member applies when it commits the zero row. *)
LEMMA CommitNewRowApplies ==
  ASSUME IInv, Served, NEW c \in Clients, CommitNewRow(c)
  PROVE  Promise!Apply(c)
<1>1. /\ TypeOK /\ request[c].kind = "get" /\ answer[c] = NoAnswer
      /\ ~row.exists /\ row = NewRow
  BY DEF IInv, Shape, InsertedUnseen, NoRowNoPoints, CommitNewRow, Served,
     AnsweredWhenServed, Unanswered
<1>2. Promise!Pending(c)
  BY <1>1, UnansweredIsPending
<1> QED
  BY <1>1, <1>2 DEF CommitNewRow, NewRow, Promise!Apply, Promise!Allowed,
     Promise!Effect, Promise!Done, Done

(* Every other getPoint applies when it reads the row, cached or not. *)
LEMMA ReadRowApplies ==
  ASSUME IInv, Served, NEW c \in Clients, ReadRow(c), row.exists
  PROVE  Promise!Apply(c)
<1>1. TypeOK /\ request[c].kind = "get" /\ answer[c] = NoAnswer
  BY DEF IInv, Shape, KindAtStep, ReadRow, Served, AnsweredWhenServed, Unanswered
<1>2. Promise!Pending(c)
  BY <1>1, UnansweredIsPending
<1> QED
  BY <1>1, <1>2 DEF ReadRow, ReturnedBalance, Promise!Apply, Promise!Allowed,
     Promise!Effect, Promise!Done, Done

(* Every step is one of AtomicPoints, or changes nothing it can see. *)
LEMMA StepRefines ==
  ASSUME IInv, Served, [Next]_vars
  PROVE  [Promise!Next]_(Promise!vars)
<1>1. TypeOK /\ AnsweredWhenServed
  BY DEF IInv, Served
<1>2. ASSUME NEW c \in Clients,
             \/ Promise!Invoke(c) \/ Promise!Apply(c) \/ Promise!Refuse(c)
             \/ Promise!LoseAnswer(c) \/ Promise!Return(c)
      PROVE  Promise!Next
  BY <1>2 DEF Promise!Next
<1>3. ASSUME NEW c \in Clients, pc[c] \in Unanswered, NEW why \in Promise!Refusals,
             Abandon(c, why),
             why = "notfound" => ~row.exists,
             why = "insufficient" => /\ request[c].kind \in Debits
                                     /\ row.available < request[c].amount
      PROVE  Promise!Next
  <2>1. request[c].kind # "none" /\ answer[c] = NoAnswer
    BY <1>1, <1>3 DEF AnsweredWhenServed, Unanswered
  <2> QED
    BY <1>1, <1>2, <1>3, <2>1, AbandonRefuses
<1>4. ASSUME NEW c \in Clients, Invoke(c) PROVE Promise!Next
  <2>1. request[c] = NoRequest
    BY <1>1, <1>4 DEF AnsweredWhenServed, Invoke
  <2>2. PICK k \in Kinds, a \in Amounts :
          request' = [request EXCEPT ![c] = [kind |-> k, amount |-> a]]
    BY <1>4 DEF Invoke
  <2> DEFINE asked(r) == IF r.kind = "redisUse" THEN [r EXCEPT !.kind = "use"] ELSE r
             r == [kind |-> k, amount |-> a]
             kk == IF k = "redisUse" THEN "use" ELSE k
  <2>4. asked(r) = [kind |-> kk, amount |-> a] /\ kk \in Promise!Kinds
    BY DEF Kinds, Writing, Locking, Promise!Kinds
  <2>5. asked(request[c]) = Promise!NoRequest
    BY <2>1 DEF NoRequest, Promise!NoRequest
  <2>6. request' = [request EXCEPT ![c] = r] /\ request = [d \in Clients |-> request[d]]
    BY <1>1, <2>2 DEF TypeOK
  <2> HIDE DEF r, kk, asked
  <2>7. [d \in Clients |-> asked(request[d])]'
          = [[d \in Clients |-> asked(request[d])] EXCEPT ![c] = asked(r)]
    BY <2>6
  <2>8. Promise!Invoke(c)
    <3>1. UNCHANGED <<row, answer>>
      BY <1>4 DEF Invoke
    <3>2. [d \in Clients |-> asked(request[d])][c] = Promise!NoRequest
      BY <2>5
    <3>3. \E k1 \in Promise!Kinds, a1 \in Amounts :
            [d \in Clients |-> asked(request[d])]'
              = [[d \in Clients |-> asked(request[d])] EXCEPT ![c] = [kind |-> k1, amount |-> a1]]
      BY <2>4, <2>7
    <3> QED
      BY <3>1, <3>2, <3>3 DEF Promise!Invoke, asked
  <2> QED
    BY <1>2, <2>8
<1>5. ASSUME NEW c \in Clients, SelectForUpdate(c)
      PROVE  Promise!Next \/ UNCHANGED Promise!vars
  <2>1. CASE Abandon(c, "notfound") /\ ~row.exists
    BY <1>3, <1>5, <2>1 DEF SelectForUpdate, Unanswered, Promise!Refusals
  <2>2. CASE Abandon(c, "insufficient") /\ request[c].kind = "use" /\ ~Enough(c)
    <3>1. row.available < request[c].amount
      BY <1>1, <2>2, AmountIsNat DEF Enough, TypeOK, Rows
    <3> QED
      BY <1>3, <1>5, <2>2, <3>1 DEF SelectForUpdate, Unanswered, Promise!Refusals, Debits
  <2>3. CASE UNCHANGED <<row, request, answer>>
    BY <2>3, Stutters
  <2> QED
    BY <1>5, <2>1, <2>2, <2>3 DEF SelectForUpdate
<1>6. ASSUME NEW c \in Clients, PlainRead(c)
      PROVE  Promise!Next \/ UNCHANGED Promise!vars
  <2>1. CASE Abandon(c, "notfound") /\ ~row.exists
    BY <1>3, <1>6, <2>1 DEF PlainRead, Unanswered, Promise!Refusals
  <2>2. CASE Abandon(c, "insufficient") /\ request[c].kind = "redisUse" /\ ~Enough(c)
    <3>1. row.available < request[c].amount
      BY <1>1, <2>2, AmountIsNat DEF Enough, TypeOK, Rows
    <3> QED
      BY <1>3, <1>6, <2>2, <3>1 DEF PlainRead, Unanswered, Promise!Refusals, Debits
  <2>3. CASE UNCHANGED <<row, request, answer>>
    BY <2>3, Stutters
  <2> QED
    BY <1>6, <2>1, <2>2, <2>3 DEF PlainRead
<1>7. ASSUME NEW c \in Clients,
             InsertFails(c) \/ VersionConflict(c) \/ LockWaitTimeout(c) \/ GiveUpLock(c)
      PROVE  Promise!Next
  <2>1. /\ pc[c] \in Unanswered
        /\ Abandon(c, "error") \/ Abandon(c, "conflict")
    BY <1>7 DEF InsertFails, VersionConflict, LockWaitTimeout, GiveUpLock, Unanswered
  <2> QED
    BY <1>3, <2>1 DEF Promise!Refusals
<1>8. ASSUME NEW c \in Clients, Rollback(c) PROVE Promise!Next
  <2>1. Abandon(c, "error")
    BY <1>8 DEF Rollback
  <2>2. CASE answer[c] = NoAnswer
    <3>1. request[c].kind # "none"
      BY <1>1, <1>8 DEF AnsweredWhenServed, Rollback, InTransaction
    <3> QED
      BY <1>1, <1>2, <2>1, <2>2, <3>1, AbandonRefuses DEF Promise!Refusals
  <2>3. CASE answer[c].status = "ok"
    BY <1>2, <2>1, <2>3, AbandonLosesAnswer
  <2> QED
    BY <1>1, <1>8, <2>2, <2>3 DEF AnsweredWhenServed, Unanswered, Rollback, InTransaction
<1>9. ASSUME NEW c \in Clients, Commit(c) \/ CommitNewRow(c) PROVE Promise!Next
  BY <1>2, <1>9, CommitApplies, CommitNewRowApplies
<1>10. ASSUME NEW c \in Clients, ReadRow(c)
       PROVE  Promise!Next \/ UNCHANGED Promise!vars
  <2>1. CASE row.exists
    BY <1>2, <1>10, <2>1, ReadRowApplies
  <2>2. CASE ~row.exists
    BY <1>10, <2>2, Stutters DEF ReadRow
  <2> QED
    BY <2>1, <2>2
<1>11. ASSUME NEW c \in Clients,
              \/ InsertRow(c) \/ Evict(c) \/ ReadCache(c) \/ FillCache(c)
              \/ TryLock(c) \/ Unlock(c)
       PROVE  UNCHANGED Promise!vars
  BY <1>11, Stutters DEF InsertRow, Evict, ReadCache, FillCache, TryLock, Unlock
<1>12. ASSUME NEW c \in Clients, Return(c) PROVE Promise!Next
  <2>1. answer[c] # NoAnswer
    BY <1>1, <1>12 DEF AnsweredWhenServed, Return, NoAnswer
  <2>2. Promise!Return(c)
    BY <1>1, <1>12, <2>1 DEF TypeOK, Return, Promise!Return, Promise!NoAnswer,
       Promise!NoRequest, NoAnswer, NoRequest
  <2> QED
    BY <1>2, <2>2
<1>13. ASSUME NEW c \in Clients, Crash(c)
       PROVE  Promise!Next \/ UNCHANGED Promise!vars
  <2>1. UNCHANGED <<row, request>>
    BY <1>13 DEF Crash
  <2>2. CASE answer[c] = NoAnswer
    <3>1. request[c].kind # "none"
      BY <1>1, <1>13 DEF AnsweredWhenServed, Crash
    <3>2. answer' = [answer EXCEPT ![c] = Refused("error")]
      BY <1>13, <2>2 DEF Crash, NoAnswer
    <3>3. Promise!Refuse(c)
      BY <1>1, <2>1, <2>2, <3>1, <3>2, UnansweredIsPending DEF Promise!Refuse,
         Promise!Refusals, Promise!Refused, Refused
    <3> QED
      BY <1>2, <3>3
  <2>3. CASE answer[c].status = "ok"
    <3>1. Promise!LoseAnswer(c)
      BY <1>13, <2>3 DEF Crash, Promise!LoseAnswer, Promise!Refused, Refused
    <3> QED
      BY <1>2, <3>1
  <2>4. CASE answer[c].status \notin {"none", "ok"}
    <3>1. answer' = answer
      BY <1>1, <1>13, <2>4 DEF Crash, TypeOK
    <3> QED
      BY <2>1, <3>1, Stutters
  <2> QED
    BY <1>1, <1>13, <2>2, <2>3, <2>4 DEF AnsweredWhenServed, Unanswered, Crash, TypeOK, Steps
<1>14. CASE CacheExpires \/ LeaseExpires \/ UNCHANGED vars
  BY <1>14, Stutters DEF CacheExpires, LeaseExpires, vars
<1> QED
  BY <1>4, <1>5, <1>6, <1>7, <1>8, <1>9, <1>10, <1>11, <1>12, <1>13, <1>14
     DEF Next, Step, AllServed

LEMMA InitRefines == ASSUME Init PROVE Promise!Init
  BY DEF Init, NewRow, NoRequest, NoAnswer, Promise!Init, Promise!NoRequest,
     Promise!NoAnswer

(* point-service is an atomic account: whatever its transactions, locks,   *)
(* leases, cache, rollbacks and crashes do between a request and its       *)
(* answer, the request takes effect at one instant or not at all, a        *)
(* refusal is true of the account, and "ok" carries the balance then.      *)
THEOREM Atomic == Spec => ImplementsPromise
<1>1. Init => IInv /\ Served /\ Promise!Init
  BY IInvInit, ServedInit, InitRefines
<1>2. IInv /\ Served /\ [Next]_vars => IInv' /\ Served'
  BY IInvStep, AnsweredStep, RowFoundStep DEF Served
<1>3. IInv /\ Served /\ [Next]_vars => [Promise!Next]_(Promise!vars)
  BY StepRefines
<1> QED
  BY <1>1, <1>2, <1>3, PTL DEF Spec, ImplementsPromise, Promise!Spec
=============================================================================
