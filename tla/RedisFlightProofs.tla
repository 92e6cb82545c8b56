------------------------- MODULE RedisFlightProofs -------------------------
(***************************************************************************)
(* Proofs about RedisFlight, for any number of workers and faults.         *)
(***************************************************************************)
EXTENDS RedisFlight, TLAPS

USE DEF redisVars, storeVars, flowVars

---------------------------------------------------------------------------
(* Types *)

(* The initial states are well typed.                                      *)
LEMMA TypeInit == Init => TypeOK
BY WorkersAssumption DEF Init, TypeOK, Points, NewTicket, Ticket, Issued

(* Acquiring the lock keeps the types of what it sets. *)
LEMMA TakeLockType ==
  ASSUME TypeOK, NEW w \in Workers, NEW how \in {"leader", "takeover"}, TakeLock(w, how)
  PROVE  /\ lock' \in Workers \cup {NoWorker} /\ tenures' \in Nat /\ lapsed' \subseteq Workers
         /\ role' \in [Workers -> {"leader", "takeover"}]
         /\ ticket' \in [Workers -> Ticket]
<1>1. NewTicket(tenures + 1) \in Ticket
  BY DEF TypeOK, NewTicket, Ticket, Issued
<1>2. ticket' \in [Workers -> Ticket]
  BY <1>1 DEF TypeOK, TakeLock, LockFree
<1>3. role' \in [Workers -> {"leader", "takeover"}]
  BY DEF TypeOK, TakeLock, LockFree
<1> QED
  BY <1>2, <1>3 DEF TypeOK, TakeLock, LockFree

(* Storing a row keeps the types of the store. *)
LEMMA StoreType ==
  ASSUME TypeOK, NEW w \in Workers, Store(w)
  PROVE  rows' \subseteq Row /\ shared' \subseteq Workers
<1>1. ticket[w] \in Ticket
  BY DEF TypeOK
<1>2. [gen |-> ticket[w].gen, by |-> w, at |-> ticket[w].at, done |-> clock,
       tenure |-> ticket[w].tenure, issued |-> ticket[w].issued, stored |-> LockOf(w),
       state |-> "live"] \in Row
  BY <1>1 DEF Ticket, Row, LockOf, TypeOK
<1> QED
  BY <1>2 DEF TypeOK, Store

(* Every step of a worker, of the environment included, preserves types. *)
LEMMA TypeStep == TypeOK /\ [Next]_vars => TypeOK'
<1> SUFFICES ASSUME TypeOK, [Next]_vars PROVE TypeOK'
  OBVIOUS
<1> USE WorkersAssumption DEF TypeOK, Points, Holding, Following, Ended, Goto, Fault, NoFault
<1>1. ASSUME NEW w \in Workers, FastPath(w) PROVE TypeOK'
  BY <1>1 DEF FastPath, ReturnRow, Newest, Row
<1>2. ASSUME NEW w \in Workers, Acquire(w) PROVE TypeOK'
  BY <1>2, TakeLockType DEF Acquire
<1>3. ASSUME NEW w \in Workers, AcquireError(w) PROVE TypeOK'
  BY <1>3, TakeLockType DEF AcquireError
<1>4. ASSUME NEW w \in Workers, Recheck(w) PROVE TypeOK'
  BY <1>4 DEF Recheck, ReturnRow, Newest, Row
<1>5. ASSUME NEW w \in Workers, Incr(w) PROVE TypeOK'
  <2>1. ticket[w] \in Ticket
    OBVIOUS
  <2>2. \A i \in Issued : [ticket[w] EXCEPT !.gen = gen + 1, !.issued = i] \in Ticket
    <3>1. [ticket[w] EXCEPT !.gen = gen + 1] \in Ticket
      BY <2>1 DEF Ticket
    <3>2. \A t \in Ticket, i \in Issued : [t EXCEPT !.issued = i] \in Ticket
      BY DEF Ticket
    <3> QED
      BY <3>1, <3>2
  <2>3. ticket' \in [Workers -> Ticket]
    BY <1>5, <2>2 DEF Incr, NextGen, Issued
  <2> QED
    BY <1>5, <2>3 DEF Incr, NextGen
<1>6. ASSUME NEW w \in Workers, IncrError(w) PROVE TypeOK'
  <2>1. [ticket[w] EXCEPT !.gen = 1] \in Ticket
    BY DEF Ticket
  <2>2. ticket' \in [Workers -> Ticket]
    BY <1>6, <2>1 DEF IncrError
  <2> QED
    BY <1>6, <2>2 DEF IncrError
<1>7. ASSUME NEW w \in Workers, Operate(w) PROVE TypeOK'
  BY <1>7 DEF Operate, Unwind
<1>8. ASSUME NEW w \in Workers, Check(w) PROVE TypeOK'
  BY <1>8 DEF Check, Unwind
<1>9. ASSUME NEW w \in Workers, Write(w) PROVE TypeOK'
  <2>1. [ticket[w] EXCEPT !.at = clock + 1] \in Ticket
    BY DEF Ticket
  <2>2. ticket' \in [Workers -> Ticket]
    BY <1>9, <2>1 DEF Write
  <2> QED
    BY <1>9, <2>2 DEF Write
<1>10. ASSUME NEW w \in Workers, Insert(w) PROVE TypeOK'
  BY <1>10, StoreType DEF Insert
<1>11. ASSUME NEW w \in Workers, WriteError(w) PROVE TypeOK'
  <2>1. rows' \subseteq Row /\ shared' \subseteq Workers
    BY <1>11, StoreType DEF WriteError
  <2> QED
    BY <1>11, <2>1 DEF WriteError, Unwind
<1>12. ASSUME NEW w \in Workers, Publish(w) PROVE TypeOK'
  BY <1>12 DEF Publish
<1>13. ASSUME NEW w \in Workers, Release(w) PROVE TypeOK'
  BY <1>13 DEF Release, CompareAndDelete
<1>14. ASSUME NEW w \in Workers, Poll(w) PROVE TypeOK'
  BY <1>14 DEF Poll, ReturnRow, Newest, Row
<1>15. ASSUME NEW w \in Workers, Direct(w) PROVE TypeOK'
  BY <1>15 DEF Direct
<1>16. ASSUME NEW w \in Workers, Look(w) PROVE TypeOK'
  BY <1>16 DEF Look
<1>17. ASSUME NEW w \in Workers, Relook(w) PROVE TypeOK'
  BY <1>17 DEF Relook, ReturnRow, Newest, Row
<1>18. ASSUME NEW w \in Workers, Takeover(w) PROVE TypeOK'
  BY <1>18, TakeLockType DEF Takeover
<1>19. ASSUME NEW w \in Workers, Wait(w) PROVE TypeOK'
  BY <1>19 DEF Wait
<1>20. ASSUME NEW w \in Workers, DeadlinePasses(w) PROVE TypeOK'
  BY <1>20 DEF DeadlinePasses
<1>21. ASSUME NEW w \in Workers, Cancel(w) PROVE TypeOK'
  BY <1>21 DEF Cancel
<1>22. ASSUME NEW w \in Workers, Crash(w) PROVE TypeOK'
  BY <1>22 DEF Crash
<1>23. CASE Expire
  BY <1>23 DEF Expire
<1>24. CASE ForgetRow
  <2>1. \A r \in rows : [r EXCEPT !.state = "expired"] \in Row
    BY DEF Row
  <2> QED
    BY <1>24, <2>1 DEF ForgetRow
<1>25. CASE UNCHANGED vars
  BY <1>25 DEF vars
<1> QED
  BY <1>1, <1>2, <1>3, <1>4, <1>5, <1>6, <1>7, <1>8, <1>9, <1>10, <1>11, <1>12, <1>13,
     <1>14, <1>15, <1>16, <1>17, <1>18, <1>19, <1>20, <1>21, <1>22, <1>23, <1>24, <1>25
  DEF Next, Step, Leader, Follower

(* Every variable keeps its type, whatever fails and whoever interleaves. *)
THEOREM TypeCorrect == Spec => []TypeOK
BY TypeInit, TypeStep, PTL DEF Spec

---------------------------------------------------------------------------
(* Mutual exclusion: HeldUntilLapse is inductive. *)

(* Only three kinds of steps touch the lock: one that takes it while it is *)
(* free, the release of its own owner, and the expiry, which records who   *)
(* lost it.  Every other step leaves lock and lapsed alone and brings no   *)
(* worker into the critical steps.                                         *)
LEMMA HeldStep == TypeOK /\ HeldUntilLapse /\ [Next]_vars => HeldUntilLapse'
<1> SUFFICES ASSUME TypeOK, HeldUntilLapse, [Next]_vars PROVE HeldUntilLapse'
  OBVIOUS
<1> USE WorkersAssumption DEF TypeOK, Holding, Goto
<1> DEFINE Calm(w) == /\ UNCHANGED <<lock, lapsed>>
                      /\ \/ \E p \in Points : Goto(w, p) /\ (p \in Holding => pc[w] \in Holding)
                         \/ UNCHANGED pc
<1>1. ASSUME NEW w \in Workers, Calm(w) PROVE HeldUntilLapse'
  BY <1>1 DEF HeldUntilLapse
<1>2. ASSUME NEW w \in Workers, NEW how \in {"leader", "takeover"}, TakeLock(w, how),
             \E p \in Points : Goto(w, p)
      PROVE  HeldUntilLapse'
  BY <1>2 DEF HeldUntilLapse, TakeLock, LockFree
<1>3. ASSUME NEW w \in Workers, Acquire(w) PROVE HeldUntilLapse'
  <2>1. CASE lock # NoWorker
    BY <1>3, <2>1, <1>1 DEF Acquire, TakeLock, LockFree, Points, Following
  <2>2. CASE lock = NoWorker
    BY <1>3, <2>2, <1>2 DEF Acquire, Points
  <2> QED
    BY <2>1, <2>2
<1>4. ASSUME NEW w \in Workers, AcquireError(w) PROVE HeldUntilLapse'
  <2>1. CASE TakeLock(w, "leader")
    BY <1>4, <2>1, <1>2 DEF AcquireError, Points, Ended
  <2>2. CASE UNCHANGED redisVars
    <3>1. Goto(w, "raised") /\ "raised" \in Points /\ "raised" \notin Holding
      BY <1>4 DEF AcquireError, Points, Ended
    <3>2. Calm(w)
      BY <2>2, <3>1
    <3> QED
      BY <3>2, <1>1
  <2> QED
    BY <1>4, <2>1, <2>2 DEF AcquireError
<1>5. ASSUME NEW w \in Workers, Takeover(w) PROVE HeldUntilLapse'
  BY <1>5, <1>1, <1>2 DEF Takeover, Points, Following
<1>6. ASSUME NEW w \in Workers, Release(w) PROVE HeldUntilLapse'
  <2>1. PICK p \in {"returned", "raised", "wait"} : Goto(w, p)
    BY <1>6 DEF Release
  <2>2. lock' = lock \/ (lock = w /\ lock' = NoWorker)
    BY <1>6 DEF Release, CompareAndDelete
  <2> QED
    BY <1>6, <2>1, <2>2 DEF Release, HeldUntilLapse
<1>7. CASE Expire
  <2>1. CASE pc[lock] \in Holding
    BY <1>7, <2>1 DEF Expire, HeldUntilLapse
  <2>2. CASE pc[lock] \notin Holding
    BY <1>7, <2>2 DEF Expire, HeldUntilLapse
  <2> QED
    BY <2>1, <2>2
<1>8. ASSUME NEW w \in Workers, \/ FastPath(w) \/ Recheck(w) \/ Incr(w) \/ IncrError(w)
                                \/ Operate(w) \/ Check(w) \/ Write(w) \/ Insert(w)
                                \/ WriteError(w) \/ Publish(w)
      PROVE HeldUntilLapse'
  <2> USE DEF Points, Following, Ended, Unwind
  <2>1. CASE FastPath(w)    BY <2>1, <1>1 DEF FastPath
  <2>2. CASE Recheck(w)     BY <2>2, <1>1 DEF Recheck
  <2>3. CASE Incr(w)        BY <2>3, <1>1 DEF Incr, NextGen
  <2>4. CASE IncrError(w)   BY <2>4, <1>1 DEF IncrError
  <2>5. CASE Operate(w)     BY <2>5, <1>1 DEF Operate
  <2>6. CASE Check(w)       BY <2>6, <1>1 DEF Check
  <2>7. CASE Write(w)       BY <2>7, <1>1 DEF Write
  <2>8. CASE Insert(w)      BY <2>8, <1>1 DEF Insert
  <2>9. CASE WriteError(w)  BY <2>9, <1>1 DEF WriteError
  <2>10. CASE Publish(w)    BY <2>10, <1>1 DEF Publish
  <2> QED
    BY <1>8, <2>1, <2>2, <2>3, <2>4, <2>5, <2>6, <2>7, <2>8, <2>9, <2>10
<1>9. ASSUME NEW w \in Workers, \/ Poll(w) \/ Direct(w) \/ Look(w) \/ Relook(w) \/ Wait(w)
                                \/ DeadlinePasses(w) \/ Cancel(w) \/ Crash(w)
      PROVE HeldUntilLapse'
  <2> USE DEF Points, Following, Ended
  <2>1. CASE Poll(w)            BY <2>1, <1>1 DEF Poll
  <2>2. CASE Direct(w)          BY <2>2, <1>1 DEF Direct
  <2>3. CASE Look(w)            BY <2>3, <1>1 DEF Look
  <2>4. CASE Relook(w)          BY <2>4, <1>1 DEF Relook
  <2>5. CASE Wait(w)
    <3>1. Goto(w, "poll") /\ "poll" \in Points /\ "poll" \notin Holding
      BY <2>5 DEF Wait
    <3>2. Calm(w)
      BY <2>5, <3>1 DEF Wait
    <3> QED
      BY <3>2, <1>1
  <2>6. CASE DeadlinePasses(w)  BY <2>6, <1>1 DEF DeadlinePasses
  <2>7. CASE Cancel(w)
    <3>1. CASE Goto(w, "release") /\ pc[w] \in Holding
      BY <2>7, <3>1, <1>1 DEF Cancel
    <3>2. CASE Goto(w, "raised")
      <4>1. "raised" \in Points /\ "raised" \notin Holding
        OBVIOUS
      <4>2. Calm(w)
        BY <2>7, <3>2, <4>1 DEF Cancel
      <4> QED
        BY <4>2, <1>1
    <3>3. CASE pc[w] \in {"operate", "check", "publish"}
      BY <2>7, <3>1, <3>3 DEF Cancel
    <3>4. CASE pc[w] \notin {"operate", "check", "publish"}
      BY <2>7, <3>2, <3>4 DEF Cancel
    <3> QED
      BY <3>3, <3>4
  <2>8. CASE Crash(w)           BY <2>8, <1>1 DEF Crash
  <2> QED
    BY <1>9, <2>1, <2>2, <2>3, <2>4, <2>5, <2>6, <2>7, <2>8
<1>10. CASE ForgetRow
  BY <1>10 DEF ForgetRow, HeldUntilLapse
<1>11. CASE UNCHANGED vars
  BY <1>11 DEF vars, HeldUntilLapse
<1> QED
  BY <1>3, <1>4, <1>5, <1>6, <1>7, <1>8, <1>9, <1>10, <1>11 DEF Next, Step, Leader, Follower

(* A worker between SET NX and its release holds the lock, unless the      *)
(* lock's TTL ran out under it: no release frees the lock of another.      *)
THEOREM MutualExclusion == Spec => []HeldUntilLapse
<1>1. Init => HeldUntilLapse
  BY DEF Init, HeldUntilLapse, Holding
<1> QED
  BY <1>1, TypeCorrect, HeldStep, PTL DEF Spec

---------------------------------------------------------------------------
(* Fencing in a store that compares in one statement and inserts in another. *)

(* What a worker about to insert knows of a row: a newer generation can    *)
(* only have come since its own SELECT, and then one of the two has lost   *)
(* its lock.                                                               *)
Beside(w, r) ==
  /\ ticket[w].gen < r.gen => ticket[w].at <= r.done
  /\ ticket[w].at <= r.done => r.stored = "lapsed" \/ w \in lapsed

(* RowsOrdered is inductive once rows are known to be stored behind the    *)
(* clock, and pending writes to be fenced off from the rows stored.        *)
FencedStore ==
  /\ RowsOrdered
  /\ \A r \in rows : r.at <= r.done /\ r.done <= clock
  /\ \A w \in Workers : pc[w] = "insert" => ticket[w].at <= clock /\ \A r \in rows : Beside(w, r)

(* The same write, whether or not the row has expired since. *)
Copy(r, s) == /\ r.gen = s.gen /\ r.at = s.at /\ r.done = s.done /\ r.stored = s.stored
              /\ r.tenure = s.tenure /\ r.issued = s.issued

(* Steps that add no row and begin no write keep the store fenced.         *)
LEMMA QuietFenced ==
  ASSUME TypeOK, TypeOK', FencedStore, clock' = clock,
         \A r \in rows' : \E s \in rows : Copy(r, s),
         \A w \in Workers : pc'[w] = "insert" =>
           /\ pc[w] = "insert" /\ ticket'[w] = ticket[w] /\ (w \in lapsed => w \in lapsed')
  PROVE  FencedStore'
<1>1. RowsOrdered'
  <2> SUFFICES ASSUME NEW r \in rows', NEW s \in rows', r.at < s.at, s.gen < r.gen
               PROVE  s.at <= r.done /\ "lapsed" \in {r.stored, s.stored}
    BY DEF RowsOrdered
  <2>1. PICK r0 \in rows : Copy(r, r0)
    OBVIOUS
  <2>2. PICK s0 \in rows : Copy(s, s0)
    OBVIOUS
  <2> QED
    BY <2>1, <2>2 DEF Copy, FencedStore, RowsOrdered
<1>2. \A r \in rows' : r.at <= r.done /\ r.done <= clock'
  BY DEF Copy, FencedStore
<1>3. ASSUME NEW w \in Workers, pc'[w] = "insert"
      PROVE  ticket'[w].at <= clock' /\ \A r \in rows' : Beside(w, r)'
  <2>1. ticket[w].at <= clock /\ \A r \in rows : Beside(w, r)
    BY <1>3 DEF FencedStore
  <2> QED
    BY <1>3, <2>1 DEF Beside, Copy
<1> QED
  BY <1>1, <1>2, <1>3 DEF FencedStore

(* The row of a worker that inserts keeps the store fenced: it overlapped  *)
(* with every pending write, and two writers do not both hold the lock.    *)
LEMMA StoreFenced ==
  ASSUME TypeOK, HeldUntilLapse, FencedStore, NEW w \in Workers, pc[w] = "insert", Store(w),
         UNCHANGED <<clock, ticket, lapsed>>, NEW p \in Points \ {"insert"}, Goto(w, p)
  PROVE  FencedStore'
<1> DEFINE new == [gen |-> ticket[w].gen, by |-> w, at |-> ticket[w].at, done |-> clock,
                   tenure |-> ticket[w].tenure, issued |-> ticket[w].issued,
                   stored |-> LockOf(w), state |-> "live"]
<1>1. /\ clock \in Nat /\ \A v \in Workers : ticket[v].gen \in Nat /\ ticket[v].at \in Nat
      /\ \A r \in rows : r.at \in Nat /\ r.done \in Nat /\ r.gen \in Nat
  BY DEF TypeOK, Ticket, Row
<1>2. new.gen = ticket[w].gen /\ new.at = ticket[w].at /\ new.done = clock /\ new.stored = LockOf(w)
  OBVIOUS
<1>3. rows' = rows \cup {new}
  BY DEF Store
<1> HIDE DEF new
<1>4. ticket[w].at <= clock /\ \A r \in rows : Beside(w, r)
  BY DEF FencedStore
<1>5. \A r \in rows : r.at <= r.done /\ r.done <= clock
  BY DEF FencedStore
<1>6. RowsOrdered'
  <2> SUFFICES ASSUME NEW r \in rows', NEW s \in rows', r.at < s.at, s.gen < r.gen
               PROVE  s.at <= r.done /\ "lapsed" \in {r.stored, s.stored}
    BY DEF RowsOrdered
  <2>1. CASE r \in rows /\ s \in rows
    BY <2>1 DEF FencedStore, RowsOrdered
  <2>2. CASE r \in rows /\ s = new
    <3>1. Beside(w, r) /\ ticket[w].gen < r.gen /\ s.at = ticket[w].at
      BY <1>2, <1>4, <2>2
    <3> QED
      BY <1>2, <2>2, <3>1 DEF Beside, LockOf
  <2>3. CASE r = new /\ s \in rows
    <3>1. Beside(w, s) /\ ticket[w].at < s.at /\ r.done = clock /\ s.at <= s.done /\ s.done <= clock
      BY <1>2, <1>4, <1>5, <2>3
    <3>2. s.at <= r.done /\ ticket[w].at <= s.done
      BY <1>1, <2>3, <3>1
    <3> QED
      BY <1>2, <2>3, <3>1, <3>2 DEF Beside, LockOf
  <2>4. CASE r = new /\ s = new
    BY <1>1, <1>2, <2>4
  <2> QED
    BY <1>3, <2>1, <2>2, <2>3, <2>4
<1>7. \A r \in rows' : r.at <= r.done /\ r.done <= clock'
  BY <1>1, <1>2, <1>3, <1>4, <1>5
<1>8. ASSUME NEW v \in Workers, pc'[v] = "insert"
      PROVE  ticket'[v].at <= clock' /\ \A r \in rows' : Beside(v, r)'
  <2>1. v # w /\ pc[v] = "insert"
    BY <1>8 DEF Goto, TypeOK
  <2>2. ticket[v].at <= clock /\ \A r \in rows : Beside(v, r)
    BY <2>1 DEF FencedStore
  <2>3. v \in lapsed \/ LockOf(w) = "lapsed"
    BY <2>1 DEF HeldUntilLapse, Holding, LockOf
  <2>4. Beside(v, new)
    BY <1>1, <1>2, <2>2, <2>3 DEF Beside
  <2> QED
    BY <1>3, <2>2, <2>4 DEF Beside
<1> QED
  BY <1>6, <1>7, <1>8 DEF FencedStore

(* Every step keeps the store fenced.                                      *)
LEMMA FencedStep ==
  TypeOK /\ TypeOK' /\ HeldUntilLapse /\ FencedStore /\ [Next]_vars => FencedStore'
<1> SUFFICES ASSUME TypeOK, TypeOK', HeldUntilLapse, FencedStore, [Next]_vars PROVE FencedStore'
  OBVIOUS
<1> USE DEF Goto
(* A step of w that stores nothing and begins no write.                    *)
<1> DEFINE Aside(w) == /\ UNCHANGED <<rows, clock>>
                       /\ \E p \in Points \ {"insert"} : Goto(w, p)
                       /\ \A v \in Workers \ {w} : ticket'[v] = ticket[v] /\ (v \in lapsed => v \in lapsed')
<1>1. ASSUME NEW w \in Workers, Aside(w) PROVE FencedStore'
  <2>1. \A r \in rows' : \E s \in rows : Copy(r, s)
    BY <1>1 DEF Copy
  <2>2. \A v \in Workers : pc'[v] = "insert" => v # w /\ pc[v] = "insert"
    BY <1>1 DEF TypeOK
  <2> QED
    BY <1>1, <2>1, <2>2, QuietFenced
<1>0. ASSUME NEW w \in Workers, NEW how, TakeLock(w, how)
      PROVE  \A v \in Workers \ {w} : ticket'[v] = ticket[v] /\ (v \in lapsed => v \in lapsed')
  BY <1>0 DEF TakeLock, TypeOK
<1>2. ASSUME UNCHANGED <<clock, ticket, pc>>, lapsed \subseteq lapsed',
             \A r \in rows' : \E s \in rows : Copy(r, s)
      PROVE  FencedStore'
  BY <1>2, QuietFenced
<1>3. ASSUME NEW w \in Workers, Write(w) PROVE FencedStore'
  <2> USE DEF Points, Holding
  <2>1. CASE UNCHANGED <<clock, ticket>> /\ Goto(w, "publish")
    BY <1>3, <1>1, <2>1 DEF Write
  <2>2. UNCHANGED <<rows, lapsed>>
    BY <1>3 DEF Write
  <2>3. clock \in Nat /\ (\A r \in rows : r.done \in Nat /\ r.at \in Nat /\ r.gen \in Nat)
        /\ \A v \in Workers : ticket[v].at \in Nat /\ ticket[v].gen \in Nat
    BY DEF TypeOK, Row, Ticket
  <2>4. CASE clock' = clock + 1 /\ Goto(w, "publish") /\ UNCHANGED ticket
    <3>1. \A v \in Workers : pc'[v] = "insert" => pc[v] = "insert"
      BY <2>4 DEF TypeOK
    <3> QED
      BY <2>2, <2>3, <2>4, <3>1 DEF FencedStore, RowsOrdered, Beside
  <2>5. CASE /\ clock' = clock + 1 /\ Goto(w, "insert") /\ Accepts(ticket[w].gen)
             /\ ticket' = [ticket EXCEPT ![w].at = clock + 1]
    <3>1. /\ ticket'[w].at = clock + 1 /\ ticket'[w].gen = ticket[w].gen
          /\ \A v \in Workers \ {w} : ticket'[v] = ticket[v] /\ pc'[v] = pc[v]
      BY <2>5 DEF TypeOK, Ticket
    <3>2. \A r \in rows : r.gen <= ticket[w].gen /\ r.at <= r.done /\ r.done <= clock
      BY <2>5 DEF Accepts, FencedStore
    <3>3. \A r \in rows' : Beside(w, r)'
      BY <2>2, <2>3, <3>1, <3>2 DEF Beside
    <3>4. ASSUME NEW v \in Workers \ {w}, pc'[v] = "insert"
          PROVE  ticket'[v].at <= clock' /\ \A r \in rows' : Beside(v, r)'
      <4>1. ticket[v].at <= clock /\ \A r \in rows : Beside(v, r)
        BY <3>1, <3>4 DEF FencedStore
      <4> QED
        BY <2>2, <2>3, <2>5, <3>1, <4>1 DEF Beside
    <3>5. RowsOrdered' /\ \A r \in rows' : r.at <= r.done /\ r.done <= clock'
      BY <2>2, <2>3, <2>5, <3>2 DEF RowsOrdered, FencedStore
    <3>6. ticket'[w].at <= clock'
      BY <2>3, <2>5, <3>1
    <3> QED
      BY <3>3, <3>4, <3>5, <3>6 DEF FencedStore
  <2> QED
    BY <1>3, <2>1, <2>4, <2>5 DEF Write
<1>4. ASSUME NEW w \in Workers, WriteError(w) PROVE FencedStore'
  <2>1. Goto(w, "release") /\ "release" \in Points \ {"insert"} /\ UNCHANGED <<clock, ticket, lapsed>>
    BY <1>4 DEF WriteError, Unwind, Points, Holding
  <2>2. CASE UNCHANGED rows
    BY <2>1, <2>2, <1>1
  <2>3. CASE pc[w] = "insert" /\ Store(w)
    BY <2>1, <2>3, StoreFenced
  <2> QED
    BY <1>4, <2>2, <2>3 DEF WriteError
<1>5. ASSUME NEW w \in Workers, Insert(w) PROVE FencedStore'
  BY <1>5, StoreFenced DEF Insert, Points, Holding
<1>6. CASE ForgetRow
  <2>1. UNCHANGED <<clock, ticket, pc, lapsed>>
    BY <1>6 DEF ForgetRow
  <2>2. ASSUME NEW r \in rows' PROVE \E s \in rows : Copy(r, s)
    <3>1. PICK s \in rows : r \in rows \/ r = [s EXCEPT !.state = "expired"]
      BY <1>6 DEF ForgetRow
    <3>2. s \in Row
      BY DEF TypeOK
    <3> QED
      BY <3>1, <3>2 DEF Copy, Row
  <2> QED
    BY <1>2, <2>1, <2>2
<1>7. CASE Expire
  BY <1>2, <1>7 DEF Expire, Copy
<1>8. CASE UNCHANGED vars
  BY <1>2, <1>8 DEF vars, Copy
<1>9. ASSUME NEW w \in Workers, \/ FastPath(w) \/ Acquire(w) \/ AcquireError(w) \/ Recheck(w)
                                \/ Incr(w) \/ IncrError(w) \/ Operate(w) \/ Check(w)
                                \/ Publish(w) \/ Release(w)
      PROVE FencedStore'
  <2> USE DEF Points, Holding, Following, Ended, Unwind
  <2>1. CASE FastPath(w)      BY <2>1, <1>1 DEF FastPath
  <2>2. CASE Acquire(w)       BY <2>2, <1>0, <1>1 DEF Acquire
  <2>3. CASE AcquireError(w)
    <3>1. Goto(w, "raised") /\ UNCHANGED <<rows, clock>>
      BY <2>3 DEF AcquireError
    <3>2. UNCHANGED <<ticket, lapsed>> \/ TakeLock(w, "leader")
      BY <2>3 DEF AcquireError
    <3> QED
      BY <1>0, <1>1, <3>1, <3>2
  <2>4. CASE Recheck(w)       BY <2>4, <1>1 DEF Recheck
  <2>5. CASE Incr(w)
    <3>1. UNCHANGED <<rows, clock, lapsed>> /\ Goto(w, "operate")
          /\ \A v \in Workers \ {w} : ticket'[v] = ticket[v]
      BY <2>5 DEF Incr, TypeOK
    <3> QED
      BY <1>1, <3>1
  <2>6. CASE IncrError(w)
    <3>1. UNCHANGED <<rows, clock, lapsed>> /\ (Goto(w, "operate") \/ Goto(w, "wait"))
          /\ \A v \in Workers \ {w} : ticket'[v] = ticket[v]
      BY <2>6 DEF IncrError, TypeOK
    <3> QED
      BY <1>1, <3>1
  <2>7. CASE Operate(w)       BY <2>7, <1>1 DEF Operate
  <2>8. CASE Check(w)         BY <2>8, <1>1 DEF Check
  <2>9. CASE Publish(w)       BY <2>9, <1>1 DEF Publish
  <2>10. CASE Release(w)
    <3>1. PICK p \in {"returned", "raised", "wait"} : Goto(w, p)
      BY <2>10 DEF Release, TypeOK
    <3> QED
      BY <2>10, <3>1, <1>1 DEF Release
  <2> QED
    BY <1>9, <2>1, <2>2, <2>3, <2>4, <2>5, <2>6, <2>7, <2>8, <2>9, <2>10
<1>10. ASSUME NEW w \in Workers, \/ Poll(w) \/ Direct(w) \/ Look(w) \/ Relook(w) \/ Takeover(w)
                                 \/ Wait(w) \/ DeadlinePasses(w) \/ Cancel(w) \/ Crash(w)
      PROVE FencedStore'
  <2> USE DEF Points, Holding, Following, Ended
  <2>1. CASE Poll(w)            BY <2>1, <1>1 DEF Poll
  <2>2. CASE Direct(w)          BY <2>2, <1>1 DEF Direct
  <2>3. CASE Look(w)            BY <2>3, <1>1 DEF Look
  <2>4. CASE Relook(w)          BY <2>4, <1>1 DEF Relook
  <2>5. CASE Takeover(w)
    <3>1. (Goto(w, "recheck") \/ Goto(w, "wait")) /\ UNCHANGED <<rows, clock>>
      BY <2>5 DEF Takeover
    <3>2. UNCHANGED <<ticket, lapsed>> \/ TakeLock(w, "takeover")
      BY <2>5 DEF Takeover
    <3> QED
      BY <1>0, <1>1, <3>1, <3>2
  <2>6. CASE Wait(w)            BY <2>6, <1>1 DEF Wait
  <2>7. CASE DeadlinePasses(w)  BY <2>7, <1>2 DEF DeadlinePasses, Copy
  <2>8. CASE Cancel(w)          BY <2>8, <1>1 DEF Cancel
  <2>9. CASE Crash(w)           BY <2>9, <1>1 DEF Crash
  <2> QED
    BY <1>10, <2>1, <2>2, <2>3, <2>4, <2>5, <2>6, <2>7, <2>8, <2>9
<1> QED
  BY <1>3, <1>4, <1>5, <1>6, <1>7, <1>8, <1>9, <1>10 DEF Next, Step, Leader, Follower

(* Whatever is delayed, and for however long: the row readers get is of a  *)
(* stale generation only after two overlapping writes, one of them by a    *)
(* worker that had lost its lock.                                          *)
THEOREM FencedWrites == Spec => []RowsOrdered
<1>1. Init => FencedStore
  BY DEF Init, FencedStore, RowsOrdered
<1>2. FencedStore => RowsOrdered
  BY DEF FencedStore
<1> QED
  BY <1>1, <1>2, TypeCorrect, MutualExclusion, FencedStep, PTL DEF Spec

---------------------------------------------------------------------------
(* Tokens *)

Held(t) == t.issued = "held"

(* Two tokens issued under the lock, to earlier and later tenures. *)
Before(x, y) == Held(x) /\ Held(y) /\ x.tenure < y.tenure => x.gen < y.gen

(* No tenure and no token is ahead of the counters; who owns the lock has  *)
(* the last tenure; a token is issued once, at INCR.                       *)
TokensBounded ==
  /\ \A w \in Workers : ticket[w].tenure <= tenures /\ (Held(ticket[w]) => ticket[w].gen <= gen)
  /\ \A r \in rows : r.tenure <= tenures /\ (Held(r) => r.gen <= gen)
  /\ lock # NoWorker => ticket[lock].tenure = tenures
  /\ \A w \in Workers : pc[w] \in {"recheck", "incr"} => ~ Held(ticket[w])

(* Tokens issued under the lock grow with the tenure, those in the store   *)
(* included.                                                               *)
TokensOrdered ==
  /\ \A v, w \in Workers : Before(ticket[v], ticket[w])
  /\ \A r \in rows, w \in Workers : Before(r, ticket[w]) /\ Before(ticket[w], r)

Tokens == TokensBounded /\ TokensOrdered

Same(x, y) == x.gen = y.gen /\ x.tenure = y.tenure /\ x.issued = y.issued

(* Every step keeps the tokens bounded and in the order of the tenures.    *)
LEMMA TokensStep == TypeOK /\ HeldUntilLapse /\ Tokens /\ [Next]_vars => Tokens'
<1> SUFFICES ASSUME TypeOK, HeldUntilLapse, Tokens, [Next]_vars PROVE Tokens'
  OBVIOUS
<1> USE WorkersAssumption DEF TypeOK, Goto
<1>0. /\ \A w \in Workers : ticket[w].gen \in Nat /\ ticket[w].tenure \in Nat
      /\ \A r \in rows : r.gen \in Nat /\ r.tenure \in Nat
  BY DEF Ticket, Row
<1>1. ASSUME lock' \in {lock, NoWorker}, gen' \in {gen, gen + 1}, tenures' = tenures,
             \A w \in Workers : Same(ticket'[w], ticket[w]),
             \A r \in rows' : (\E s \in rows : Same(r, s)) \/ \E w \in Workers : Same(r, ticket[w]),
             \A w \in Workers : pc'[w] \in {"recheck", "incr"} => pc[w] \in {"recheck", "incr"}
      PROVE  Tokens'
  <2> USE DEF Same, Held
  <2>1. TokensBounded'
    <3>1. \A w \in Workers :
            ticket'[w].tenure <= tenures' /\ (Held(ticket'[w]) => ticket'[w].gen <= gen')
      BY <1>0, <1>1 DEF Tokens, TokensBounded
    <3>2. ASSUME NEW r \in rows' PROVE r.tenure <= tenures' /\ (Held(r) => r.gen <= gen')
      <4>1. CASE \E s \in rows : Same(r, s)
        BY <1>0, <1>1, <4>1 DEF Tokens, TokensBounded
      <4>2. CASE \E w \in Workers : Same(r, ticket[w])
        BY <1>0, <1>1, <4>2 DEF Tokens, TokensBounded
      <4> QED
        BY <1>1, <4>1, <4>2
    <3>3. lock' # NoWorker => ticket'[lock'].tenure = tenures'
      BY <1>1 DEF Tokens, TokensBounded
    <3>4. \A w \in Workers : pc'[w] \in {"recheck", "incr"} => ~ Held(ticket'[w])
      BY <1>1 DEF Tokens, TokensBounded
    <3> QED
      BY <3>1, <3>2, <3>3, <3>4 DEF TokensBounded
  <2>2. \A v, w \in Workers : Before(ticket'[v], ticket'[w])
    BY <1>1 DEF Tokens, TokensOrdered, Before
  <2>3. ASSUME NEW r \in rows', NEW w \in Workers
        PROVE  Before(r, ticket'[w]) /\ Before(ticket'[w], r)
    <3>1. CASE \E s \in rows : Same(r, s)
      BY <1>1, <3>1 DEF Tokens, TokensOrdered, Before
    <3>2. CASE \E v \in Workers : Same(r, ticket[v])
      BY <1>1, <3>2 DEF Tokens, TokensOrdered, Before
    <3> QED
      BY <1>1, <3>1, <3>2
  <2> QED
    BY <2>1, <2>2, <2>3 DEF Tokens, TokensOrdered
<1>2. ASSUME NEW w \in Workers, NEW how \in {"leader", "takeover"}, TakeLock(w, how),
             UNCHANGED <<gen, rows>>, \E p \in Points : Goto(w, p)
      PROVE  Tokens'
  <2>1. /\ ticket'[w] = NewTicket(tenures + 1) /\ lock' = w /\ tenures' = tenures + 1
        /\ \A v \in Workers \ {w} : ticket'[v] = ticket[v] /\ pc'[v] = pc[v]
    BY <1>2 DEF TakeLock
  <2>2. ticket'[w].tenure = tenures + 1 /\ ~ Held(ticket'[w])
    BY <2>1 DEF NewTicket, Held
  <2>3. TokensBounded'
    <3>1. \A v \in Workers :
            ticket'[v].tenure <= tenures' /\ (Held(ticket'[v]) => ticket'[v].gen <= gen')
      BY <1>0, <1>2, <2>1, <2>2 DEF Tokens, TokensBounded
    <3>2. \A r \in rows' : r.tenure <= tenures' /\ (Held(r) => r.gen <= gen')
      BY <1>0, <1>2, <2>1 DEF Tokens, TokensBounded
    <3>3. \A v \in Workers : pc'[v] \in {"recheck", "incr"} => ~ Held(ticket'[v])
      BY <2>1, <2>2 DEF Tokens, TokensBounded
    <3> QED
      BY <2>1, <2>2, <3>1, <3>2, <3>3 DEF TokensBounded
  <2>4. TokensOrdered'
    BY <1>2, <2>1, <2>2 DEF Tokens, TokensOrdered, Before
  <2> QED
    BY <2>3, <2>4 DEF Tokens
<1>3. ASSUME NEW w \in Workers, Incr(w) PROVE Tokens'
  <2>1. gen' = gen + 1 /\ UNCHANGED <<lock, tenures, rows>> /\ pc[w] = "incr"
    BY <1>3 DEF Incr, NextGen
  <2>2. /\ \A v \in Workers \ {w} : ticket'[v] = ticket[v] /\ pc'[v] = pc[v]
        /\ pc'[w] = "operate"
    BY <1>3 DEF Incr
  <2>3. /\ ticket'[w].gen = gen + 1 /\ ticket'[w].tenure = ticket[w].tenure
        /\ Held(ticket'[w]) => w \notin lapsed
    BY <1>3 DEF Incr, NextGen, Ticket, Held
  <2>4. Held(ticket'[w]) => ticket'[w].tenure = tenures
    BY <2>1, <2>3 DEF HeldUntilLapse, Holding, Tokens, TokensBounded
  <2>5. TokensBounded'
    <3>1. \A v \in Workers :
            ticket'[v].tenure <= tenures' /\ (Held(ticket'[v]) => ticket'[v].gen <= gen')
      BY <1>0, <2>1, <2>2, <2>3 DEF Tokens, TokensBounded
    <3>2. \A r \in rows' : r.tenure <= tenures' /\ (Held(r) => r.gen <= gen')
      BY <1>0, <2>1 DEF Tokens, TokensBounded
    <3>3. lock' # NoWorker => ticket'[lock'].tenure = tenures'
      BY <2>1, <2>2, <2>3 DEF Tokens, TokensBounded
    <3> QED
      BY <2>2, <3>1, <3>2, <3>3 DEF Tokens, TokensBounded
  <2>6. \A v \in Workers : Before(ticket'[v], ticket'[w]) /\ Before(ticket'[w], ticket'[v])
    BY <1>0, <2>1, <2>2, <2>3, <2>4 DEF Tokens, TokensBounded, Before
  <2>7. \A r \in rows' : Before(r, ticket'[w]) /\ Before(ticket'[w], r)
    BY <1>0, <2>1, <2>3, <2>4 DEF Tokens, TokensBounded, Before
  <2> QED
    BY <2>1, <2>2, <2>5, <2>6, <2>7 DEF Tokens, TokensOrdered
<1>4. ASSUME NEW w \in Workers, IncrError(w) PROVE Tokens'
  <2>1. gen' \in {gen, gen + 1} /\ UNCHANGED <<lock, tenures, rows>> /\ pc[w] = "incr"
    BY <1>4 DEF IncrError
  <2>2. /\ \A v \in Workers \ {w} : ticket'[v] = ticket[v] /\ pc'[v] = pc[v]
        /\ pc'[w] \in {"operate", "wait"}
    BY <1>4 DEF IncrError
  <2>3. ticket'[w].tenure = ticket[w].tenure /\ ~ Held(ticket'[w])
    <3>1. ticket'[w].tenure = ticket[w].tenure /\ ticket'[w].issued = ticket[w].issued
      BY <1>4 DEF IncrError, Ticket
    <3> QED
      BY <2>1, <3>1 DEF Tokens, TokensBounded, Held
  <2>4. TokensBounded'
    <3>1. \A v \in Workers :
            ticket'[v].tenure <= tenures' /\ (Held(ticket'[v]) => ticket'[v].gen <= gen')
      BY <1>0, <2>1, <2>2, <2>3 DEF Tokens, TokensBounded
    <3>2. \A r \in rows' : r.tenure <= tenures' /\ (Held(r) => r.gen <= gen')
      BY <1>0, <2>1 DEF Tokens, TokensBounded
    <3>3. lock' # NoWorker => ticket'[lock'].tenure = tenures'
      BY <2>1, <2>2, <2>3 DEF Tokens, TokensBounded
    <3> QED
      BY <2>2, <3>1, <3>2, <3>3 DEF Tokens, TokensBounded
  <2>5. TokensOrdered'
    BY <2>1, <2>2, <2>3 DEF Tokens, TokensOrdered, Before
  <2> QED
    BY <2>4, <2>5 DEF Tokens
<1>5. ASSUME NEW w \in Workers, UNCHANGED <<tenures, ticket, rows>>,
             lock' \in {lock, NoWorker}, gen' \in {gen, gen + 1},
             \/ \E p \in Points : Goto(w, p) /\ (p \in {"recheck", "incr"} => pc[w] = "recheck")
             \/ UNCHANGED pc
      PROVE  Tokens'
  <2>1. \A v \in Workers : Same(ticket'[v], ticket[v])
    BY <1>5 DEF Same
  <2>2. \A r \in rows' : \E s \in rows : Same(r, s)
    BY <1>5 DEF Same
  <2>3. \A v \in Workers : pc'[v] \in {"recheck", "incr"} => pc[v] \in {"recheck", "incr"}
    BY <1>5
  <2> QED
    BY <1>1, <1>5, <2>1, <2>2, <2>3
<1>6. ASSUME NEW w \in Workers, Store(w), Goto(w, "publish") \/ Goto(w, "release"),
             UNCHANGED <<redisVars, ticket>>
      PROVE  Tokens'
  <2>1. \A v \in Workers : Same(ticket'[v], ticket[v])
    BY <1>6 DEF Same
  <2>2. \A r \in rows' : (\E s \in rows : Same(r, s)) \/ Same(r, ticket[w])
    BY <1>6 DEF Same, Store
  <2>3. \A v \in Workers : pc'[v] \in {"recheck", "incr"} => pc[v] \in {"recheck", "incr"}
    BY <1>6
  <2> QED
    BY <1>1, <1>6, <2>1, <2>2, <2>3
<1>7. ASSUME NEW w \in Workers, Write(w) PROVE Tokens'
  <2>1. CASE UNCHANGED <<rows, ticket>>
    BY <1>5, <1>7, <2>1 DEF Write, Points, Holding
  <2>3. CASE rows' = rows /\ ticket' = [ticket EXCEPT ![w].at = clock + 1] /\ Goto(w, "insert")
    <3>1. \A v \in Workers : Same(ticket'[v], ticket[v])
      BY <2>3 DEF Same, Ticket
    <3>2. \A r \in rows' : \E s \in rows : Same(r, s)
      BY <2>3 DEF Same
    <3>3. \A v \in Workers : pc'[v] \in {"recheck", "incr"} => pc[v] \in {"recheck", "incr"}
      BY <2>3
    <3>4. UNCHANGED redisVars
      BY <1>7 DEF Write
    <3> QED
      BY <1>1, <3>1, <3>2, <3>3, <3>4
  <2> QED
    BY <1>7, <2>1, <2>3 DEF Write
<1>8. ASSUME NEW w \in Workers, Insert(w) PROVE Tokens'
  BY <1>6, <1>8 DEF Insert
<1>9. ASSUME NEW w \in Workers, WriteError(w) PROVE Tokens'
  <2>1. Goto(w, "release") /\ UNCHANGED <<redisVars, ticket>> /\ "release" \in Points
    BY <1>9 DEF WriteError, Unwind, Points, Holding
  <2>2. CASE UNCHANGED rows
    BY <1>5, <2>1, <2>2
  <2>3. CASE rows' # rows
    BY <1>6, <1>9, <2>1, <2>3 DEF WriteError
  <2> QED
    BY <2>2, <2>3
<1>10. CASE ForgetRow
  <2>1. UNCHANGED <<redisVars, ticket, pc>>
    BY <1>10 DEF ForgetRow
  <2>2. ASSUME NEW r \in rows' PROVE \E s \in rows : Same(r, s)
    <3>1. PICK s \in rows : r \in rows \/ r = [s EXCEPT !.state = "expired"]
      BY <1>10 DEF ForgetRow
    <3>2. CASE r \in rows
      BY <3>2 DEF Same
    <3>3. CASE r = [s EXCEPT !.state = "expired"]
      BY <3>3 DEF Same, Row
    <3> QED
      BY <3>1, <3>2, <3>3
  <2>3. \A v \in Workers : Same(ticket'[v], ticket[v])
    BY <2>1 DEF Same
  <2> QED
    BY <1>1, <2>1, <2>2, <2>3
<1>11. CASE Expire
  <2>1. UNCHANGED <<gen, tenures, rows, ticket, pc>> /\ lock' = NoWorker /\ lock \in Workers
    BY <1>11 DEF Expire
  <2> QED
    BY <1>5, <2>1
<1>12. CASE UNCHANGED vars
  <2>1. \A v \in Workers : Same(ticket'[v], ticket[v])
    BY <1>12 DEF vars, Same
  <2>2. \A r \in rows' : \E s \in rows : Same(r, s)
    BY <1>12 DEF vars, Same
  <2> QED
    BY <1>1, <1>12, <2>1, <2>2 DEF vars
<1>13. ASSUME NEW w \in Workers, Acquire(w) \/ AcquireError(w) \/ Takeover(w) PROVE Tokens'
  <2>1. PICK p \in Points : Goto(w, p) /\ (p \in {"recheck", "incr"} => lock' = w)
    BY <1>13 DEF Acquire, AcquireError, Takeover, TakeLock, Points, Holding, Following, Ended
  <2>2. UNCHANGED <<gen, rows>>
    BY <1>13 DEF Acquire, AcquireError, Takeover
  <2>3. CASE UNCHANGED <<redisVars, ticket>> /\ p \notin {"recheck", "incr"}
    BY <1>5, <2>1, <2>2, <2>3
  <2>4. CASE \E how \in {"leader", "takeover"} : TakeLock(w, how)
    BY <1>2, <2>1, <2>2, <2>4
  <2>5. \/ \E how \in {"leader", "takeover"} : TakeLock(w, how)
        \/ UNCHANGED <<redisVars, ticket>> /\ (Goto(w, "poll") \/ Goto(w, "raised") \/ Goto(w, "wait"))
    BY <1>13 DEF Acquire, AcquireError, Takeover
  <2> QED
    BY <2>1, <2>3, <2>4, <2>5
<1>14. ASSUME NEW w \in Workers, \/ FastPath(w) \/ Recheck(w) \/ Operate(w) \/ Check(w)
                                 \/ Publish(w) \/ Release(w)
       PROVE  Tokens'
  <2> USE DEF Points, Holding, Following, Ended, Unwind
  <2>1. CASE FastPath(w)  BY <2>1, <1>5 DEF FastPath
  <2>2. CASE Recheck(w)   BY <2>2, <1>5 DEF Recheck
  <2>3. CASE Operate(w)   BY <2>3, <1>5 DEF Operate
  <2>4. CASE Check(w)     BY <2>4, <1>5 DEF Check
  <2>5. CASE Publish(w)
    <3>1. Goto(w, "release") /\ UNCHANGED <<redisVars, ticket, rows>>
      BY <2>5 DEF Publish
    <3>2. \E p \in Points : Goto(w, p) /\ (p \in {"recheck", "incr"} => pc[w] = "recheck")
      BY <3>1
    <3>3. lock' \in {lock, NoWorker} /\ gen' \in {gen, gen + 1} /\ UNCHANGED <<tenures, ticket, rows>>
      BY <3>1
    <3> QED
      BY <3>2, <3>3, <1>5
  <2>6. CASE Release(w)
    <3>1. PICK p \in {"returned", "raised", "wait"} : Goto(w, p)
      BY <2>6 DEF Release
    <3> QED
      BY <2>6, <3>1, <1>5 DEF Release, CompareAndDelete
  <2> QED
    BY <1>14, <2>1, <2>2, <2>3, <2>4, <2>5, <2>6
<1>15. ASSUME NEW w \in Workers, \/ Poll(w) \/ Direct(w) \/ Look(w) \/ Relook(w) \/ Wait(w)
                                 \/ DeadlinePasses(w) \/ Cancel(w) \/ Crash(w)
       PROVE  Tokens'
  <2> USE DEF Points, Holding, Following, Ended
  <2>1. CASE Poll(w)            BY <2>1, <1>5 DEF Poll
  <2>2. CASE Direct(w)          BY <2>2, <1>5 DEF Direct
  <2>3. CASE Look(w)            BY <2>3, <1>5 DEF Look
  <2>4. CASE Relook(w)          BY <2>4, <1>5 DEF Relook
  <2>5. CASE Wait(w)
    <3>1. Goto(w, "poll") /\ UNCHANGED <<redisVars, ticket, rows>>
      BY <2>5 DEF Wait
    <3>2. \E p \in Points : Goto(w, p) /\ (p \in {"recheck", "incr"} => pc[w] = "recheck")
      BY <3>1
    <3>3. lock' \in {lock, NoWorker} /\ gen' \in {gen, gen + 1} /\ UNCHANGED <<tenures, ticket, rows>>
      BY <3>1
    <3> QED
      BY <3>2, <3>3, <1>5
  <2>6. CASE DeadlinePasses(w)  BY <2>6, <1>5 DEF DeadlinePasses
  <2>7. CASE Cancel(w)
    <3>1. gen' \in {gen, gen + 1} /\ UNCHANGED <<lock, tenures, ticket, rows>>
      BY <2>7 DEF Cancel
    <3>2. \E p \in {"release", "raised"} : Goto(w, p)
      BY <2>7 DEF Cancel
    <3> QED
      BY <1>5, <3>1, <3>2
  <2>8. CASE Crash(w)           BY <2>8, <1>5 DEF Crash
  <2> QED
    BY <1>15, <2>1, <2>2, <2>3, <2>4, <2>5, <2>6, <2>7, <2>8
<1> QED
  BY <1>3, <1>4, <1>7, <1>8, <1>9, <1>10, <1>11, <1>12, <1>13, <1>14, <1>15
  DEF Next, Step, Leader, Follower

(* So they are in every reachable state.                                   *)
LEMMA AlwaysTokens == Spec => []Tokens
<1>1. Init => Tokens
  <2> SUFFICES ASSUME Init PROVE Tokens
    OBVIOUS
  <2>1. /\ \A w \in Workers : ticket[w] = NewTicket(0)
        /\ rows = {} /\ tenures = 0 /\ lock = NoWorker /\ pc = [w \in Workers |-> "fast"]
    BY DEF Init
  <2>2. NewTicket(0).tenure = 0 /\ ~ Held(NewTicket(0))
    BY DEF NewTicket, Held
  <2> QED
    BY <2>1, <2>2 DEF Tokens, TokensBounded, TokensOrdered, Before
<1> QED
  BY <1>1, TypeCorrect, MutualExclusion, TokensStep, PTL DEF Spec

(* The row of a timely token is not of an earlier tenure than the timely   *)
(* rows stored before its write began: the tokens of later tenures are     *)
(* higher, and the SELECT of store.add would have rejected it.             *)
LEMMA StoreTimely ==
  ASSUME TypeOK, FencedStore, Tokens, TimelyFencing, NEW w \in Workers,
         pc[w] = "insert", Store(w)
  PROVE  TimelyFencing'
<1> DEFINE new == [gen |-> ticket[w].gen, by |-> w, at |-> ticket[w].at, done |-> clock,
                   tenure |-> ticket[w].tenure, issued |-> ticket[w].issued,
                   stored |-> LockOf(w), state |-> "live"]
<1>1. /\ clock \in Nat /\ ticket[w].gen \in Nat /\ ticket[w].tenure \in Nat /\ ticket[w].at \in Nat
      /\ \A r \in rows : r.at \in Nat /\ r.done \in Nat /\ r.gen \in Nat /\ r.tenure \in Nat
  BY DEF TypeOK, Ticket, Row
<1>2. new.gen = ticket[w].gen /\ new.at = ticket[w].at /\ new.tenure = ticket[w].tenure
      /\ new.issued = ticket[w].issued /\ new.done = clock
  OBVIOUS
<1>3. rows' = rows \cup {new}
  BY DEF Store
<1> HIDE DEF new
<1>4. ticket[w].at <= clock /\ (\A r \in rows : Beside(w, r)) /\ \A r \in rows : r.at <= r.done /\ r.done <= clock
  BY DEF FencedStore
<1>5. \A r \in rows : Before(ticket[w], r)
  BY DEF Tokens, TokensOrdered
<1> SUFFICES ASSUME NEW r \in rows', NEW s \in rows', r.issued = "held", s.issued = "held",
                    r.done < s.at
             PROVE  r.tenure <= s.tenure
  BY DEF TimelyFencing
<1>6. CASE r \in rows /\ s \in rows
  BY <1>6 DEF TimelyFencing
<1>7. CASE r \in rows /\ s = new
  <2>1. ~ (ticket[w].gen < r.gen)
    BY <1>1, <1>2, <1>4, <1>7 DEF Beside
  <2>2. Held(ticket[w]) /\ Held(r)
    BY <1>2, <1>7 DEF Held
  <2>3. ~ (ticket[w].tenure < r.tenure)
    BY <1>5, <1>7, <2>1, <2>2 DEF Before
  <2> QED
    BY <1>1, <1>2, <1>7, <2>3
<1>8. CASE r = new
  <2>1. s.at <= clock
    BY <1>1, <1>2, <1>3, <1>4
  <2> QED
    BY <1>1, <1>2, <1>3, <1>8, <2>1
<1> QED
  BY <1>3, <1>6, <1>7, <1>8

(* The only steps that add rows are inserts, failing ones included.        *)
LEMMA RowsStep ==
  ASSUME TypeOK, Next
  PROVE  \/ \A r \in rows' : \E s \in rows : Copy(r, s)
         \/ \E w \in Workers : pc[w] = "insert" /\ Store(w)
<1>1. CASE ForgetRow
  <2> SUFFICES ASSUME NEW r \in rows' PROVE \E s \in rows : Copy(r, s)
    OBVIOUS
  <2>1. PICK s \in rows : r \in rows \/ r = [s EXCEPT !.state = "expired"]
    BY <1>1 DEF ForgetRow
  <2>2. s \in Row
    BY DEF TypeOK
  <2> QED
    BY <2>1, <2>2 DEF Copy, Row
<1>2. ASSUME rows' = rows PROVE \A r \in rows' : \E s \in rows : Copy(r, s)
  BY <1>2 DEF Copy
<1>3. ASSUME NEW w \in Workers, \/ FastPath(w) \/ Acquire(w) \/ AcquireError(w) \/ Recheck(w)
                                \/ Incr(w) \/ IncrError(w) \/ Operate(w) \/ Check(w)
                                \/ Write(w) \/ Publish(w) \/ Release(w)
      PROVE rows' = rows
  BY <1>3 DEF FastPath, Acquire, AcquireError, Recheck, Incr, IncrError, Operate, Check,
              Write, Publish, Release
<1>4. ASSUME NEW w \in Workers, \/ Follower(w) \/ DeadlinePasses(w) \/ Cancel(w) \/ Crash(w)
      PROVE rows' = rows
  BY <1>4 DEF Follower, Poll, Direct, Look, Relook, Takeover, Wait, DeadlinePasses, Cancel, Crash
<1>5. CASE Expire
  BY <1>2, <1>5 DEF Expire
<1>6. ASSUME NEW w \in Workers, Insert(w) \/ WriteError(w)
      PROVE  rows' = rows \/ (pc[w] = "insert" /\ Store(w))
  BY <1>6 DEF Insert, WriteError
<1> QED
  BY <1>1, <1>2, <1>3, <1>4, <1>5, <1>6 DEF Next, Step, Leader

(* Every step keeps the rows of timely tokens in the order of tenures.     *)
LEMMA TimelyStep ==
  TypeOK /\ FencedStore /\ Tokens /\ TimelyFencing /\ [Next]_vars => TimelyFencing'
<1> SUFFICES ASSUME TypeOK, FencedStore, Tokens, TimelyFencing, [Next]_vars
             PROVE  TimelyFencing'
  OBVIOUS
<1>1. ASSUME \A r \in rows' : \E s \in rows : Copy(r, s) PROVE TimelyFencing'
  BY <1>1 DEF TimelyFencing, Copy
<1>2. CASE UNCHANGED vars
  BY <1>2 DEF vars, TimelyFencing
<1> QED
  BY <1>1, <1>2, RowsStep, StoreTimely

(* A token issued while its worker held the lock does its job: among the   *)
(* rows of such workers, no write that begins once a row of a later tenure *)
(* is stored adds one of an earlier tenure, whoever is delayed.            *)
THEOREM TimelyWrites == Spec => []TimelyFencing
<1>1. Init => FencedStore /\ TimelyFencing
  BY DEF Init, FencedStore, RowsOrdered, TimelyFencing
<1> QED
  BY <1>1, TypeCorrect, MutualExclusion, AlwaysTokens, FencedStep, TimelyStep, PTL DEF Spec
============================================================================
