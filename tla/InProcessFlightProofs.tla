----------------------- MODULE InProcessFlightProofs -----------------------
(***************************************************************************)
(* Proofs about InProcessFlight, for any number of calls, failures and     *)
(* restarts.                                                               *)
(***************************************************************************)
EXTENDS InProcessFlight, TLAPS

USE DEF storeVars

---------------------------------------------------------------------------
(* Types *)

(* Storing the entry of c keeps the types of the store. *)
LEMMA StoreType ==
  ASSUME TypeOK, NEW c \in Callers, Store(c)
  PROVE  rows' \subseteq Row /\ clock' \in Nat
<1>1. NewRow(c) \in Row
  BY DEF TypeOK, NewRow, Row
<1> QED
  BY <1>1 DEF TypeOK, Store

(* Every step preserves the types. *)
LEMMA TypeStep == TypeOK /\ [Next]_vars => TypeOK'
<1> SUFFICES ASSUME TypeOK, [Next]_vars PROVE TypeOK'
  OBVIOUS
<1> USE CallersAssumption DEF TypeOK, Points, Ended, Goto, Fault, NoFault, Resolve
<1>1. ASSUME NEW c \in Callers, Call(c) PROVE TypeOK'
  BY <1>1 DEF Call, Flying
<1>2. ASSUME NEW c \in Callers, Succeed(c) PROVE TypeOK'
  <2>1. rows' \subseteq Row /\ clock' \in Nat
    BY <1>2, StoreType DEF Succeed
  <2> QED
    BY <1>2, <2>1 DEF Succeed
<1>3. ASSUME NEW c \in Callers, Fail(c) PROVE TypeOK'
  <2>1. rows' \subseteq Row /\ clock' \in Nat
    BY <1>3, StoreType DEF Fail
  <2> QED
    BY <1>3, <2>1 DEF Fail
<1>4. ASSUME NEW c \in Callers, Wake(c) PROVE TypeOK'
  <2>1. \A r \in Newest : r.by \in Callers
    BY DEF Newest, Row
  <2> QED
    BY <1>4, <2>1 DEF Wake
<1>5. ASSUME NEW c \in Callers, Direct(c) PROVE TypeOK'
  BY <1>5 DEF Direct
<1>6. ASSUME NEW c \in Callers, Cancel(c) PROVE TypeOK'
  BY <1>6 DEF Cancel
<1>7. CASE Restart
  BY <1>7 DEF Restart
<1>8. CASE ForgetRow
  <2>1. \A r \in rows : [r EXCEPT !.state = "expired"] \in Row
    BY DEF Row
  <2> QED
    BY <1>8, <2>1 DEF ForgetRow
<1>9. CASE UNCHANGED vars
  BY <1>9 DEF vars
<1> QED
  BY <1>1, <1>2, <1>3, <1>4, <1>5, <1>6, <1>7, <1>8, <1>9 DEF Next, Step

(* Every variable keeps its type, whatever fails. *)
THEOREM TypeCorrect == Spec => []TypeOK
<1>1. Init => TypeOK
  BY MaxFaultsAssumption DEF Init, TypeOK, Points
<1> QED
  BY <1>1, TypeStep, PTL DEF Spec

---------------------------------------------------------------------------
(* One leader and no orphan: _inflight tells the truth. *)

(* The call in _inflight is the one running the flight's operation, and    *)
(* its future is open; a follower's future is resolved or in _inflight.    *)
Registered ==
  /\ \A c \in Callers : pc[c] = "operate" <=> inflight = c
  /\ \A c \in Callers : pc[c] \in {"new", "operate"} => future[c] = "pending"
  /\ \A c \in Callers : pc[c] = "await" =>
       /\ leaderOf[c] \in Callers
       /\ future[leaderOf[c]] = "pending" => inflight = leaderOf[c]
  /\ \A c \in Callers : pc[c] = "direct" =>
       leaderOf[c] \in Callers /\ future[leaderOf[c]] = "failed"

(* A leader that ends takes itself out of _inflight and resolves the       *)
(* future its followers wait for.                                          *)
LEMMA ResolveRegistered ==
  ASSUME TypeOK, Registered, NEW c \in Callers, pc[c] = "operate",
         NEW outcome \in {"result", "failed", "cancelled"}, Resolve(c, outcome),
         NEW p \in Ended, Goto(c, p), UNCHANGED leaderOf
  PROVE  Registered'
<1>1. inflight = c /\ future[c] = "pending" /\ inflight' = NoCaller
  BY DEF Registered, Resolve
<1>2. \A d \in Callers : pc'[d] = (IF d = c THEN p ELSE pc[d])
  BY DEF Goto, TypeOK
<1>3. \A d \in Callers : future'[d] = (IF d = c THEN outcome ELSE future[d])
  BY DEF Resolve, TypeOK
<1> QED
  BY <1>1, <1>2, <1>3, CallersAssumption DEF Registered, Ended

(* Every step keeps _inflight, the futures and their followers together.  *)
LEMMA RegisteredStep == TypeOK /\ Registered /\ [Next]_vars => Registered'
<1> SUFFICES ASSUME TypeOK, Registered, [Next]_vars PROVE Registered'
  OBVIOUS
<1> USE CallersAssumption DEF TypeOK, Ended
<1>1. ASSUME NEW c \in Callers, Call(c) PROVE Registered'
  <2>1. CASE Flying
    BY <1>1, <2>1 DEF Call, Flying, Registered, Goto
  <2>2. CASE ~ Flying
    BY <1>1, <2>2 DEF Call, Flying, Registered, Goto
  <2> QED
    BY <2>1, <2>2
<1>2. ASSUME NEW c \in Callers, Succeed(c) PROVE Registered'
  BY <1>2, ResolveRegistered DEF Succeed
<1>3. ASSUME NEW c \in Callers, Fail(c) PROVE Registered'
  BY <1>3, ResolveRegistered DEF Fail
<1>4. ASSUME NEW c \in Callers, Wake(c) PROVE Registered'
  BY <1>4 DEF Wake, Registered, Goto
<1>5. ASSUME NEW c \in Callers, Direct(c) PROVE Registered'
  BY <1>5 DEF Direct, Registered, Goto
<1>6. ASSUME NEW c \in Callers, Cancel(c) PROVE Registered'
  <2>1. CASE pc[c] = "operate"
    BY <1>6, <2>1, ResolveRegistered DEF Cancel
  <2>2. CASE pc[c] # "operate"
    BY <1>6, <2>2 DEF Cancel, Registered, Goto
  <2> QED
    BY <2>1, <2>2
<1>7. CASE Restart
  BY <1>7 DEF Restart, Registered
<1>8. CASE ForgetRow \/ UNCHANGED vars
  BY <1>8 DEF ForgetRow, vars, Registered
<1> QED
  BY <1>1, <1>2, <1>3, <1>4, <1>5, <1>6, <1>7, <1>8 DEF Next, Step

(* _inflight, the futures and their followers always agree.               *)
LEMMA AlwaysRegistered == Spec => []Registered
<1>1. Init => Registered
  BY CallersAssumption DEF Init, Registered
<1> QED
  BY <1>1, TypeCorrect, RegisteredStep, PTL DEF Spec

(* At most one call at a time runs the flight's operation, and it is the   *)
(* one that new calls join; others run it only after a failed flight.      *)
THEOREM SingleLeader == Spec => []OneLeader
<1>1. Registered => OneLeader
  BY DEF Registered, OneLeader
<1> QED
  BY <1>1, AlwaysRegistered, PTL

(* A future that holds a CancelledError is that of a cancelled task.       *)
Blamed ==
  /\ \A c \in Callers : future[c] = "cancelled" => c \in asked
  /\ CancelledForCause

(* Every step that cancels a call or resolves a future with a cancellation *)
(* is a cancellation of a task or follows one.                             *)
LEMMA BlamedStep == TypeOK /\ Registered /\ Blamed /\ [Next]_vars => Blamed'
<1> SUFFICES ASSUME TypeOK, Registered, Blamed, [Next]_vars PROVE Blamed'
  OBVIOUS
<1> USE CallersAssumption DEF TypeOK, Blamed, CancelledForCause, Goto
<1>1. ASSUME NEW c \in Callers, Call(c) PROVE Blamed'
  BY <1>1 DEF Call
<1>2. ASSUME NEW c \in Callers, Succeed(c) \/ Fail(c) PROVE Blamed'
  BY <1>2 DEF Succeed, Fail, Resolve
<1>3. ASSUME NEW c \in Callers, Wake(c) PROVE Blamed'
  <2>1. leaderOf[c] \in Callers
    BY <1>3 DEF Wake, Registered
  <2> QED
    BY <1>3, <2>1 DEF Wake
<1>4. ASSUME NEW c \in Callers, Direct(c) PROVE Blamed'
  BY <1>4 DEF Direct
<1>5. ASSUME NEW c \in Callers, Cancel(c) PROVE Blamed'
  BY <1>5 DEF Cancel, Resolve
<1>6. CASE Restart \/ ForgetRow \/ UNCHANGED vars
  BY <1>6 DEF Restart, ForgetRow, vars, Ended
<1> QED
  BY <1>1, <1>2, <1>3, <1>4, <1>5, <1>6 DEF Next, Step

(* No follower is left awaiting a future that nobody will resolve, and a   *)
(* call is only cancelled with its own task or its leader's.               *)
THEOREM FollowersHaveLeaders == Spec => []NoOrphanFollower
<1>1. Init => Blamed
  BY DEF Init, Blamed, CancelledForCause
<1>2. Registered /\ Blamed => NoOrphanFollower
  BY DEF Registered, Blamed, NoOrphanFollower
<1> QED
  BY <1>1, <1>2, AlwaysRegistered, TypeCorrect, BlamedStep, PTL DEF Spec

---------------------------------------------------------------------------
(* Generations: what the store can know of the process's counter. *)

(* Rows of this boot carry generations the counter has passed, and a       *)
(* running leader holds the newest one.                                    *)
Counted ==
  /\ \A r \in rows : r.boot <= boot /\ (r.boot = boot => r.gen <= generation)
  /\ \A c \in Callers : pc[c] = "operate" => ticket[c] = generation

(* The entry of a running leader carries the newest generation.            *)
LEMMA StoreCounted ==
  ASSUME TypeOK, Counted, NEW c \in Callers, pc[c] = "operate", Store(c)
  PROVE  \A r \in rows' : r.boot <= boot /\ (r.boot = boot => r.gen <= generation)
<1>1. NewRow(c).boot = boot /\ NewRow(c).gen = generation
  BY DEF Counted, NewRow
<1>2. rows' \subseteq rows \cup {NewRow(c)}
  BY DEF Store
<1> QED
  BY <1>1, <1>2 DEF Counted, TypeOK

(* Every step keeps the rows behind the generation counter.               *)
LEMMA CountedStep == TypeOK /\ Registered /\ Counted /\ [Next]_vars => Counted'
<1> SUFFICES ASSUME TypeOK, Registered, Counted, [Next]_vars PROVE Counted'
  OBVIOUS
<1> USE CallersAssumption DEF TypeOK, Ended
<1>1. ASSUME NEW c \in Callers, Call(c) PROVE Counted'
  <2>1. CASE Flying
    BY <1>1, <2>1 DEF Call, Flying, Counted, Goto
  <2>2. CASE ~ Flying
    <3>1. \A r \in rows : r.gen \in Nat
      BY DEF Row
    <3>2. \A d \in Callers : pc[d] # "operate"
      BY <2>2 DEF Flying, Registered
    <3> QED
      BY <1>1, <2>2, <3>1, <3>2 DEF Call, Flying, Counted, Goto
  <2> QED
    BY <2>1, <2>2
<1>2. ASSUME NEW c \in Callers, Succeed(c) PROVE Counted'
  <2>1. \A r \in rows' : r.boot <= boot /\ (r.boot = boot => r.gen <= generation)
    BY <1>2, StoreCounted DEF Succeed, Counted
  <2> QED
    BY <1>2, <2>1 DEF Succeed, Resolve, Counted, Goto
<1>3. ASSUME NEW c \in Callers, Fail(c) PROVE Counted'
  <2>1. \A r \in rows' : r.boot <= boot /\ (r.boot = boot => r.gen <= generation)
    BY <1>3, StoreCounted DEF Fail, Counted
  <2> QED
    BY <1>3, <2>1 DEF Fail, Resolve, Counted, Goto
<1>4. ASSUME NEW c \in Callers, Wake(c) \/ Direct(c) PROVE Counted'
  BY <1>4 DEF Wake, Direct, Counted, Goto
<1>5. ASSUME NEW c \in Callers, Cancel(c) PROVE Counted'
  BY <1>5 DEF Cancel, Resolve, Counted, Goto
<1>6. CASE Restart
  <2>1. \A r \in rows : r.boot \in Nat /\ r.boot < boot'
    BY <1>6 DEF Restart, Counted, Row
  <2> QED
    BY <1>6, <2>1 DEF Restart, Counted
<1>7. CASE ForgetRow
  <2>1. \A r \in rows : /\ [r EXCEPT !.state = "expired"].boot = r.boot
                        /\ [r EXCEPT !.state = "expired"].gen = r.gen
    BY DEF Row
  <2>2. \A s \in rows' : \E r \in rows : s.boot = r.boot /\ s.gen = r.gen
    BY <1>7, <2>1 DEF ForgetRow
  <2>3. UNCHANGED <<pc, ticket, generation, boot>>
    BY <1>7 DEF ForgetRow
  <2> HIDE DEF TypeOK
  <2> QED
    BY <2>2, <2>3 DEF Counted
<1>8. CASE UNCHANGED vars
  BY <1>8 DEF vars, Counted
<1> QED
  BY <1>1, <1>2, <1>3, <1>4, <1>5, <1>6, <1>7, <1>8 DEF Next, Step

(* The rows of this boot are always behind the generation counter.        *)
LEMMA AlwaysCounted == Spec => []Counted
<1>1. Init => Counted
  BY DEF Init, Counted
<1> QED
  BY <1>1, TypeCorrect, AlwaysRegistered, CountedStep, PTL DEF Spec

(* The store refuses a running leader's generation only because of a row   *)
(* that an earlier life of the process wrote.                              *)
THEOREM OlderBootBlocks == Spec => []OnlyOlderBootBlocks
<1>1. TypeOK /\ Counted => OnlyOlderBootBlocks
  BY DEF TypeOK, Row, Counted, OnlyOlderBootBlocks
<1> QED
  BY <1>1, TypeCorrect, AlwaysCounted, PTL

---------------------------------------------------------------------------
(* The calls of execute implement SingleFlight. *)

(* What a follower can be given has been shared: the result in a future    *)
(* and every row of the store.                                             *)
GivenIsShared ==
  /\ \A c \in Callers : future[c] = "result" => c \in shared
  /\ \A r \in rows : r.by \in shared

(* Every step keeps futures and rows to results that have been shared.    *)
LEMMA GivenStep == TypeOK /\ GivenIsShared /\ [Next]_vars => GivenIsShared'
<1> SUFFICES ASSUME TypeOK, GivenIsShared, [Next]_vars PROVE GivenIsShared'
  OBVIOUS
<1> USE DEF TypeOK
<1>1. ASSUME NEW c \in Callers, Store(c), shared' = shared \cup {c}
      PROVE  \A r \in rows' : r.by \in shared'
  BY <1>1 DEF Store, NewRow, GivenIsShared
<1>2. ASSUME NEW c \in Callers, Succeed(c) PROVE GivenIsShared'
  BY <1>1, <1>2 DEF Succeed, Resolve, GivenIsShared
<1>3. ASSUME NEW c \in Callers, Fail(c) PROVE GivenIsShared'
  BY <1>1, <1>3 DEF Fail, Resolve, GivenIsShared
<1>4. ASSUME NEW c \in Callers, Call(c) \/ Wake(c) \/ Direct(c) PROVE GivenIsShared'
  BY <1>4 DEF Call, Wake, Direct, GivenIsShared
<1>5. ASSUME NEW c \in Callers, Cancel(c) PROVE GivenIsShared'
  BY <1>5 DEF Cancel, Resolve, GivenIsShared
<1>6. CASE ForgetRow
  <2>1. \A r \in rows : [r EXCEPT !.state = "expired"].by = r.by
    BY DEF Row
  <2> QED
    BY <1>6, <2>1 DEF ForgetRow, GivenIsShared
<1>7. CASE Restart \/ UNCHANGED vars
  BY <1>7 DEF Restart, vars, GivenIsShared
<1> QED
  BY <1>2, <1>3, <1>4, <1>5, <1>6, <1>7 DEF Next, Step

(* Futures and rows always hold results that have been shared.            *)
LEMMA AlwaysGiven == Spec => []GivenIsShared
<1>1. Init => GivenIsShared
  BY DEF Init, GivenIsShared
<1> QED
  BY <1>1, TypeCorrect, GivenStep, PTL DEF Spec

(* The answers as SingleFlight sees them. *)
Answers == [c \in Callers |-> IF pc[c] = "returned" THEN answer[c] ELSE NoCaller]

(* A call that moves on without returning gives no answer; one that        *)
(* returns gives its own and no other call's.                              *)
LEMMA AnswersStep ==
  ASSUME TypeOK, NEW c \in Callers, pc[c] \notin Ended
  PROVE  /\ Answers[c] = NoCaller
         /\ \A p \in Points : p # "returned" /\ Goto(c, p) /\ UNCHANGED answer
              => UNCHANGED Answers
         /\ \A a \in Callers : Goto(c, "returned") /\ answer' = [answer EXCEPT ![c] = a]
              => Answers' = [Answers EXCEPT ![c] = a]
<1>1. Answers[c] = NoCaller
  BY DEF Answers, Ended
<1>2. ASSUME NEW p \in Points, p # "returned", Goto(c, p), UNCHANGED answer
      PROVE  UNCHANGED Answers
  BY <1>2 DEF Answers, Goto, TypeOK, Ended
<1>3. ASSUME NEW a \in Callers, Goto(c, "returned"), answer' = [answer EXCEPT ![c] = a]
      PROVE  Answers' = [Answers EXCEPT ![c] = a]
  BY <1>3 DEF Answers, Goto, TypeOK
<1> QED
  BY <1>1, <1>2, <1>3

(* Every step of the manager is a step of SingleFlight or none.            *)
LEMMA StepRefines ==
  TypeOK /\ Registered /\ GivenIsShared /\ [Next]_vars => [Abstract!Next]_(Abstract!vars)
<1> SUFFICES ASSUME TypeOK, Registered, GivenIsShared, [Next]_vars
             PROVE  [Abstract!Next]_(Abstract!vars)
  OBVIOUS
<1> USE DEF Abstract!Next, Abstract!Produce, Abstract!Answer, Abstract!Share, Abstract!Keep,
            Abstract!ShareLater, Abstract!vars, Points, Ended
<1>1. ASSUME NEW c \in Callers, Call(c) PROVE UNCHANGED <<produced, shared, Answers>>
  BY <1>1, AnswersStep DEF Call
<1>2. ASSUME NEW c \in Callers, Succeed(c) PROVE Abstract!Produce(c)
  BY <1>2, AnswersStep DEF Succeed, Answers
<1>3. ASSUME NEW c \in Callers, Fail(c)
      PROVE  Abstract!Produce(c) \/ UNCHANGED <<produced, shared, Answers>>
  BY <1>3, AnswersStep DEF Fail, Answers
<1>4. ASSUME NEW c \in Callers, Wake(c)
      PROVE  Abstract!Answer(c) \/ UNCHANGED <<produced, shared, Answers>>
  <2>1. leaderOf[c] \in Callers
    BY <1>4 DEF Wake, Registered
  <2>2. \A r \in Newest : r.by \in Callers /\ r.by \in shared
    BY DEF Newest, TypeOK, Row, GivenIsShared
  <2>3. CASE future[leaderOf[c]] = "result"
    BY <1>4, <2>1, <2>3, AnswersStep DEF Wake, Answers, GivenIsShared
  <2>4. CASE future[leaderOf[c]] = "failed"
    BY <1>4, <2>2, <2>4, AnswersStep DEF Wake, Answers
  <2>5. CASE future[leaderOf[c]] = "cancelled"
    BY <1>4, <2>5, AnswersStep DEF Wake
  <2> QED
    BY <1>4, <2>3, <2>4, <2>5 DEF Wake
<1>5. ASSUME NEW c \in Callers, Direct(c)
      PROVE  Abstract!Produce(c) \/ UNCHANGED <<produced, shared, Answers>>
  BY <1>5, AnswersStep DEF Direct, Answers
<1>6. ASSUME NEW c \in Callers, Cancel(c) PROVE UNCHANGED <<produced, shared, Answers>>
  BY <1>6, AnswersStep DEF Cancel
<1>7. CASE Restart
  <2>1. \A c \in Callers : pc'[c] = "returned" <=> pc[c] = "returned"
    BY <1>7 DEF Restart, TypeOK
  <2> QED
    BY <1>7, <2>1 DEF Restart, Answers
<1>8. CASE ForgetRow \/ UNCHANGED vars
  BY <1>8 DEF ForgetRow, vars
<1> QED
  BY <1>1, <1>2, <1>3, <1>4, <1>5, <1>6, <1>7, <1>8 DEF Next, Step, Answers

(* The process's manager keeps the promise of SingleFlight to its callers, *)
(* whatever fails, is cancelled or restarts.                               *)
THEOREM Implements == Spec => ImplementsSingleFlight
<1>1. Init => Abstract!Init
  BY DEF Init, Abstract!Init
<1> QED
  BY <1>1, TypeCorrect, AlwaysRegistered, AlwaysGiven, StepRefines, PTL
     DEF Spec, ImplementsSingleFlight, Abstract!Spec

(* What a returned call gives is its own result or one that was shared.    *)
Answered ==
  \A c \in Callers : pc[c] = "returned" => answer[c] \in shared \cup (produced \cap {c})

(* A call that has returned is left alone, and what may be given stays; a  *)
(* follower that wakes up is given its leader's result or a row's.         *)
LEMMA AnsweredStep ==
  TypeOK /\ Registered /\ GivenIsShared /\ shared \subseteq produced /\ Answered /\ [Next]_vars
    => (shared \subseteq produced)' /\ Answered'
<1> SUFFICES ASSUME TypeOK, Registered, GivenIsShared, shared \subseteq produced, Answered,
                    [Next]_vars
             PROVE  (shared \subseteq produced)' /\ Answered'
  OBVIOUS
<1>1. ASSUME NEW c \in Callers, Succeed(c) PROVE (shared \subseteq produced)' /\ Answered'
  BY <1>1 DEF Succeed, Goto, TypeOK, Answered
<1>2. ASSUME NEW c \in Callers, Fail(c) PROVE (shared \subseteq produced)' /\ Answered'
  BY <1>2 DEF Fail, Goto, TypeOK, Answered
<1>3. ASSUME NEW c \in Callers, Call(c) PROVE (shared \subseteq produced)' /\ Answered'
  BY <1>3 DEF Call, Goto, TypeOK, Answered
<1>4. ASSUME NEW c \in Callers, Wake(c) PROVE (shared \subseteq produced)' /\ Answered'
  <2>1. \A r \in Newest : r.by \in shared
    BY DEF Newest, TypeOK, Row, GivenIsShared
  <2>2. pc[c] = "await" /\ leaderOf[c] \in Callers
    BY <1>4 DEF Wake, Registered
  <2>3. future[leaderOf[c]] = "result" => leaderOf[c] \in shared
    BY <2>2 DEF GivenIsShared
  <2> QED
    BY <1>4, <2>1, <2>2, <2>3 DEF Wake, Goto, TypeOK, Answered
<1>5. ASSUME NEW c \in Callers, Direct(c) PROVE (shared \subseteq produced)' /\ Answered'
  BY <1>5 DEF Direct, Goto, TypeOK, Answered
<1>6. ASSUME NEW c \in Callers, Cancel(c) PROVE (shared \subseteq produced)' /\ Answered'
  BY <1>6 DEF Cancel, Goto, TypeOK, Answered
<1>7. CASE Restart
  BY <1>7 DEF Restart, Ended, TypeOK, Answered
<1>8. CASE ForgetRow \/ UNCHANGED vars
  BY <1>8 DEF ForgetRow, vars, Answered
<1> QED
  BY <1>1, <1>2, <1>3, <1>4, <1>5, <1>6, <1>7, <1>8 DEF Next, Step

(* The refinement leaves calls without an answer open; there are none.  A  *)
(* call that returns has a result, its own or one that was shared, and an  *)
(* operation has produced it: no follower wakes up with nothing.           *)
THEOREM ReturnsResult ==
  Spec => [](\A c \in Callers :
               pc[c] = "returned" => answer[c] \in produced /\ (answer[c] = c \/ answer[c] \in shared))
<1>1. Init => shared \subseteq produced /\ Answered
  BY DEF Init, Answered
<1>2. shared \subseteq produced /\ Answered =>
        \A c \in Callers :
          pc[c] = "returned" => answer[c] \in produced /\ (answer[c] = c \/ answer[c] \in shared)
  BY DEF Answered
<1> QED
  BY <1>1, <1>2, TypeCorrect, AlwaysRegistered, AlwaysGiven, AnsweredStep, PTL DEF Spec
============================================================================
