--------------------------- MODULE RedisCallsProofs ---------------------------
(***************************************************************************)
(* Proofs about what the calls of RedisFlight return and what they cost:   *)
(* the refinement of SingleFlight and the number of operations.            *)
(***************************************************************************)
EXTENDS RedisFlightProofs, FiniteSetTheorems

USE DEF redisVars, storeVars, flowVars

---------------------------------------------------------------------------
(* What can be shared *)

(* Stored results have been produced, by workers who may write; a worker   *)
(* past its operation has a result; one that is about to return has a      *)
(* result of its own or a stored one.                                      *)
Shareable ==
  /\ shared \subseteq produced \cap CanWrite
  /\ \A r \in rows : r.by \in shared
  /\ \A w \in Workers : pc[w] \in {"check", "write", "insert", "publish"} => w \in produced
  /\ \A w \in Workers : pc[w] = "insert" => w \in CanWrite
  /\ \A w \in Workers :
       pc[w] = "release" /\ end[w] = "return" => answer[w] \in shared \cup (produced \cap {w})

(* Every step keeps what is stored or about to be returned shareable.      *)
LEMMA ShareableStep == TypeOK /\ Shareable /\ [Next]_vars => Shareable'
<1> SUFFICES ASSUME TypeOK, Shareable, [Next]_vars PROVE Shareable'
  OBVIOUS
<1> USE WorkersAssumption DEF TypeOK, Goto
(* A step of w that stores nothing and takes it to a step with no result.  *)
<1>1. ASSUME NEW w \in Workers, UNCHANGED <<rows, shared>>, produced \subseteq produced',
             \E p \in Points \ {"check", "write", "insert", "publish", "release"} : Goto(w, p),
             \A v \in Workers \ {w} : answer'[v] = answer[v] /\ end'[v] = end[v]
      PROVE  Shareable'
  BY <1>1 DEF Shareable
(* A step of w that stores nothing and after which it has a result.        *)
<1>2. ASSUME NEW w \in Workers, UNCHANGED <<rows, shared, answer, end>>, produced \subseteq produced',
             w \in produced', \E p \in {"check", "write", "publish"} : Goto(w, p)
      PROVE  Shareable'
  BY <1>2 DEF Shareable
(* A step of w to its release, with an answer or without.                  *)
<1>3. ASSUME NEW w \in Workers, Goto(w, "release"), UNCHANGED <<rows, shared, produced>>,
             \A v \in Workers \ {w} : answer'[v] = answer[v] /\ end'[v] = end[v],
             end'[w] = "return" => answer'[w] \in shared \cup (produced \cap {w})
      PROVE  Shareable'
  BY <1>3 DEF Shareable
(* A step that stores the row of w. *)
<1>4. ASSUME NEW w \in Workers, Store(w), w \in produced, w \in CanWrite,
             UNCHANGED <<produced, answer>>,
             \/ Goto(w, "publish") /\ UNCHANGED end
             \/ /\ Goto(w, "release") /\ end'[w] # "return"
                /\ \A v \in Workers \ {w} : end'[v] = end[v]
      PROVE  Shareable'
  <2>1. shared' = shared \cup {w} /\ \A r \in rows' : r \in rows \/ r.by = w
    BY <1>4 DEF Store
  <2> QED
    BY <1>4, <2>1 DEF Shareable
<1>5. ASSUME NEW w \in Workers, ReturnRow(w)
      PROVE  /\ answer'[w] \in shared
             /\ \A v \in Workers \ {w} : answer'[v] = answer[v]
  BY <1>5 DEF ReturnRow, Newest, Shareable
<1>6. ASSUME UNCHANGED <<shared, produced, pc, end, answer>>, \A r \in rows' : \E s \in rows : s.by = r.by
      PROVE  Shareable'
  BY <1>6 DEF Shareable
<1> USE DEF Points, Holding, Following, Ended
<1>7. ASSUME NEW w \in Workers, Recheck(w) PROVE Shareable'
  <2>1. CASE Goto(w, "release") /\ ReturnRow(w)
    BY <1>3, <1>5, <1>7, <2>1 DEF Recheck
  <2>2. CASE \E p \in {"incr", "wait"} : Goto(w, p) /\ UNCHANGED <<answer, end>>
    BY <1>1, <1>7, <2>2 DEF Recheck
  <2> QED
    BY <1>7, <2>1, <2>2 DEF Recheck
<1>8. ASSUME NEW w \in Workers, Unwind(w), UNCHANGED <<rows, shared, produced, answer>>
      PROVE  Shareable'
  BY <1>3, <1>8 DEF Unwind
<1>9. ASSUME NEW w \in Workers, Operate(w) PROVE Shareable'
  <2>1. CASE Goto(w, "check") /\ produced' = produced \cup {w} /\ UNCHANGED end
    BY <1>2, <1>9, <2>1 DEF Operate
  <2>2. CASE Unwind(w) /\ UNCHANGED produced
    BY <1>8, <1>9, <2>2 DEF Operate
  <2> QED
    BY <1>9, <2>1, <2>2 DEF Operate
<1>10. ASSUME NEW w \in Workers, Check(w) PROVE Shareable'
  <2>1. w \in produced
    BY <1>10 DEF Check, Shareable
  <2>2. CASE Unwind(w)
    BY <1>8, <1>10, <2>2 DEF Check
  <2>3. CASE UNCHANGED end /\ \E p \in {"publish", "write"} : Goto(w, p)
    BY <1>2, <1>10, <2>1, <2>3 DEF Check
  <2> QED
    BY <1>10, <2>2, <2>3 DEF Check
<1>11. ASSUME NEW w \in Workers, Write(w) PROVE Shareable'
  <2>1. w \in produced
    BY <1>11 DEF Write, Shareable
  <2>2. CASE UNCHANGED <<rows, shared>> /\ Goto(w, "publish")
    BY <1>2, <1>11, <2>1, <2>2 DEF Write
  <2>4. CASE MayWrite(w) /\ UNCHANGED <<rows, shared>> /\ Goto(w, "insert")
    BY <1>11, <2>1, <2>4 DEF Write, MayWrite, Shareable
  <2> QED
    BY <1>11, <2>2, <2>4 DEF Write
<1>12. ASSUME NEW w \in Workers, Insert(w) PROVE Shareable'
  <2>1. w \in produced /\ w \in CanWrite
    BY <1>12 DEF Insert, Shareable
  <2> QED
    BY <1>4, <1>12, <2>1 DEF Insert
<1>13. ASSUME NEW w \in Workers, WriteError(w) PROVE Shareable'
  <2>1. w \in produced /\ w \in CanWrite
    BY <1>13 DEF WriteError, MayWrite, Shareable
  <2>2. CASE UNCHANGED <<rows, shared>>
    BY <1>8, <1>13, <2>2 DEF WriteError
  <2>3. CASE Store(w)
    BY <1>4, <1>13, <2>1, <2>3 DEF WriteError, Unwind
  <2> QED
    BY <1>13, <2>2, <2>3 DEF WriteError
<1>14. ASSUME NEW w \in Workers, Publish(w) PROVE Shareable'
  <2>1. w \in produced
    BY <1>14 DEF Publish, Shareable
  <2> QED
    BY <1>3, <1>14, <2>1 DEF Publish
<1>15. ASSUME NEW w \in Workers, Release(w) PROVE Shareable'
  <2>1. \E p \in {"returned", "raised", "wait"} : Goto(w, p)
    BY <1>15 DEF Release
  <2> QED
    BY <1>1, <1>15, <2>1 DEF Release
<1>16. ASSUME NEW w \in Workers, \/ FastPath(w) \/ Poll(w) \/ Relook(w) PROVE Shareable'
  <2>1. UNCHANGED <<rows, shared, produced, end>>
    BY <1>16 DEF FastPath, Poll, Relook
  <2>2. \A v \in Workers \ {w} : answer'[v] = answer[v]
    BY <1>5, <1>16 DEF FastPath, Poll, Relook
  <2>3. \E p \in {"returned", "raised", "acquire", "direct", "look", "takeover", "wait"} : Goto(w, p)
    BY <1>16 DEF FastPath, Poll, Relook
  <2> QED
    BY <1>1, <2>1, <2>2, <2>3
<1>17. ASSUME NEW w \in Workers, \/ Acquire(w) \/ AcquireError(w) \/ Incr(w) \/ IncrError(w)
                                 \/ Look(w) \/ Takeover(w) \/ Wait(w) \/ Crash(w)
       PROVE Shareable'
  <2>1. UNCHANGED <<rows, shared, produced, answer, end>>
    BY <1>17 DEF Acquire, AcquireError, Incr, IncrError, Look, Takeover, Wait, Crash
  <2>2. \E p \in {"recheck", "poll", "raised", "operate", "relook", "wait", "crashed"} : Goto(w, p)
    BY <1>17 DEF Acquire, AcquireError, Incr, IncrError, Look, Takeover, Wait, Crash
  <2> QED
    BY <1>1, <2>1, <2>2
<1>18. ASSUME NEW w \in Workers, Direct(w) PROVE Shareable'
  BY <1>1, <1>18 DEF Direct
<1>19. ASSUME NEW w \in Workers, Cancel(w) PROVE Shareable'
  <2>1. UNCHANGED <<rows, shared, produced, answer>>
    BY <1>19 DEF Cancel
  <2>2. CASE Goto(w, "release") /\ end' = [end EXCEPT ![w] = "raise"]
    BY <1>3, <2>1, <2>2
  <2>3. CASE Goto(w, "raised") /\ UNCHANGED end
    BY <1>1, <2>1, <2>3
  <2> QED
    BY <1>19, <2>2, <2>3 DEF Cancel
<1>20. ASSUME NEW w \in Workers, DeadlinePasses(w) PROVE Shareable'
  BY <1>6, <1>20 DEF DeadlinePasses
<1>21. CASE Expire
  BY <1>6, <1>21 DEF Expire
<1>22. CASE ForgetRow
  <2>1. \A r \in rows' : \E s \in rows : s.by = r.by
    BY <1>22 DEF ForgetRow, Row
  <2> QED
    BY <1>6, <1>22, <2>1 DEF ForgetRow
<1>23. CASE UNCHANGED vars
  BY <1>6, <1>23 DEF vars
<1> QED
  BY <1>7, <1>9, <1>10, <1>11, <1>12, <1>13, <1>14, <1>15, <1>16, <1>17, <1>18, <1>19, <1>20,
     <1>21, <1>22, <1>23
  DEF Next, Step, Leader, Follower

(* So it is in every reachable state.                                      *)
LEMMA AlwaysShareable == Spec => []Shareable
<1>1. Init => Shareable
  BY DEF Init, Shareable
<1> QED
  BY <1>1, TypeCorrect, ShareableStep, PTL DEF Spec

---------------------------------------------------------------------------
(* The calls of execute implement SingleFlight. *)

(* The answers as SingleFlight sees them. *)
Answers == [w \in Workers |-> IF pc[w] = "returned" THEN answer[w] ELSE NoWorker]

(* A call that moves on without returning gives no answer, whatever it has *)
(* ready; one that returns gives what it has ready, and no other's.        *)
LEMMA AnswersStep ==
  ASSUME TypeOK, NEW w \in Workers, pc[w] \notin Ended,
         \A v \in Workers \ {w} : answer'[v] = answer[v]
  PROVE  /\ Answers[w] = NoWorker
         /\ \A p \in Points : p # "returned" /\ Goto(w, p) => UNCHANGED Answers
         /\ Goto(w, "returned") => Answers' = [Answers EXCEPT ![w] = answer'[w]]
<1>1. Answers[w] = NoWorker
  BY DEF Answers, Ended
<1>2. ASSUME NEW p \in Points, p # "returned", Goto(w, p) PROVE UNCHANGED Answers
  BY <1>2 DEF Answers, Goto, TypeOK, Ended
<1>3. ASSUME Goto(w, "returned") PROVE Answers' = [Answers EXCEPT ![w] = answer'[w]]
  BY <1>3 DEF Answers, Goto, TypeOK
<1> QED
  BY <1>1, <1>2, <1>3

(* Every step is a step of SingleFlight or a stutter.                      *)
LEMMA StepRefines ==
  TypeOK /\ Shareable /\ [Next]_vars => [Abstract!Next]_(Abstract!vars)
<1> SUFFICES ASSUME TypeOK, Shareable, [Next]_vars
             PROVE  [Abstract!Next]_(Abstract!vars)
  OBVIOUS
<1> DEFINE Stutter == UNCHANGED <<produced, shared, Answers>>
<1> USE DEF Points, Holding, Following, Ended
<1>1. ASSUME NEW w \in Workers, pc[w] \notin Ended, UNCHANGED <<produced, shared>>,
             \E p \in Points \ {"returned"} : Goto(w, p),
             \A v \in Workers \ {w} : answer'[v] = answer[v]
      PROVE  Stutter
  BY <1>1, AnswersStep
<1>2. ASSUME NEW w \in Workers, pc[w] \notin Ended, UNCHANGED <<produced, shared>>,
             Goto(w, "returned"), \A v \in Workers \ {w} : answer'[v] = answer[v],
             answer'[w] \in shared \cup (produced \cap {w})
      PROVE  Abstract!Answer(w)
  <2>1. Answers[w] = NoWorker /\ Answers' = [Answers EXCEPT ![w] = answer'[w]]
    BY <1>2, AnswersStep
  <2> QED
    BY <1>2, <2>1 DEF Abstract!Answer, Answers
<1>3. ASSUME NEW w \in Workers, ReturnRow(w)
      PROVE  answer'[w] \in shared /\ \A v \in Workers \ {w} : answer'[v] = answer[v]
  BY <1>3 DEF ReturnRow, Newest, Shareable, TypeOK
<1>4. ASSUME NEW w \in Workers, FastPath(w) \/ Poll(w) \/ Relook(w)
      PROVE  Abstract!Answer(w) \/ Stutter
  <2>1. pc[w] \notin Ended /\ UNCHANGED <<produced, shared>>
    BY <1>4 DEF FastPath, Poll, Relook
  <2>2. CASE Goto(w, "returned") /\ ReturnRow(w)
    BY <1>2, <1>3, <2>1, <2>2
  <2>3. CASE UNCHANGED answer /\ \E p \in Points \ {"returned"} : Goto(w, p)
    BY <1>1, <2>1, <2>3
  <2> QED
    BY <1>4, <2>2, <2>3 DEF FastPath, Poll, Relook
<1>5. ASSUME NEW w \in Workers, Release(w) PROVE Abstract!Answer(w) \/ Stutter
  <2>1. pc[w] = "release" /\ UNCHANGED <<produced, shared, answer>>
    BY <1>5 DEF Release
  <2>2. CASE end[w] = "return"
    <3>1. Goto(w, "returned")
      BY <1>5, <2>2 DEF Release
    <3> QED
      BY <1>2, <2>1, <2>2, <3>1 DEF Shareable
  <2>3. CASE end[w] # "return"
    <3>1. Goto(w, "raised") \/ Goto(w, "wait")
      BY <1>5, <2>3 DEF Release, TypeOK
    <3> QED
      BY <1>1, <2>1, <3>1
  <2> QED
    BY <2>2, <2>3
<1>6. ASSUME NEW w \in Workers, Recheck(w) PROVE Stutter
  <2>1. \A v \in Workers \ {w} : answer'[v] = answer[v]
    BY <1>3, <1>6 DEF Recheck
  <2> QED
    BY <1>1, <1>6, <2>1 DEF Recheck
<1>7. ASSUME NEW w \in Workers, Operate(w) PROVE Abstract!Produce(w) \/ Stutter
  <2>1. UNCHANGED Answers
    BY <1>7, AnswersStep DEF Operate, Unwind
  <2> QED
    BY <1>7, <2>1 DEF Operate, Abstract!Produce, Abstract!Keep, Answers
<1>8. ASSUME NEW w \in Workers, Direct(w) PROVE Abstract!Produce(w) \/ Stutter
  <2>1. CASE /\ Goto(w, "returned") /\ produced' = produced \cup {w}
             /\ answer' = [answer EXCEPT ![w] = w]
    <3>1. answer'[w] = w /\ \A v \in Workers \ {w} : answer'[v] = answer[v]
      BY <2>1 DEF TypeOK
    <3>2. Answers[w] = NoWorker /\ Answers' = [Answers EXCEPT ![w] = w]
      BY <1>8, <2>1, <3>1, AnswersStep DEF Direct
    <3> QED
      BY <1>8, <2>1, <3>2 DEF Direct, Abstract!Produce, Abstract!Keep, Answers
  <2>2. CASE Goto(w, "raised") /\ UNCHANGED <<produced, answer>>
    BY <1>1, <1>8, <2>2 DEF Direct
  <2> QED
    BY <1>8, <2>1, <2>2 DEF Direct
(* A row is stored by a worker that has its result and may write.          *)
<1>9. ASSUME NEW w \in Workers, Write(w) \/ Insert(w) \/ WriteError(w)
      PROVE  Abstract!ShareLater(w) \/ Stutter
  <2>1. UNCHANGED Answers /\ UNCHANGED produced
    <3>1. pc[w] \notin Ended /\ UNCHANGED <<produced, answer>>
      BY <1>9 DEF Write, Insert, WriteError
    <3>2. \E p \in {"publish", "insert", "release"} : Goto(w, p)
      BY <1>9 DEF Write, Insert, WriteError, Unwind
    <3> QED
      BY <3>1, <3>2, AnswersStep
  <2>2. w \in produced
    BY <1>9 DEF Write, Insert, WriteError, Shareable
  <2>3. shared' = shared \/ (w \in CanWrite /\ shared' = shared \cup {w})
    BY <1>9 DEF Write, Insert, WriteError, Store, MayWrite, Shareable
  <2> QED
    BY <2>1, <2>2, <2>3 DEF Abstract!ShareLater, Abstract!Share, Answers
<1>10. ASSUME NEW w \in Workers, Publish(w) PROVE Stutter
  <2>1. \A v \in Workers \ {w} : answer'[v] = answer[v]
    BY <1>10 DEF Publish, TypeOK
  <2> QED
    BY <1>1, <1>10, <2>1 DEF Publish
<1>11. ASSUME NEW w \in Workers, \/ Acquire(w) \/ AcquireError(w) \/ Incr(w) \/ IncrError(w) \/ Check(w)
                                 \/ Look(w) \/ Takeover(w) \/ Wait(w) \/ Cancel(w) \/ Crash(w)
       PROVE Stutter
  <2>1. pc[w] \notin Ended /\ UNCHANGED <<produced, shared, answer>>
    BY <1>11 DEF Acquire, AcquireError, Incr, IncrError, Check, Look, Takeover, Wait, Cancel, Crash
  <2>2. \E p \in {"recheck", "poll", "raised", "operate", "write", "publish", "release", "relook",
                  "wait", "crashed"} : Goto(w, p)
    BY <1>11 DEF Acquire, AcquireError, Incr, IncrError, Check, Unwind, Look, Takeover, Wait, Cancel, Crash
  <2> QED
    BY <1>1, <2>1, <2>2
<1>12. ASSUME NEW w \in Workers, DeadlinePasses(w) PROVE Stutter
  BY <1>12 DEF DeadlinePasses, Answers
<1>13. ASSUME Expire \/ ForgetRow \/ UNCHANGED vars PROVE Stutter
  <2>1. UNCHANGED <<pc, answer, produced, shared>>
    BY <1>13 DEF Expire, ForgetRow, vars
  <2> QED
    BY <2>1 DEF Answers
<1>14. ASSUME NEW w \in Workers, Leader(w) \/ Follower(w)
       PROVE  Abstract!Produce(w) \/ Abstract!ShareLater(w) \/ Abstract!Answer(w) \/ Stutter
  <2> HIDE DEF Stutter
  <2> QED
    BY <1>4, <1>5, <1>6, <1>7, <1>8, <1>9, <1>10, <1>11, <1>14 DEF Leader, Follower
<1> QED
  <2>1. \/ Stutter
        \/ \E w \in Workers : Abstract!Produce(w) \/ Abstract!ShareLater(w) \/ Abstract!Answer(w)
    <3> HIDE DEF Stutter
    <3> QED
      BY <1>11, <1>12, <1>13, <1>14 DEF Next, Step
  <2> QED
    BY <2>1 DEF Abstract!Next, Abstract!vars, Answers

(* Across nodes too the manager keeps the promise of SingleFlight to its   *)
(* callers, whatever lapses, fails or crashes: an answer is the caller's   *)
(* own result or one that a user with write authority has stored.          *)
THEOREM Implements == Spec => ImplementsSingleFlight
<1>1. Init => Abstract!Init
  BY DEF Init, Abstract!Init
<1> QED
  BY <1>1, TypeCorrect, AlwaysShareable, StepRefines, PTL
  DEF Spec, ImplementsSingleFlight, Abstract!Spec

(* The results a call may return. *)
Answered ==
  \A w \in Workers : pc[w] = "returned" => answer[w] \in shared \cup (produced \cap {w})

(* A call that has returned is left alone, and what may be returned stays. *)
LEMMA AnsweredStep == TypeOK /\ Shareable /\ Answered /\ [Next]_vars => Answered'
<1> SUFFICES ASSUME TypeOK, Shareable, Answered, [Next]_vars PROVE Answered'
  OBVIOUS
<1> USE DEF TypeOK, Goto
<1>1. ASSUME NEW w \in Workers, pc[w] \notin Ended, produced \subseteq produced', shared \subseteq shared',
             \A v \in Workers \ {w} : answer'[v] = answer[v],
             \E p \in Points : /\ Goto(w, p)
                               /\ p = "returned" => answer'[w] \in shared' \cup (produced' \cap {w})
      PROVE  Answered'
  BY <1>1 DEF Answered
<1> USE DEF Points, Holding, Following, Ended
<1>2. ASSUME NEW w \in Workers, ReturnRow(w)
      PROVE  answer'[w] \in shared /\ \A v \in Workers \ {w} : answer'[v] = answer[v]
  BY <1>2 DEF ReturnRow, Newest, Shareable
<1>3. ASSUME NEW w \in Workers, FastPath(w) \/ Poll(w) \/ Relook(w) PROVE Answered'
  <2>1. pc[w] \notin Ended /\ UNCHANGED <<produced, shared>>
    BY <1>3 DEF FastPath, Poll, Relook
  <2>2. CASE Goto(w, "returned") /\ ReturnRow(w)
    BY <1>1, <1>2, <2>1, <2>2
  <2>3. CASE UNCHANGED answer /\ \E p \in Points \ {"returned"} : Goto(w, p)
    BY <1>1, <2>1, <2>3
  <2> QED
    BY <1>3, <2>2, <2>3 DEF FastPath, Poll, Relook
<1>4. ASSUME NEW w \in Workers, Recheck(w) \/ Publish(w) PROVE Answered'
  <2>1. \A v \in Workers \ {w} : answer'[v] = answer[v]
    BY <1>2, <1>4 DEF Recheck, Publish
  <2>2. pc[w] \notin Ended /\ UNCHANGED <<produced, shared>>
        /\ \E p \in {"release", "incr", "wait"} : Goto(w, p)
    BY <1>4 DEF Recheck, Publish
  <2> QED
    BY <1>1, <2>1, <2>2
<1>5. ASSUME NEW w \in Workers, Release(w) PROVE Answered'
  <2>1. pc[w] = "release" /\ UNCHANGED <<produced, shared, answer>>
    BY <1>5 DEF Release
  <2>2. CASE end[w] = "return"
    BY <1>1, <1>5, <2>1, <2>2 DEF Release, Shareable
  <2>3. CASE end[w] # "return"
    <3>1. Goto(w, "raised") \/ Goto(w, "wait")
      BY <1>5, <2>3 DEF Release
    <3> QED
      BY <1>1, <2>1, <3>1
  <2> QED
    BY <2>2, <2>3
<1>6. ASSUME NEW w \in Workers, Direct(w) PROVE Answered'
  BY <1>1, <1>6 DEF Direct
<1>7. ASSUME NEW w \in Workers, Operate(w) \/ Write(w) \/ Insert(w) \/ WriteError(w) PROVE Answered'
  <2>1. pc[w] \notin Ended /\ UNCHANGED answer /\ produced \subseteq produced' /\ shared \subseteq shared'
    BY <1>7 DEF Operate, Write, Insert, WriteError, Store
  <2>2. \E p \in {"check", "publish", "insert", "release"} : Goto(w, p)
    BY <1>7 DEF Operate, Write, Insert, WriteError, Unwind
  <2> QED
    BY <1>1, <2>1, <2>2
<1>8. ASSUME NEW w \in Workers, \/ Acquire(w) \/ AcquireError(w) \/ Incr(w) \/ IncrError(w) \/ Check(w)
                                \/ Look(w) \/ Takeover(w) \/ Wait(w) \/ Cancel(w) \/ Crash(w)
      PROVE  Answered'
  <2>1. pc[w] \notin Ended /\ UNCHANGED <<produced, shared, answer>>
    BY <1>8 DEF Acquire, AcquireError, Incr, IncrError, Check, Look, Takeover, Wait, Cancel, Crash
  <2>2. \E p \in {"recheck", "poll", "raised", "operate", "write", "publish", "release", "relook",
                  "wait", "crashed"} : Goto(w, p)
    BY <1>8 DEF Acquire, AcquireError, Incr, IncrError, Check, Unwind, Look, Takeover, Wait, Cancel, Crash
  <2> QED
    BY <1>1, <2>1, <2>2
<1>9. ASSUME UNCHANGED <<pc, answer, produced, shared>> PROVE Answered'
  BY <1>9 DEF Answered
<1>10. ASSUME NEW w \in Workers, DeadlinePasses(w) PROVE Answered'
  BY <1>9, <1>10 DEF DeadlinePasses
<1>11. CASE Expire \/ ForgetRow \/ UNCHANGED vars
  BY <1>9, <1>11 DEF Expire, ForgetRow, vars
<1> QED
  BY <1>3, <1>4, <1>5, <1>6, <1>7, <1>8, <1>10, <1>11 DEF Next, Step, Leader, Follower

(* The refinement leaves calls without an answer open; there are none.  A  *)
(* call that returns has a result that was produced, by its own operation  *)
(* or by that of a user with write authority.                              *)
THEOREM ReturnsResult ==
  Spec => [](\A w \in Workers :
               pc[w] = "returned" => answer[w] \in produced /\ (answer[w] = w \/ answer[w] \in CanWrite))
<1>1. Init => Answered
  BY DEF Init, Answered
<1>2. Shareable /\ Answered =>
        \A w \in Workers :
          pc[w] = "returned" => answer[w] \in produced /\ (answer[w] = w \/ answer[w] \in CanWrite)
  BY DEF Shareable, Answered
<1> QED
  BY <1>1, <1>2, TypeCorrect, AlwaysShareable, AnsweredStep, PTL DEF Spec

---------------------------------------------------------------------------
(* What coalescing costs *)

(* A token is a generation that was issued, or the default 1 that a leader *)
(* keeps when INCR fails; an operation under the lock has one.             *)
GensIssued ==
  /\ \A w \in Workers : ticket[w].gen <= gen \/ ticket[w].gen <= 1
  /\ \A r \in rows : r.gen <= gen \/ r.gen <= 1
  /\ \A w \in Workers : pc[w] \in {"operate", "check", "write", "insert"} => 1 <= ticket[w].gen

(* Every step keeps the tokens among those issued.                         *)
LEMMA GensStep == TypeOK /\ GensIssued /\ [Next]_vars => GensIssued'
<1> SUFFICES ASSUME TypeOK, GensIssued, [Next]_vars PROVE GensIssued'
  OBVIOUS
<1> USE WorkersAssumption DEF TypeOK, Goto
<1>0. (\A w \in Workers : ticket[w].gen \in Nat) /\ (\A r \in rows : r.gen \in Nat)
  BY DEF Ticket, Row
<1>1. ASSUME gen' \in {gen, gen + 1}, \A w \in Workers : ticket'[w].gen = ticket[w].gen,
             \A r \in rows' : (\E s \in rows : r.gen = s.gen) \/ \E w \in Workers : r.gen = ticket[w].gen,
             \A w \in Workers : pc'[w] \in {"operate", "check", "write", "insert"}
                                  => pc[w] \in {"operate", "check", "write", "insert"}
      PROVE  GensIssued'
  <2>1. ASSUME NEW r \in rows' PROVE r.gen <= gen' \/ r.gen <= 1
    <3>1. r.gen \in Nat /\ (r.gen <= gen \/ r.gen <= 1)
      BY <1>0, <1>1 DEF GensIssued
    <3> QED
      BY <1>1, <3>1
  <2>2. \A w \in Workers : ticket'[w].gen <= gen' \/ ticket'[w].gen <= 1
    BY <1>0, <1>1 DEF GensIssued
  <2> QED
    BY <1>1, <2>1, <2>2 DEF GensIssued
<1>2. ASSUME NEW w \in Workers, gen' \in {gen, gen + 1}, UNCHANGED <<ticket, rows>>,
             \/ \E p \in Points : /\ Goto(w, p)
                                  /\ p \in {"check", "write", "insert"} => pc[w] \in {"operate", "check"}
                                  /\ p # "operate"
             \/ UNCHANGED pc
      PROVE  GensIssued'
  BY <1>1, <1>2
<1> USE DEF Points, Holding, Following, Ended
<1>3. ASSUME NEW w \in Workers, Incr(w) \/ IncrError(w) PROVE GensIssued'
  <2>1. gen' \in {gen, gen + 1} /\ rows' = rows /\ pc[w] = "incr"
    BY <1>3 DEF Incr, IncrError, NextGen
  <2>2. \A v \in Workers \ {w} : ticket'[v] = ticket[v] /\ pc'[v] = pc[v]
    BY <1>3 DEF Incr, IncrError
  <2>3. \/ ticket'[w].gen = ticket[w].gen /\ pc'[w] = "wait"
        \/ ticket'[w].gen = 1 /\ pc'[w] = "operate"
        \/ ticket'[w].gen = gen + 1 /\ gen' = gen + 1 /\ pc'[w] = "operate"
    BY <1>3 DEF Incr, IncrError, NextGen, Ticket
  <2>4. \A v \in Workers : ticket'[v].gen <= gen' \/ ticket'[v].gen <= 1
    BY <1>0, <2>1, <2>2, <2>3 DEF GensIssued
  <2>5. \A v \in Workers : pc'[v] \in {"operate", "check", "write", "insert"} => 1 <= ticket'[v].gen
    BY <1>0, <2>2, <2>3 DEF GensIssued
  <2>6. \A r \in rows' : r.gen <= gen' \/ r.gen <= 1
    BY <1>0, <2>1 DEF GensIssued
  <2> QED
    BY <2>4, <2>5, <2>6 DEF GensIssued
<1>4. ASSUME NEW w \in Workers, Acquire(w) \/ AcquireError(w) \/ Takeover(w) PROVE GensIssued'
  <2>1. UNCHANGED <<gen, rows>>
    BY <1>4 DEF Acquire, AcquireError, Takeover
  <2>2. \E p \in {"recheck", "poll", "raised", "wait"} : Goto(w, p)
    BY <1>4 DEF Acquire, AcquireError, Takeover
  <2>3. \A v \in Workers : ticket'[v].gen \in {ticket[v].gen, 0}
    BY <1>4 DEF Acquire, AcquireError, Takeover, TakeLock, NewTicket
  <2>4. \A v \in Workers \ {w} : ticket'[v] = ticket[v] /\ pc'[v] = pc[v]
    BY <1>4 DEF Acquire, AcquireError, Takeover, TakeLock
  <2> QED
    BY <1>0, <2>1, <2>2, <2>3, <2>4 DEF GensIssued
<1>5. ASSUME NEW w \in Workers, Write(w) \/ Insert(w) \/ WriteError(w) PROVE GensIssued'
  <2>1. gen' = gen /\ \A v \in Workers : ticket'[v].gen = ticket[v].gen
    BY <1>5 DEF Write, Insert, WriteError, Ticket
  <2>2. \A r \in rows' : (\E s \in rows : r.gen = s.gen) \/ r.gen = ticket[w].gen
    BY <1>5 DEF Write, Insert, WriteError, Store
  <2>3. pc[w] \in {"write", "insert"} /\ \A v \in Workers \ {w} : pc'[v] = pc[v]
    BY <1>5 DEF Write, Insert, WriteError, Unwind
  <2> QED
    BY <1>1, <2>1, <2>2, <2>3
<1>6. CASE ForgetRow
  <2>1. \A r \in rows' : \E s \in rows : r.gen = s.gen
    BY <1>6 DEF ForgetRow, Row
  <2> QED
    BY <1>1, <1>6, <2>1 DEF ForgetRow
<1>7. CASE Expire \/ UNCHANGED vars
  BY <1>1, <1>7 DEF Expire, vars
<1>8. ASSUME NEW w \in Workers, \/ FastPath(w) \/ Recheck(w) \/ Operate(w) \/ Check(w)
                                \/ Publish(w) \/ Release(w)
      PROVE  GensIssued'
  <2>1. UNCHANGED <<gen, ticket, rows>>
    BY <1>8 DEF FastPath, Recheck, Operate, Check, Publish, Release
  <2>2. \E p \in Points : /\ Goto(w, p)
                          /\ p \in {"check", "write", "insert"} => pc[w] \in {"operate", "check"}
                          /\ p # "operate"
    BY <1>8 DEF FastPath, Recheck, Operate, Check, Unwind, Publish, Release
  <2> QED
    BY <1>2, <2>1, <2>2
<1>9. ASSUME NEW w \in Workers, \/ Poll(w) \/ Direct(w) \/ Look(w) \/ Relook(w) \/ Wait(w)
                                \/ Cancel(w) \/ Crash(w)
      PROVE  GensIssued'
  <2>1. UNCHANGED <<ticket, rows>> /\ gen' \in {gen, gen + 1}
    BY <1>9 DEF Poll, Direct, Look, Relook, Wait, Cancel, Crash
  <2>2. \E p \in {"returned", "raised", "direct", "look", "relook", "wait", "takeover", "poll",
                  "release", "crashed"} : Goto(w, p)
    BY <1>9 DEF Poll, Direct, Look, Relook, Wait, Cancel, Crash
  <2> QED
    BY <1>2, <2>1, <2>2
<1>10. ASSUME NEW w \in Workers, DeadlinePasses(w) PROVE GensIssued'
  BY <1>2, <1>10 DEF DeadlinePasses
<1> QED
  BY <1>3, <1>4, <1>5, <1>6, <1>7, <1>8, <1>9, <1>10 DEF Next, Step, Leader, Follower

(* So they are in every reachable state.                                   *)
LEMMA AlwaysGens == Spec => []GensIssued
<1>1. Init => GensIssued
  BY DEF Init, GensIssued, NewTicket
<1> QED
  BY <1>1, TypeCorrect, GensStep, PTL DEF Spec

(* No row and no kept stamp is ahead of the clock. *)
Stamped ==
  /\ \A r \in rows : r.at <= clock
  /\ \A w \in Workers : ticket[w].at <= clock

(* Every step keeps stamps behind the clock.                               *)
LEMMA StampedStep == TypeOK /\ Stamped /\ [Next]_vars => Stamped'
<1> SUFFICES ASSUME TypeOK, Stamped, [Next]_vars PROVE Stamped'
  OBVIOUS
<1> USE DEF TypeOK
<1>0. (\A w \in Workers : ticket[w].at \in Nat) /\ \A r \in rows : r.at \in Nat
  BY DEF Ticket, Row
<1>1. ASSUME clock' \in {clock, clock + 1},
             \A r \in rows' : r.at = clock' \/ (\E s \in rows : r.at = s.at) \/ \E w \in Workers : r.at = ticket[w].at,
             \A w \in Workers : ticket'[w].at \in {0, ticket[w].at, clock'}
      PROVE  Stamped'
  <2>1. clock <= clock' /\ clock' \in Nat
    BY <1>1
  <2>2. ASSUME NEW r \in rows' PROVE r.at <= clock'
    <3>1. r.at = clock' \/ (r.at \in Nat /\ r.at <= clock)
      BY <1>0, <1>1 DEF Stamped
    <3> QED
      BY <2>1, <3>1
  <2>3. ASSUME NEW w \in Workers PROVE ticket'[w].at <= clock'
    BY <1>0, <1>1, <2>1 DEF Stamped
  <2> QED
    BY <2>2, <2>3 DEF Stamped
<1>2. ASSUME UNCHANGED <<clock, rows, ticket>> PROVE Stamped'
  BY <1>1, <1>2
<1>3. ASSUME NEW w \in Workers, \/ FastPath(w) \/ Recheck(w) \/ Operate(w) \/ Check(w) \/ Publish(w)
                                \/ Release(w)
      PROVE Stamped'
  BY <1>2, <1>3 DEF FastPath, Recheck, Operate, Check, Publish, Release
<1>4. ASSUME NEW w \in Workers, \/ Poll(w) \/ Direct(w) \/ Look(w) \/ Relook(w) \/ Wait(w)
                                \/ DeadlinePasses(w) \/ Cancel(w) \/ Crash(w)
      PROVE Stamped'
  BY <1>2, <1>4 DEF Poll, Direct, Look, Relook, Wait, DeadlinePasses, Cancel, Crash
<1>5. ASSUME NEW w \in Workers, Acquire(w) \/ AcquireError(w) \/ Takeover(w) \/ Incr(w) \/ IncrError(w)
      PROVE Stamped'
  <2>1. UNCHANGED <<clock, rows>>
    BY <1>5 DEF Acquire, AcquireError, Takeover, Incr, IncrError
  <2>2. \A v \in Workers : ticket'[v].at \in {0, ticket[v].at}
    <3>1. ASSUME \E how : TakeLock(w, how) PROVE \A v \in Workers : ticket'[v].at \in {0, ticket[v].at}
      BY <3>1 DEF TakeLock, NewTicket
    <3>2. ASSUME UNCHANGED ticket PROVE \A v \in Workers : ticket'[v].at \in {0, ticket[v].at}
      BY <3>2
    <3>3. ASSUME Incr(w) \/ IncrError(w) PROVE \A v \in Workers : ticket'[v].at \in {0, ticket[v].at}
      BY <3>3 DEF Incr, IncrError, Ticket
    <3> QED
      BY <1>5, <3>1, <3>2, <3>3 DEF Acquire, AcquireError, Takeover
  <2> QED
    BY <1>1, <2>1, <2>2
<1>6. ASSUME NEW w \in Workers, Write(w) \/ Insert(w) \/ WriteError(w) PROVE Stamped'
  <2>1. clock' \in {clock, clock + 1}
    BY <1>6 DEF Write, Insert, WriteError
  <2>2. \A r \in rows' : r.at \in {clock', ticket[w].at} \/ r \in rows
    BY <1>6 DEF Write, Insert, WriteError, Store
  <2>3. \A v \in Workers : ticket'[v].at \in {ticket[v].at, clock'}
    BY <1>6 DEF Write, Insert, WriteError, Ticket
  <2> QED
    BY <1>1, <2>1, <2>2, <2>3
<1>7. CASE ForgetRow
  <2>1. \A r \in rows' : \E s \in rows : r.at = s.at
    BY <1>7 DEF ForgetRow, Row
  <2>2. UNCHANGED <<clock, ticket>>
    BY <1>7 DEF ForgetRow
  <2> QED
    BY <1>1, <2>1, <2>2
<1>8. CASE Expire \/ UNCHANGED vars
  BY <1>2, <1>8 DEF Expire, vars
<1> QED
  BY <1>3, <1>4, <1>5, <1>6, <1>7, <1>8 DEF Next, Step, Leader, Follower

(* So they are in every reachable state.                                   *)
LEMMA AlwaysStamped == Spec => []Stamped
<1>1. Init => Stamped
  BY DEF Init, Stamped, NewTicket
<1> QED
  BY <1>1, TypeCorrect, StampedStep, PTL DEF Spec

(* A nonempty set of numbers has a least one. *)
LEMMA LeastNumber ==
  ASSUME NEW T \in SUBSET Nat, T # {}
  PROVE  \E x \in T : \A y \in T : x <= y
<1> DEFINE R == OpToRel(<, Nat)
<1>1. \A x, y \in Nat : x < y => <<x, y>> \in R
  BY DEF OpToRel
<1>2. IsWellFoundedOn(R, Nat)
  BY NatLessThanWellFounded
<1> HIDE DEF R
<1>3. PICK x \in T : \A y \in T : ~ (<<y, x>> \in R)
  BY <1>2, WFMin
<1>4. \A y \in T : ~ (y < x)
  BY <1>1, <1>3
<1> QED
  BY <1>4

(* A lookup misses only when no row is live: among the live ones, one is   *)
(* the least behind the clock.                                             *)
LEMMA HitOrMiss ==
  ASSUME TypeOK, Stamped, NEW r \in rows, r.state = "live"
  PROVE  Newest # {}
<1> DEFINE Behind == {k \in Nat : \E s \in rows : s.state = "live" /\ s.at + k = clock}
<1>1. \A s \in rows : s.at \in Nat /\ s.at <= clock /\ clock - s.at \in Nat
  BY DEF TypeOK, Row, Stamped
<1>2. clock - r.at \in Behind
  BY <1>1 DEF TypeOK
<1>3. \A s \in rows : s.state = "live" => clock - s.at \in Behind
  BY <1>1 DEF TypeOK
<1>4. PICK k \in Behind : \A j \in Behind : k <= j
  <2>1. Behind \in SUBSET Nat /\ Behind # {}
    BY <1>2
  <2> HIDE DEF Behind
  <2> QED
    BY <2>1, LeastNumber
<1>5. PICK s \in rows : s.state = "live" /\ s.at + k = clock
  OBVIOUS
<1>6. ASSUME NEW t \in rows, t.state = "live" PROVE t.at <= s.at
  <2>1. k <= clock - t.at
    BY <1>3, <1>4, <1>6
  <2> QED
    BY <1>1, <1>5, <2>1 DEF TypeOK
<1> QED
  BY <1>5, <1>6 DEF Newest

(* The budget of ExecutionsAccounted.  A row, or a leader about to store   *)
(* one with the newest generation, keeps everybody else from starting an   *)
(* operation; without either, or with a leader between its lookup and its  *)
(* INCR, there is room for one.                                            *)
Executing == {"operate", "check", "write", "insert"}
Promising(w) == pc[w] \in Executing /\ w \notin lapsed /\ w \in CanWrite /\ gen <= ticket[w].gen
HasLive == \E r \in rows : r.state = "live"
Covered == HasLive \/ \E w \in Workers : Promising(w)
Starting(w) == pc[w] = "incr" /\ w \notin lapsed
SlotOpen == ~ Covered \/ \E w \in Workers : Starting(w)

(* Those who may yet start one on top of that: a leader that lost the lock *)
(* before its INCR (its operation, and the one of the leader whose token   *)
(* it makes stale), a late follower, a user without write authority.       *)
Strays == {w \in lapsed : pc[w] \in {"recheck", "incr"}}
Lates == {w \in late : pc[w] \notin {"direct"} \cup Ended}
Barred == {w \in Workers \ CanWrite :
             \/ pc[w] \in {"fast", "acquire", "recheck", "incr"} \cup Following
             \/ pc[w] = "release" /\ end[w] = "retry"}

CallsPaid ==
  execs + (IF SlotOpen THEN 1 ELSE 0) + 2 * Cardinality(Strays) + Cardinality(Lates)
    + Cardinality(Barred)
  <= 1 + 2 * faults + Cardinality(late) + Cardinality(Workers \ CanWrite)

(* Who may yet start an operation, across a step of w: nobody joins but by *)
(* a fault, and then only w itself, barred from writing.                   *)
LEMMA CreditsMove ==
  ASSUME TypeOK, NEW w \in Workers, Step(w) \/ Cancel(w) \/ Crash(w)
  PROVE  /\ Strays' \subseteq Strays /\ Lates' \subseteq Lates /\ late' = late
         /\ Barred' \subseteq Barred \cup {w}
         /\ NoFault => Barred' \subseteq Barred
<1> USE WorkersAssumption DEF TypeOK, Goto
<1> DEFINE Idle == Ended \cup {"direct"}
<1> DEFINE Zone == {"fast", "acquire", "recheck", "incr"} \cup Following
<1>1. ASSUME late' = late, lapsed' \subseteq lapsed,
             \A v \in Workers \ {w} : pc'[v] = pc[v] /\ end'[v] = end[v],
             pc'[w] \in {"recheck", "incr"} /\ w \in lapsed' => pc[w] \in {"recheck", "incr"},
             pc[w] \notin Idle \/ pc'[w] \in Idle,
             NoFault /\ (pc'[w] \in Zone \/ (pc'[w] = "release" /\ end'[w] = "retry"))
               => pc[w] \in Zone \/ (pc[w] = "release" /\ end[w] = "retry")
      PROVE  /\ Strays' \subseteq Strays /\ Lates' \subseteq Lates /\ late' = late
             /\ Barred' \subseteq Barred \cup {w}
             /\ NoFault => Barred' \subseteq Barred
  <2>1. Strays' \subseteq Strays
    BY <1>1 DEF Strays
  <2>2. Lates' \subseteq Lates
    BY <1>1 DEF Lates
  <2>3. Barred' \subseteq Barred \cup {w}
    BY <1>1 DEF Barred
  <2>4. NoFault => Barred' \subseteq Barred
    BY <1>1 DEF Barred
  <2> QED
    BY <1>1, <2>1, <2>2, <2>3, <2>4
<1> USE DEF Points, Holding, Following, Ended
<1>2. CASE FastPath(w) \/ Poll(w) \/ Relook(w) \/ Look(w) \/ Wait(w) \/ Direct(w) \/ Crash(w)
  BY <1>1, <1>2 DEF FastPath, Poll, Relook, Look, Wait, Direct, Crash
<1>3. CASE Acquire(w) \/ AcquireError(w) \/ Takeover(w)
  <2>1. UNCHANGED <<late, end>> /\ pc[w] \in {"acquire", "takeover"}
        /\ \E p \in {"recheck", "poll", "raised", "wait"} : Goto(w, p)
    BY <1>3 DEF Acquire, AcquireError, Takeover
  <2>2. lapsed' \subseteq lapsed /\ (pc'[w] = "recheck" => w \notin lapsed')
    BY <1>3 DEF Acquire, AcquireError, Takeover, TakeLock
  <2> QED
    BY <1>1, <2>1, <2>2
<1>4. CASE Recheck(w)
  BY <1>1, <1>4 DEF Recheck, Fault, NoFault
<1>5. CASE Incr(w) \/ IncrError(w)
  BY <1>1, <1>5 DEF Incr, IncrError
<1>6. CASE Operate(w) \/ Check(w) \/ WriteError(w)
  <2>1. UNCHANGED <<late, lapsed>> /\ pc[w] \in {"operate", "check", "write", "insert"}
    BY <1>6 DEF Operate, Check, WriteError
  <2>2. \E p \in {"check", "write", "publish", "release"} : Goto(w, p)
    BY <1>6 DEF Operate, Check, WriteError, Unwind
  <2>3. \A v \in Workers \ {w} : end'[v] = end[v]
    BY <1>6 DEF Operate, Check, WriteError, Unwind
  <2>4. pc'[w] = "release" => ~ NoFault
    BY <1>6, <2>2 DEF Operate, Check, WriteError, Unwind, Fault, NoFault
  <2> QED
    BY <1>1, <2>1, <2>2, <2>3, <2>4
<1>7. CASE Write(w) \/ Insert(w) \/ Publish(w)
  BY <1>1, <1>7 DEF Write, Insert, Publish
<1>8. CASE Release(w)
  BY <1>1, <1>8 DEF Release
<1>9. CASE Cancel(w)
  BY <1>1, <1>9 DEF Cancel
<1> QED
  BY <1>2, <1>3, <1>4, <1>5, <1>6, <1>7, <1>8, <1>9 DEF Step, Leader, Follower

(* Without a fault no step but an INCR makes room for an operation: a      *)
(* promise is kept (the write of the newest generation is accepted), and   *)
(* a leader that finds no row is the only one with the lock.               *)
LEMMA SlotKept ==
  ASSUME TypeOK, HeldUntilLapse, GensIssued, Stamped,
         NEW w \in Workers, Step(w), ~ Incr(w), NoFault
  PROVE  SlotOpen' => SlotOpen
<1> USE WorkersAssumption DEF TypeOK, Goto, NoFault
<1>1. ASSUME gen' = gen, rows \subseteq rows', lapsed' \ {w} = lapsed \ {w},
             \A v \in Workers \ {w} : pc'[v] = pc[v] /\ ticket'[v] = ticket[v],
             Promising(w) => Promising(w)' \/ HasLive',
             Starting(w)' => SlotOpen
      PROVE  SlotOpen' => SlotOpen
  <2>1. Covered => Covered'
    <3>1. HasLive => HasLive'
      BY <1>1 DEF HasLive
    <3>2. \A v \in Workers \ {w} : Promising(v) => Promising(v)'
      BY <1>1 DEF Promising
    <3> QED
      BY <1>1, <3>1, <3>2 DEF Covered
  <2>2. \A v \in Workers \ {w} : Starting(v)' => Starting(v)
    BY <1>1 DEF Starting
  <2> QED
    BY <1>1, <2>1, <2>2 DEF SlotOpen
<1> USE DEF Points, Holding, Following, Ended
(* A step of a worker that had promised nothing, and does not start.       *)
<1>3. ASSUME gen' = gen, rows' = rows, lapsed' \ {w} = lapsed \ {w},
             \A v \in Workers \ {w} : ticket'[v] = ticket[v],
             pc[w] \notin Executing, \E p \in Points \ {"incr"} : Goto(w, p)
      PROVE  SlotOpen' => SlotOpen
  BY <1>1, <1>3 DEF Promising, Starting
<1>4. CASE FastPath(w) \/ Publish(w) \/ Release(w) \/ Poll(w) \/ Direct(w) \/ Look(w) \/ Relook(w) \/ Wait(w)
  <2>1. UNCHANGED <<gen, rows, lapsed, ticket>> /\ pc[w] \notin Executing
    BY <1>4 DEF FastPath, Publish, Release, Poll, Direct, Look, Relook, Wait, Executing
  <2>2. \E p \in {"returned", "acquire", "release", "raised", "wait", "direct", "look", "relook",
                  "takeover", "poll"} : Goto(w, p)
    BY <1>4 DEF FastPath, Publish, Release, Poll, Direct, Look, Relook, Wait
  <2> QED
    BY <1>3, <2>1, <2>2
<1>5. CASE Acquire(w) \/ AcquireError(w) \/ Takeover(w)
  <2>1. UNCHANGED <<gen, rows>> /\ pc[w] \notin Executing
    BY <1>5 DEF Acquire, AcquireError, Takeover, Executing
  <2>2. \E p \in {"recheck", "poll", "raised", "wait"} : Goto(w, p)
    BY <1>5 DEF Acquire, AcquireError, Takeover
  <2>3. lapsed' \ {w} = lapsed \ {w} /\ \A v \in Workers \ {w} : ticket'[v] = ticket[v]
    BY <1>5 DEF Acquire, AcquireError, Takeover, TakeLock
  <2> QED
    BY <1>3, <2>1, <2>2, <2>3
<1>6. CASE Recheck(w)
  <2>1. UNCHANGED <<gen, rows, lapsed, ticket>> /\ pc[w] = "recheck"
    BY <1>6 DEF Recheck
  <2>2. CASE Goto(w, "release")
    BY <1>3, <2>1, <2>2 DEF Executing
  <2>3. CASE Goto(w, "incr") /\ Newest = {}
    <3>1. Starting(w)' => SlotOpen
      <4> SUFFICES ASSUME w \notin lapsed PROVE ~ Covered
        BY <2>1 DEF Starting, SlotOpen
      <4>1. ~ HasLive
        BY <2>3, HitOrMiss DEF HasLive
      <4>2. \A v \in Workers : ~ Promising(v)
        BY <2>1 DEF Promising, Executing, HeldUntilLapse
      <4> QED
        BY <4>1, <4>2 DEF Covered
    <3>2. ~ Promising(w) /\ \A v \in Workers \ {w} : pc'[v] = pc[v]
      BY <2>1, <2>3 DEF Promising, Executing
    <3> QED
      BY <1>1, <2>1, <3>1, <3>2
  <2> QED
    BY <1>6, <2>2, <2>3 DEF Recheck, Fault
<1>7. CASE IncrError(w)
  BY <1>7 DEF IncrError, Fault
<1>8. CASE Operate(w) \/ Check(w)
  <2>1. UNCHANGED <<gen, rows, lapsed, ticket>> /\ pc[w] \in {"operate", "check"}
        /\ \A v \in Workers \ {w} : pc'[v] = pc[v]
    BY <1>8 DEF Operate, Check, Unwind
  <2>2. \/ pc'[w] = "check"
        \/ pc'[w] = (IF gen > ticket[w].gen THEN "publish" ELSE "write")
    BY <1>8 DEF Operate, Check, Unwind, Fault
  <2>3. ticket[w].gen \in Nat
    BY DEF Ticket
  <2>4. Promising(w) => Promising(w)'
    BY <2>1, <2>2, <2>3 DEF Promising, Executing
  <2> QED
    BY <1>1, <2>1, <2>2, <2>4 DEF Starting
<1>9. ASSUME Store(w) PROVE HasLive' /\ rows \subseteq rows'
  <2>1. \E r : r.state = "live" /\ rows' = rows \cup {r}
    BY <1>9 DEF Store
  <2> QED
    BY <2>1 DEF HasLive
<1>10. CASE Write(w)
  <2>1. UNCHANGED <<gen, lapsed>> /\ \A v \in Workers \ {w} : pc'[v] = pc[v] /\ ticket'[v] = ticket[v]
    BY <1>10 DEF Write
  <2>2. Promising(w) => MayWrite(w) /\ Accepts(ticket[w].gen)
    <3> SUFFICES ASSUME Promising(w) PROVE \A r \in rows : r.gen <= ticket[w].gen
      BY DEF Promising, MayWrite, Accepts
    <3>1. gen <= ticket[w].gen /\ 1 <= ticket[w].gen /\ ticket[w].gen \in Nat
      BY <1>10 DEF Write, Promising, GensIssued, Ticket
    <3> QED
      BY <3>1 DEF GensIssued, Row
  <2>3. rows \subseteq rows' /\ (Promising(w) => Promising(w)' \/ HasLive')
    <3>1. CASE ~ Promising(w) /\ UNCHANGED rows
      BY <3>1
    <3>3. CASE UNCHANGED rows /\ Goto(w, "insert") /\ ticket' = [ticket EXCEPT ![w].at = clock + 1]
      <4>1. ticket'[w].gen = ticket[w].gen
        BY <3>3 DEF Ticket
      <4> QED
        BY <2>1, <3>3, <4>1 DEF Promising, Executing
    <3> QED
      BY <1>10, <2>2, <3>1, <3>3 DEF Write
  <2>4. pc'[w] # "incr"
    BY <1>10 DEF Write
  <2> QED
    BY <1>1, <2>1, <2>3, <2>4 DEF Starting
<1>11. CASE Insert(w)
  <2>1. UNCHANGED <<gen, lapsed, ticket>> /\ pc'[w] # "incr" /\ \A v \in Workers \ {w} : pc'[v] = pc[v]
    BY <1>11 DEF Insert
  <2>2. HasLive' /\ rows \subseteq rows'
    BY <1>9, <1>11 DEF Insert
  <2> QED
    BY <1>1, <2>1, <2>2 DEF Starting
<1>12. CASE WriteError(w)
  BY <1>12 DEF WriteError, Fault
<1> QED
  BY <1>4, <1>5, <1>6, <1>7, <1>8, <1>10, <1>11, <1>12 DEF Step, Leader, Follower

(* The size of a set that has lost members, or gained one. *)
LEMMA SizeMoves ==
  ASSUME NEW S, NEW T, IsFiniteSet(S)
  PROVE  /\ Cardinality(S) \in Nat
         /\ T \subseteq S => Cardinality(T) \in Nat /\ Cardinality(T) <= Cardinality(S)
         /\ \A x \in S : T \subseteq S \ {x} => Cardinality(T) + 1 <= Cardinality(S)
         /\ \A x : T \subseteq S \cup {x} => Cardinality(T) \in Nat /\ Cardinality(T) <= Cardinality(S) + 1
<1>0. Cardinality(S) \in Nat
  BY FS_CardinalityType
<1>1. T \subseteq S => Cardinality(T) \in Nat /\ Cardinality(T) <= Cardinality(S)
  BY FS_Subset, FS_CardinalityType
<1>2. ASSUME NEW x \in S, T \subseteq S \ {x} PROVE Cardinality(T) + 1 <= Cardinality(S)
  <2>1. IsFiniteSet(S \ {x}) /\ Cardinality(S \ {x}) = Cardinality(S) - 1
    BY FS_RemoveElement
  <2>2. IsFiniteSet(T) /\ Cardinality(T) <= Cardinality(S \ {x})
    BY <1>2, <2>1, FS_Subset
  <2> QED
    BY <1>0, <2>1, <2>2, FS_CardinalityType
<1>3. ASSUME NEW x, T \subseteq S \cup {x}
      PROVE  Cardinality(T) \in Nat /\ Cardinality(T) <= Cardinality(S) + 1
  <2>1. IsFiniteSet(S \cup {x})
        /\ Cardinality(S \cup {x}) = IF x \in S THEN Cardinality(S) ELSE Cardinality(S) + 1
    BY FS_AddElement, Zenon
  <2>2. IsFiniteSet(T) /\ Cardinality(T) <= Cardinality(S \cup {x})
    BY <1>3, <2>1, FS_Subset
  <2> QED
    BY <1>0, <2>1, <2>2, FS_CardinalityType
<1> QED
  BY <1>0, <1>1, <1>2, <1>3

(* Every step keeps within the budget.                                     *)
LEMMA CallsPaidStep ==
  ASSUME IsFiniteSet(Workers), TypeOK, HeldUntilLapse, GensIssued, Stamped, CallsPaid, [Next]_vars
  PROVE  CallsPaid'
<1> USE WorkersAssumption DEF TypeOK, Goto
<1>0. /\ IsFiniteSet(Strays) /\ IsFiniteSet(Lates) /\ IsFiniteSet(Barred) /\ IsFiniteSet(late)
      /\ IsFiniteSet(Workers \ CanWrite)
      /\ execs \in Nat /\ faults \in Nat /\ Cardinality(Workers \ CanWrite) \in Nat
  <2>1. Strays \subseteq Workers /\ Lates \subseteq Workers /\ Barred \subseteq Workers
    BY DEF Strays, Lates, Barred
  <2> QED
    BY <2>1, FS_Subset, FS_CardinalityType
<1>a. /\ Cardinality(Strays) \in Nat /\ Cardinality(Lates) \in Nat
      /\ Cardinality(Barred) \in Nat /\ Cardinality(late) \in Nat
  BY <1>0, FS_CardinalityType
<1> DEFINE Fewer == Strays' \subseteq Strays /\ Lates' \subseteq Lates /\ late' = late
(* Nothing is spent and nothing is owed. *)
<1>1. ASSUME Fewer, Barred' \subseteq Barred, SlotOpen' => SlotOpen, execs' = execs, faults' = faults
      PROVE  CallsPaid'
  <2>1. /\ Cardinality(Strays)' \in Nat /\ Cardinality(Strays)' <= Cardinality(Strays)
        /\ Cardinality(Lates)' \in Nat /\ Cardinality(Lates)' <= Cardinality(Lates)
        /\ Cardinality(Barred)' \in Nat /\ Cardinality(Barred)' <= Cardinality(Barred)
        /\ Cardinality(late)' = Cardinality(late)
    BY <1>0, <1>1, SizeMoves
  <2> QED
    BY <1>0, <1>a, <1>1, <2>1 DEF CallsPaid
(* A fault pays for an operation, or a worker that may start one, and the  *)
(* room it makes for another.                                              *)
<1>2. ASSUME NEW w, Fewer, faults' = faults + 1,
             \/ Barred' \subseteq Barred \cup {w} /\ execs' = execs
             \/ Barred' \subseteq Barred /\ execs' = execs + 1
      PROVE  CallsPaid'
  <2>1. /\ Cardinality(Strays)' \in Nat /\ Cardinality(Strays)' <= Cardinality(Strays)
        /\ Cardinality(Lates)' \in Nat /\ Cardinality(Lates)' <= Cardinality(Lates)
        /\ Cardinality(Barred)' \in Nat
        /\ Cardinality(late)' = Cardinality(late)
    BY <1>0, <1>2, SizeMoves
  <2>2. \/ Cardinality(Barred)' <= Cardinality(Barred) + 1 /\ execs' = execs
        \/ Cardinality(Barred)' <= Cardinality(Barred) /\ execs' = execs + 1
    BY <1>0, <1>2, SizeMoves
  <2> QED
    BY <1>0, <1>a, <1>2, <2>1, <2>2 DEF CallsPaid
(* A lock that lapses before the INCR pays for the stray it makes.         *)
<1>3. ASSUME NEW w, Strays' \subseteq Strays \cup {w}, Lates' = Lates, Barred' = Barred, late' = late,
             SlotOpen' => SlotOpen, faults' = faults + 1, execs' = execs
      PROVE  CallsPaid'
  <2>1. Cardinality(Strays)' \in Nat /\ Cardinality(Strays)' <= Cardinality(Strays) + 1
    BY <1>0, <1>3, SizeMoves
  <2>2. /\ Cardinality(Lates)' = Cardinality(Lates) /\ Cardinality(Barred)' = Cardinality(Barred)
        /\ Cardinality(late)' = Cardinality(late)
    BY <1>3
  <2> QED
    BY <1>0, <1>a, <1>3, <2>1, <2>2 DEF CallsPaid
(* An operation that uses the room there was, or a right to one.           *)
<1>4. ASSUME NEW w, Fewer, Barred' \subseteq Barred, faults' = faults, execs' = execs + 1,
             \/ SlotOpen /\ ~ SlotOpen'
             \/ w \in Barred /\ w \notin Barred' /\ SlotOpen
             \/ w \in Strays /\ w \notin Strays'
             \/ w \in Lates /\ w \notin Lates' /\ (SlotOpen' => SlotOpen)
      PROVE  CallsPaid'
  <2>1. /\ Cardinality(Strays)' \in Nat /\ Cardinality(Strays)' <= Cardinality(Strays)
        /\ Cardinality(Lates)' \in Nat /\ Cardinality(Lates)' <= Cardinality(Lates)
        /\ Cardinality(Barred)' \in Nat /\ Cardinality(Barred)' <= Cardinality(Barred)
        /\ Cardinality(late)' = Cardinality(late)
    BY <1>0, <1>4, SizeMoves
  <2>2. /\ w \in Strays /\ w \notin Strays' => Cardinality(Strays)' + 1 <= Cardinality(Strays)
        /\ w \in Lates /\ w \notin Lates' => Cardinality(Lates)' + 1 <= Cardinality(Lates)
        /\ w \in Barred /\ w \notin Barred' => Cardinality(Barred)' + 1 <= Cardinality(Barred)
    <3>1. /\ w \notin Strays' => Strays' \subseteq Strays \ {w}
          /\ w \notin Lates' => Lates' \subseteq Lates \ {w}
          /\ w \notin Barred' => Barred' \subseteq Barred \ {w}
      BY <1>4
    <3> QED
      BY <1>0, <3>1, SizeMoves
  <2> QED
    BY <1>0, <1>a, <1>4, <2>1, <2>2 DEF CallsPaid
(* A follower past its deadline may run the operation by itself.           *)
<1>5. ASSUME NEW w \in Workers, DeadlinePasses(w) PROVE CallsPaid'
  <2>1. /\ Strays' = Strays /\ Barred' = Barred /\ Lates' \subseteq Lates \cup {w} /\ late' = late \cup {w}
        /\ w \notin late /\ UNCHANGED <<execs, faults>> /\ (SlotOpen' <=> SlotOpen)
    <3>1. UNCHANGED <<pc, lapsed, end, rows, ticket, gen, execs, faults>>
          /\ late' = late \cup {w} /\ w \notin late
      BY <1>5 DEF DeadlinePasses
    <3> QED
      BY <3>1 DEF Strays, Barred, Lates, SlotOpen, Covered, HasLive, Promising, Starting
  <2>2. Cardinality(late)' = Cardinality(late) + 1
    BY <1>0, <2>1, FS_AddElement
  <2>3. Cardinality(Lates)' \in Nat /\ Cardinality(Lates)' <= Cardinality(Lates) + 1
    BY <1>0, <2>1, SizeMoves
  <2>4. Cardinality(Strays)' = Cardinality(Strays) /\ Cardinality(Barred)' = Cardinality(Barred)
    BY <2>1
  <2> QED
    BY <1>0, <1>a, <2>1, <2>2, <2>3, <2>4 DEF CallsPaid
<1>6. CASE ForgetRow
  <2>1. UNCHANGED <<pc, lapsed, end, late, execs>> /\ faults' = faults + 1
    BY <1>6 DEF ForgetRow, Fault
  <2>2. Fewer /\ Barred' \subseteq Barred
    BY <2>1 DEF Strays, Lates, Barred
  <2> QED
    BY <1>2, <2>1, <2>2
<1>7. CASE Expire
  <2>1. UNCHANGED <<pc, rows, ticket, gen, end, late, execs>> /\ Lates' = Lates /\ Barred' = Barred
    BY <1>7 DEF Expire, Lates, Barred
  <2>2. CASE pc[lock] \notin Holding
    <3>1. UNCHANGED <<lapsed, faults>>
      BY <1>7, <2>2 DEF Expire, NoFault
    <3>2. Strays' = Strays /\ (SlotOpen' <=> SlotOpen)
      BY <2>1, <3>1 DEF Strays, SlotOpen, Covered, HasLive, Promising, Starting
    <3> QED
      BY <1>1, <2>1, <3>1, <3>2
  <2>3. CASE pc[lock] \in Holding \ {"recheck", "incr"}
    <3>1. lapsed' = lapsed \cup {lock} /\ faults' = faults + 1
      BY <1>7, <2>3 DEF Expire, Fault
    <3>2. Strays' \subseteq Strays
      BY <2>1, <2>3, <3>1 DEF Strays
    <3> QED
      BY <1>2, <2>1, <3>1, <3>2
  <2>4. CASE pc[lock] \in {"recheck", "incr"}
    <3>1. lapsed' = lapsed \cup {lock} /\ faults' = faults + 1
      BY <1>7, <2>4 DEF Expire, Fault, Holding
    <3>2. Strays' \subseteq Strays \cup {lock}
      BY <2>1, <3>1 DEF Strays
    <3>3. \A v \in Workers : Promising(v) => Promising(v)'
      BY <2>1, <2>4, <3>1 DEF Promising, Executing
    <3>4. SlotOpen' => SlotOpen
      BY <2>1, <3>1, <3>3 DEF SlotOpen, Covered, HasLive, Starting
    <3> QED
      BY <1>3, <2>1, <3>1, <3>2, <3>4
  <2> QED
    BY <2>2, <2>3, <2>4 DEF Holding
<1>8. CASE UNCHANGED vars
  <2>1. UNCHANGED <<pc, lapsed, rows, ticket, gen, end, late, execs, faults>>
    BY <1>8 DEF vars
  <2>2. /\ Strays' = Strays /\ Lates' = Lates /\ Barred' = Barred /\ (SlotOpen' <=> SlotOpen)
    BY <2>1 DEF Strays, Lates, Barred, SlotOpen, Covered, HasLive, Promising, Starting
  <2> QED
    BY <1>1, <2>1, <2>2
<1> HIDE DEF Fewer
<1>9. ASSUME NEW w \in Workers, Step(w) \/ Cancel(w) \/ Crash(w) PROVE CallsPaid'
  <2>1. /\ Fewer /\ Barred' \subseteq Barred \cup {w}
        /\ faults' = faults => Barred' \subseteq Barred
    BY <1>9, CreditsMove DEF Fewer, NoFault
  <2>2. CASE Incr(w)
    <3>1. /\ execs' = execs + 1 /\ faults' = faults /\ lapsed' = lapsed /\ gen' = gen + 1 /\ rows' = rows
          /\ pc[w] = "incr" /\ pc'[w] = "operate" /\ ticket'[w].gen = gen + 1
          /\ \A v \in Workers \ {w} : pc'[v] = pc[v]
      BY <2>2 DEF Incr, NextGen, Ticket
    <3>2. CASE w \in lapsed
      <4>1. w \in Strays /\ w \notin Strays'
        BY <3>1, <3>2 DEF Strays
      <4> QED
        BY <1>4, <2>1, <3>1, <4>1
    <3>3. CASE w \notin lapsed /\ w \notin CanWrite
      <4>1. w \in Barred /\ w \notin Barred' /\ SlotOpen
        BY <3>1, <3>3 DEF Barred, Following, SlotOpen, Starting
      <4> QED
        BY <1>4, <2>1, <3>1, <4>1
    <3>4. CASE w \notin lapsed /\ w \in CanWrite
      <4>1. SlotOpen
        BY <3>1, <3>4 DEF SlotOpen, Starting
      <4>2. Promising(w)'
        BY <3>1, <3>4 DEF Promising, Executing
      <4>3. \A v \in Workers : ~ Starting(v)'
        BY <3>1, <3>4 DEF Starting, HeldUntilLapse, Holding
      <4>4. ~ SlotOpen'
        BY <4>2, <4>3 DEF SlotOpen, Covered
      <4> QED
        BY <1>4, <2>1, <3>1, <4>1, <4>4
    <3> QED
      BY <3>2, <3>3, <3>4
  <2>3. CASE Poll(w) /\ execs' # execs
    <3>1. /\ w \in late /\ pc[w] = "poll" /\ pc'[w] = "direct" /\ execs' = execs + 1 /\ faults' = faults
      BY <2>3 DEF Poll, NoFault
    <3>2. w \in Lates /\ w \notin Lates'
      BY <3>1 DEF Lates, Ended
    <3>3. SlotOpen' => SlotOpen
      BY <2>3, <3>1, SlotKept DEF NoFault, Step, Follower, Incr
    <3> QED
      BY <1>4, <2>1, <3>1, <3>2, <3>3
  <2>4. CASE IncrError(w)
    <3>1. faults' = faults + 1 /\ pc[w] = "incr"
      BY <2>4 DEF IncrError, Fault
    <3>2. execs' = execs \/ (execs' = execs + 1 /\ pc'[w] = "operate")
      BY <2>4 DEF IncrError
    <3>3. pc'[w] = "operate" => Barred' \subseteq Barred
      <4>1. pc'[w] = "operate" => w \notin Barred'
        BY DEF Barred, Following
      <4> QED
        BY <2>1, <4>1
    <3> QED
      BY <1>2, <2>1, <3>1, <3>2, <3>3
  <2>5. ASSUME ~ Incr(w), ~ IncrError(w), ~ (Poll(w) /\ execs' # execs) PROVE CallsPaid'
    <3>1. execs' = execs
      BY <1>9, <2>5 DEF Step, Leader, Follower, FastPath, Acquire, AcquireError, Recheck, Operate, Check,
         Write, Insert, WriteError, Publish, Release, Direct, Look, Relook, Takeover, Wait, Cancel, Crash
    <3>2. faults' = faults \/ faults' = faults + 1
      BY <1>9, <2>5 DEF Step, Leader, Follower, FastPath, Acquire, AcquireError, Recheck, Operate, Check,
         Write, Insert, WriteError, Publish, Release, Poll, Direct, Look, Relook, Takeover, Wait, Cancel,
         Crash, Fault, NoFault
    <3>3. CASE faults' = faults + 1
      BY <1>2, <2>1, <3>1, <3>3
    <3>4. CASE faults' = faults
      <4>1. Step(w)
        BY <1>9, <3>4 DEF Cancel, Crash, Fault
      <4>2. SlotOpen' => SlotOpen
        BY <2>5, <3>4, <4>1, SlotKept DEF NoFault
      <4> QED
        BY <1>1, <2>1, <3>1, <3>4, <4>2
    <3> QED
      BY <3>2, <3>3, <3>4
  <2> QED
    BY <2>2, <2>3, <2>4, <2>5
<1> QED
  BY <1>5, <1>6, <1>7, <1>8, <1>9 DEF Next

(* Coalescing, with its price: whatever lapses, fails or crashes, every    *)
(* LLM call beyond the first is accounted for by a fault (two calls each), *)
(* a follower that waited too long, or a user without write authority.     *)
THEOREM CallsBounded ==
  ASSUME IsFiniteSet(Workers)
  PROVE  Spec => []ExecutionsAccounted
<1>1. Init => CallsPaid
  <2> SUFFICES ASSUME Init PROVE CallsPaid
    OBVIOUS
  <2>1. Strays = {} /\ Lates = {} /\ late = {} /\ execs = 0 /\ faults = 0
    BY DEF Init, Strays, Lates
  <2>2. Barred \subseteq Workers \ CanWrite /\ IsFiniteSet(Workers \ CanWrite)
    BY FS_Subset DEF Barred
  <2>3. Cardinality(Barred) <= Cardinality(Workers \ CanWrite)
        /\ Cardinality(Barred) \in Nat /\ Cardinality(Workers \ CanWrite) \in Nat
    BY <2>2, FS_Subset, FS_CardinalityType
  <2>4. Cardinality({}) = 0
    BY FS_EmptySet
  <2> QED
    BY <2>1, <2>3, <2>4 DEF CallsPaid
<1>2. TypeOK /\ HeldUntilLapse /\ GensIssued /\ Stamped /\ CallsPaid /\ [Next]_vars => CallsPaid'
  BY CallsPaidStep
<1>3. TypeOK /\ CallsPaid => ExecutionsAccounted
  <2> SUFFICES ASSUME TypeOK, CallsPaid PROVE ExecutionsAccounted
    OBVIOUS
  <2>1. /\ IsFiniteSet(Strays) /\ IsFiniteSet(Lates) /\ IsFiniteSet(Barred)
        /\ IsFiniteSet(late) /\ IsFiniteSet(Workers \ CanWrite)
    <3>1. Strays \subseteq Workers /\ Lates \subseteq Workers /\ Barred \subseteq Workers
      BY DEF Strays, Lates, Barred, TypeOK
    <3> QED
      BY <3>1, FS_Subset DEF TypeOK
  <2>2. /\ Cardinality(Strays) \in Nat /\ Cardinality(Lates) \in Nat /\ Cardinality(Barred) \in Nat
        /\ Cardinality(late) \in Nat /\ Cardinality(Workers \ CanWrite) \in Nat
    BY <2>1, FS_CardinalityType
  <2> QED
    BY <2>2 DEF CallsPaid, ExecutionsAccounted, TypeOK
<1> QED
  BY <1>1, <1>2, <1>3, TypeCorrect, MutualExclusion, AlwaysGens, AlwaysStamped, PTL DEF Spec
============================================================================
