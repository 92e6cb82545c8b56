--------------------------- MODULE FeedbackProofs ---------------------------
(***************************************************************************)
(* Proofs about Feedback, for any processes, entries and queries, however  *)
(* many reports, crashes and timeouts there are.                                     *)
(***************************************************************************)
EXTENDS Feedback, FiniteSetTheorems, TLAPS

\* What a process has in hand at each statement.
Prepared ==
    \A p \in Processes :
      /\ pc[p] \in {"recheck", "insert", "count", "pair"} =>
           /\ op[p].kind \in Kinds /\ op[p].lookup \in Queries
           /\ of[op[p].lookup] \in Entries
      /\ op[p].kind = "implicit" => op[p].query \in Queries
      /\ pc[p] \in {"find", "search", "update", "record"} => op[p].kind = "implicit"
      /\ pc[p] \in {"update", "record"} => op[p].entry \in Entries

\* The log holds queries with an entry.
Logged == \A i \in DOMAIN log : of[log[i]] \in Entries

Typed == TypeOK /\ Prepared /\ Logged

Operations == [kind   : Kinds \cup {"none"},
               query  : Queries \cup {None},
               lookup : Queries \cup {None},
               entry  : Entries \cup {None}]

-----------------------------------------------------------------------------
(* Types.                                                                  *)

\* The connections a read or a successful write leaves.
LEMMA LocksTyped ==
  ASSUME TypeOK, NEW p \in Processes, Reads(p) \/ Commits(p)
  PROVE  /\ conn' \in [Processes -> {"clear", "begun", "reading", "behind"}]
         /\ writer' \in Processes \cup {None}
BY DEF TypeOK, Reads, Commits

Results == {"none", "true", "false", "constraint", "locked"}

\* An operation that ends leaves its process at rest, with what it worked on or
\* with nothing in hand.
LEMMA EndsTyped ==
  ASSUME Typed, NEW p \in Processes, NEW how \in Results, Ends(p, how),
         \A q \in Queries : of[q] \in Entries => of'[q] \in Entries
  PROVE  /\ pc' \in [Processes -> Steps] /\ op' \in [Processes -> Operations]
         /\ result' \in [Processes -> Results]
         /\ Prepared'
<1>0. TypeOK /\ Prepared /\ op \in [Processes -> Operations]
  BY DEF Typed, TypeOK, Operations
<1>1. Nothing \in Operations /\ Nothing.kind = "none"
  BY DEF Nothing, Operations
<1>2. op' \in [Processes -> Operations]
  BY <1>0, <1>1 DEF Ends
<1>3. /\ op'[p] = op[p] \/ op'[p].kind = "none"
      /\ \A r \in Processes \ {p} : op'[r] = op[r]
  BY <1>0, <1>1 DEF Ends
<1>4. /\ pc' \in [Processes -> Steps] /\ result' \in [Processes -> Results]
      /\ pc'[p] = "idle" /\ \A r \in Processes \ {p} : pc'[r] = pc[r]
  BY <1>0 DEF Ends, TypeOK, Steps, Results
<1> QED
  BY <1>0, <1>2, <1>3, <1>4 DEF Prepared

\* A refusal keeps the types.
LEMMA RefusedTyped ==
  ASSUME Typed, NEW p \in Processes, Refused(p)
  PROVE  Typed'
<1>0. /\ pc' \in [Processes -> Steps] /\ op' \in [Processes -> Operations]
      /\ result' \in [Processes -> Results] /\ Prepared'
  BY EndsTyped DEF Refused, rows, Results
<1> USE DEF Typed, Refused, rows, bounds
<1>1. TypeOK'
  <2>1. short' \subseteq Entries
    BY DEF CutShort, Prepared, TypeOK
  <2>2. faults' \in Nat /\ overdue' \subseteq Processes
    BY DEF TypeOK
  <2>3. conn' \in [Processes -> {"clear", "begun", "reading", "behind"}]
    BY DEF TypeOK
  <2> QED
    BY <1>0, <2>1, <2>2, <2>3 DEF TypeOK, Operations, Results
<1>2. Prepared'
  BY <1>0
<1> QED
  BY <1>1, <1>2 DEF Logged

\* So does a violated foreign key.
LEMMA ViolatedTyped ==
  ASSUME Typed, NEW p \in Processes, NEW e \in Entries, Violated(p, e)
  PROVE  Typed'
<1>0. /\ pc' \in [Processes -> Steps] /\ op' \in [Processes -> Operations]
      /\ result' \in [Processes -> Results] /\ Prepared'
  BY EndsTyped DEF Violated, rows, Results
<1> USE DEF Typed, Violated, rows, bounds
<1>1. TypeOK'
  BY <1>0 DEF TypeOK, Operations, Results
<1>2. Prepared'
  BY <1>0
<1> QED
  BY <1>1, <1>2 DEF Logged

\* Every step keeps the types and what processes have in hand.
LEMMA TypedStep == Typed /\ [Next]_vars => Typed'
<1> SUFFICES ASSUME Typed, [Next]_vars PROVE Typed'
  OBVIOUS
<1>0. TypeOK /\ Prepared /\ Logged
  BY DEF Typed
<1> USE DEF rows, bounds, history, locks, Starts
<1>a. ASSUME NEW p \in Processes, NEW how \in Results, of' = of,
             Ends(p, how) \/ (\E s \in Steps : Goto(p, s))
      PROVE  /\ pc' \in [Processes -> Steps] /\ op' \in [Processes -> Operations]
             /\ result' \in [Processes -> Results]
  <2>1. CASE Ends(p, how)
    BY <1>a, <2>1, EndsTyped
  <2>2. CASE \E s \in Steps : Goto(p, s)
    BY <1>0, <2>2 DEF Goto, TypeOK, Operations, Results
  <2> QED
    BY <1>a, <2>1, <2>2
<1>b. ASSUME NEW p \in Processes, NEW how \in Results, of' = of, Ends(p, how) PROVE Prepared'
  BY <1>b, EndsTyped
<1>1. ASSUME NEW p \in Processes, NEW q \in Queries, Ask(p, q) PROVE Typed'
  <2>1. op'[p] \in Operations /\ op' = [op EXCEPT ![p] = op'[p]] /\ op'[p].query = q
    BY <1>0, <1>1 DEF Ask, TypeOK, Operations, Nothing, Kinds
  <2>2. TypeOK'
    BY <1>0, <1>1, <2>1 DEF Ask, TypeOK, Operations, Steps
  <2>3. Prepared'
    BY <1>0, <1>1, <2>1 DEF Ask, TypeOK, Prepared, Nothing
  <2> QED
    BY <1>0, <1>1, <2>2, <2>3 DEF Ask, Typed, Logged
<1>2. ASSUME NEW p \in Processes, NEW q \in Queries, NEW kind \in {"bad", "good"},
             Report(p, kind, q)
      PROVE  Typed'
  <2>1. /\ op'[p] \in Operations /\ op' = [op EXCEPT ![p] = op'[p]]
        /\ op'[p].kind = kind /\ op'[p].lookup = q
    BY <1>0, <1>2 DEF Report, TypeOK, Operations, Nothing, Kinds
  <2>2. TypeOK'
    <3>1. op' \in [Processes -> Operations]
      BY <1>0, <2>1 DEF TypeOK, Operations
    <3>2. reports' \in Nat
      BY <1>0, <1>2 DEF Report, TypeOK
    <3>3. pc' \in [Processes -> Steps] /\ result' \in [Processes -> {"none", "true", "false", "constraint", "locked"}]
      BY <1>0, <1>2 DEF Report, TypeOK, Steps
    <3> QED
      BY <1>0, <1>2, <3>1, <3>2, <3>3, LocksTyped DEF Report, TypeOK, Operations
  <2>3. pc'[p] = "recheck" => of[q] \in Entries
    BY <1>0, <1>2 DEF Report, Live, TypeOK
  <2>4. Prepared'
    BY <1>0, <1>2, <2>1, <2>3 DEF Report, TypeOK, Prepared, Kinds
  <2> QED
    BY <1>0, <1>2, <2>2, <2>4 DEF Report, Typed, Logged
<1>3. ASSUME NEW p \in Processes, Find(p) PROVE Typed'
  <2>1. PICK q \in Latest(p) :
          /\ op' = [op EXCEPT ![p].lookup = q]
          /\ pc' = [pc EXCEPT ![p] = IF q = None THEN "search" ELSE "recheck"]
          /\ contested' = IF q # None /\ Flagging(p, q) THEN contested \cup {q} ELSE contested
    BY <1>3 DEF Find
  <2>2. q = None \/ (q \in Queries /\ of[q] \in Entries)
    BY <1>0 DEF Latest, Newest, Unflagged, TypeOK, Logged
  <2>3. /\ op'[p] \in Operations /\ op' = [op EXCEPT ![p] = op'[p]]
        /\ op'[p].lookup = q /\ op'[p].kind = op[p].kind /\ op'[p].query = op[p].query
    BY <1>0, <2>1, <2>2 DEF TypeOK, Operations
  <2>4. TypeOK'
    BY <1>0, <1>3, <2>1, <2>2, <2>3, LocksTyped DEF Find, TypeOK, Operations, Steps
  <2>5. Prepared'
    BY <1>0, <1>3, <2>1, <2>2, <2>3, NoneAssumption DEF Find, TypeOK, Prepared, Kinds
  <2> QED
    BY <1>0, <1>3, <2>4, <2>5 DEF Find, Typed, Logged
<1>4. ASSUME NEW p \in Processes, Recheck(p) PROVE Typed'
  <2>1. TypeOK'
    <3>1. /\ pc' \in [Processes -> Steps] /\ op' \in [Processes -> Operations]
          /\ result' \in [Processes -> Results]
      BY <1>4, <1>a DEF Recheck, AfterFeedback, Steps, Results
    <3> QED
      BY <1>0, <1>4, <3>1, LocksTyped DEF Recheck, TypeOK, Operations, Results
  <2>2. Prepared'
    <3>1. CASE Ends(p, "false")
      BY <1>4, <1>b, <3>1 DEF Recheck, Results
    <3>2. CASE Goto(p, "insert") \/ (op[p].kind = "implicit" /\ Goto(p, "search"))
      BY <1>0, <1>4, <3>2 DEF Recheck, Goto, TypeOK, Prepared
    <3> QED
      BY <1>4, <3>1, <3>2 DEF Recheck, AfterFeedback
  <2> QED
    BY <1>0, <1>4, <2>1, <2>2 DEF Recheck, Typed, Logged
<1>5. ASSUME NEW p \in Processes, Insert(p) PROVE Typed'
  <2> DEFINE q == op[p].lookup
  <2>1. q \in Queries /\ op[p].kind \in Kinds /\ of[q] \in Entries
    BY <1>0, <1>5 DEF Insert, Prepared
  <2>2. CASE Refused(p) \/ Violated(p, of[q])
    BY <2>1, <2>2, RefusedTyped, ViolatedTyped
  <2>3. CASE /\ Commits(p) /\ Goto(p, "count")
             /\ events' = [events EXCEPT ![q][op[p].kind] = @ + 1]
             /\ UNCHANGED << stored, of, log, old, negative, positive, pairs, bounds, history >>
    <3>1. events' \in [Queries -> [Kinds -> Nat]]
      BY <1>0, <2>1, <2>3 DEF TypeOK
    <3>2. TypeOK'
      BY <1>0, <2>3, <3>1, LocksTyped DEF Goto, TypeOK, Steps
    <3>3. Prepared'
      BY <1>0, <2>1, <2>3 DEF Goto, TypeOK, Prepared
    <3> QED
      BY <1>0, <2>3, <3>2, <3>3 DEF Typed, Logged
  <2> QED
    BY <1>5, <2>2, <2>3 DEF Insert
<1>6. ASSUME NEW p \in Processes, Count(p) PROVE Typed'
  <2> DEFINE e == of[op[p].lookup]
  <2>1. e \in Entries /\ op[p].kind \in Kinds /\ op[p].lookup \in Queries
    BY <1>0, <1>6 DEF Count, Prepared
  <2>2. CASE Refused(p)
    BY <2>2, RefusedTyped
  <2>3. CASE ~Refused(p)
    <3>1. /\ Commits(p)
          /\ negative' \in [Entries -> Nat] /\ positive' \in [Entries -> Nat]
          /\ Ends(p, "true") \/ Goto(p, "pair")
          /\ UNCHANGED << stored, of, log, old, events, pairs, bounds, history >>
      <4>1. Commits(p)
        BY <1>6, <2>3 DEF Count
      <4>2. ASSUME NEW f \in [Entries -> Nat]
            PROVE  [f EXCEPT ![e] = IF e \in stored THEN @ + 1 ELSE @] \in [Entries -> Nat]
        BY <2>1
      <4>3. /\ negative \in [Entries -> Nat] /\ positive \in [Entries -> Nat]
        BY <1>0 DEF TypeOK
      <4>4. CASE op[p].kind = "good"
        BY <1>6, <2>3, <4>1, <4>2, <4>3, <4>4 DEF Count
      <4>5. CASE op[p].kind # "good"
        BY <1>6, <2>3, <4>1, <4>2, <4>3, <4>5 DEF Count
      <4> QED
        BY <4>4, <4>5
    <3>2. TypeOK'
      <4>1. /\ pc' \in [Processes -> Steps] /\ op' \in [Processes -> Operations]
            /\ result' \in [Processes -> Results]
        BY <1>a, <3>1 DEF Steps, Results
      <4> QED
        BY <1>0, <3>1, <4>1, LocksTyped DEF TypeOK, Operations, Results
    <3>3. Prepared'
      <4>1. CASE Ends(p, "true")
        BY <1>b, <3>1, <4>1 DEF Results
      <4>2. CASE Goto(p, "pair")
        BY <1>0, <2>1, <3>1, <4>2 DEF Goto, TypeOK, Prepared
      <4> QED
        BY <3>1, <4>1, <4>2
    <3> QED
      BY <1>0, <3>1, <3>2, <3>3 DEF Typed, Logged
  <2> QED
    BY <2>2, <2>3
<1>7. ASSUME NEW p \in Processes, Pair(p) PROVE Typed'
  <2> DEFINE q == op[p].lookup
  <2>1. q \in Queries /\ op[p].kind \in Kinds
    BY <1>0, <1>7 DEF Pair, Prepared
  <2>2. CASE Refused(p)
    BY <2>2, RefusedTyped
  <2>3. CASE ~Refused(p)
    <3>1. /\ Commits(p) \/ Reads(p)
          /\ pairs' \in [Queries -> Nat]
          /\ AfterFeedback(p, "true")
          /\ UNCHANGED << stored, of, log, old, events, negative, positive, bounds, history >>
      <4>1. pairs \in [Queries -> Nat] /\ [pairs EXCEPT ![q] = @ + 1] \in [Queries -> Nat]
        BY <1>0, <2>1 DEF TypeOK
      <4> QED
        BY <1>7, <2>3, <4>1 DEF Pair
    <3>2. TypeOK'
      <4>1. /\ pc' \in [Processes -> Steps] /\ op' \in [Processes -> Operations]
            /\ result' \in [Processes -> Results]
        BY <1>a, <3>1 DEF AfterFeedback, Steps, Results
      <4> QED
        BY <1>0, <3>1, <4>1, LocksTyped DEF TypeOK, Operations, Results
    <3>3. Prepared'
      <4>1. CASE Ends(p, "true")
        BY <1>b, <3>1, <4>1 DEF Results
      <4>2. CASE op[p].kind = "implicit" /\ Goto(p, "search")
        BY <1>0, <2>1, <3>1, <4>2 DEF Goto, TypeOK, Prepared
      <4> QED
        BY <3>1, <4>1, <4>2 DEF AfterFeedback
    <3> QED
      BY <1>0, <3>1, <3>2, <3>3 DEF Typed, Logged
  <2> QED
    BY <2>2, <2>3
<1>8. ASSUME NEW p \in Processes, Search(p) PROVE Typed'
  <2>1. CASE Ends(p, "false")
    <3>1. TypeOK'
      BY <1>0, <1>8, <1>a, <2>1, LocksTyped DEF Search, TypeOK, Operations, Results
    <3>2. Prepared'
      BY <1>8, <1>b, <2>1 DEF Search, Results
    <3> QED
      BY <1>0, <1>8, <3>1, <3>2 DEF Search, Typed, Logged
  <2>2. ASSUME NEW e \in Entries, op' = [op EXCEPT ![p].entry = e],
               pc' = [pc EXCEPT ![p] = "update"], UNCHANGED result
        PROVE  Typed'
    <3>1. /\ op'[p] \in Operations /\ op' = [op EXCEPT ![p] = op'[p]]
          /\ op'[p].kind = op[p].kind /\ op'[p].query = op[p].query
      BY <1>0, <2>2 DEF TypeOK, Operations
    <3>2. TypeOK'
      BY <1>0, <1>8, <2>2, <3>1, LocksTyped DEF Search, TypeOK, Operations, Steps
    <3>3. Prepared'
      BY <1>0, <1>8, <2>2, <3>1 DEF Search, TypeOK, Prepared
    <3> QED
      BY <1>0, <1>8, <3>2, <3>3 DEF Search, Typed, Logged
  <2>3. stored \subseteq Entries
    BY <1>0 DEF TypeOK
  <2> QED
    BY <1>8, <2>1, <2>2, <2>3 DEF Search
<1>9. ASSUME NEW p \in Processes, Update(p) PROVE Typed'
  <2>1. CASE Refused(p)
    BY <2>1, RefusedTyped
  <2>2. CASE Commits(p) /\ Goto(p, "record") /\ UNCHANGED << rows, bounds, history >>
    <3>1. TypeOK'
      BY <1>0, <2>2, LocksTyped DEF Goto, TypeOK, Steps
    <3>2. Prepared'
      BY <1>0, <1>9, <2>2 DEF Update, Goto, TypeOK, Prepared
    <3> QED
      BY <1>0, <2>2, <3>1, <3>2 DEF Typed, Logged
  <2> QED
    BY <1>9, <2>1, <2>2 DEF Update
<1>10. ASSUME NEW p \in Processes, Record(p) PROVE Typed'
  <2> DEFINE e == op[p].entry
             q == op[p].query
  <2>1. q \in Queries /\ e \in Entries
    BY <1>0, <1>10 DEF Record, Prepared
  <2>2. CASE Refused(p)
    BY <2>2, RefusedTyped
  <2>3. CASE e \notin stored /\ Violated(p, e)
    BY <2>1, <2>3, ViolatedTyped
  <2>4. CASE /\ e \in stored /\ Commits(p)
             /\ of' = [of EXCEPT ![q] = e]
             /\ log' = Append(log, q)
             /\ Ends(p, "true")
             /\ UNCHANGED << stored, old, events, negative, positive, pairs, bounds, history >>
    <3>0. /\ pc' \in [Processes -> Steps] /\ op' \in [Processes -> Operations]
          /\ result' \in [Processes -> Results] /\ Prepared'
      <4>1. \A k \in Queries : of[k] \in Entries => of'[k] \in Entries
        BY <1>0, <2>1, <2>4 DEF TypeOK
      <4> QED
        BY <2>4, <4>1, EndsTyped DEF Results
    <3>1. log' \in Seq(Queries) /\ Len(log') = Len(log) + 1 /\ Len(log) \in Nat
      BY <1>0, <2>1, <2>4 DEF TypeOK
    <3>2. e \in Entries
      BY <1>0, <2>4 DEF TypeOK
    <3>3. TypeOK'
      <4>1. of' \in [Queries -> Entries \cup {None}]
        BY <1>0, <2>1, <2>4 DEF TypeOK
      <4>2. old' \in 0..Len(log')
        BY <1>0, <2>4, <3>1 DEF TypeOK
      <4> QED
        BY <1>0, <2>4, <3>0, <3>1, <4>1, <4>2, LocksTyped DEF TypeOK, Operations, Results
    <3>4. Prepared'
      BY <3>0
    <3>5. Logged'
      BY <1>0, <2>1, <2>4, <3>2 DEF TypeOK, Logged
    <3> QED
      BY <3>3, <3>4, <3>5 DEF Typed
  <2> QED
    BY <1>10, <2>2, <2>3, <2>4 DEF Record
<1>11. ASSUME NEW p \in Processes, Choose(p) PROVE Typed'
  <2>1. PICK e \in stored : op' = [op EXCEPT ![p] = [Nothing EXCEPT !.entry = e]]
    BY <1>11 DEF Choose
  <2>2. op'[p] \in Operations /\ op' = [op EXCEPT ![p] = op'[p]] /\ op'[p].kind = "none"
    BY <1>0, <2>1 DEF TypeOK, Operations, Nothing
  <2>3. TypeOK'
    BY <1>0, <1>11, <2>2, LocksTyped DEF Choose, TypeOK, Operations, Steps
  <2>4. Prepared'
    BY <1>0, <1>11, <2>2 DEF Choose, TypeOK, Prepared
  <2> QED
    BY <1>0, <1>11, <2>3, <2>4 DEF Choose, Typed, Logged
<1>12. ASSUME NEW p \in Processes, Delete(p) PROVE Typed'
  <2>1. CASE Refused(p)
    BY <2>1, RefusedTyped
  <2>2. CASE ~Refused(p)
    <3>1. TypeOK'
      BY <1>0, <1>12, <1>a, <2>2, LocksTyped DEF Delete, TypeOK, Operations, Results
    <3>2. Prepared'
      BY <1>12, <1>b, <2>2 DEF Delete, Results
    <3> QED
      BY <1>0, <1>12, <2>2, <3>1, <3>2 DEF Delete, Typed, Logged
  <2> QED
    BY <2>1, <2>2
<1>13. ASSUME NEW p \in Processes, Evict(p) PROVE Typed'
  <2>1. TypeOK'
    BY <1>0, <1>13, LocksTyped DEF Evict, TypeOK
  <2>2. Prepared'
    BY <1>0, <1>13 DEF Evict, Prepared
  <2> QED
    BY <1>0, <1>13, <2>1, <2>2 DEF Evict, Typed, Logged
<1>14. ASSUME NEW p \in Processes, Crash(p) PROVE Typed'
  <2>1. op'[p] = Nothing /\ op' = [op EXCEPT ![p] = op'[p]] /\ Nothing \in Operations
    BY <1>0, <1>14 DEF Crash, TypeOK, Operations, Nothing
  <2>2. short' \subseteq Entries
    BY <1>0, <1>14 DEF Crash, CutShort, Prepared, TypeOK
  <2>3. TypeOK'
    <3>1. op' \in [Processes -> Operations]
      BY <1>0, <2>1 DEF TypeOK, Operations
    <3>2. faults' \in Nat
      BY <1>0, <1>14 DEF Crash, TypeOK
    <3>3. /\ pc' \in [Processes -> Steps]
          /\ result' \in [Processes -> {"none", "true", "false", "constraint", "locked"}]
          /\ conn' \in [Processes -> {"clear", "begun", "reading", "behind"}]
          /\ writer' \in Processes \cup {None}
      BY <1>0, <1>14 DEF Crash, TypeOK, Steps
    <3> QED
      BY <1>0, <1>14, <2>2, <3>1, <3>2, <3>3 DEF Crash, TypeOK, Operations
  <2>4. Prepared'
    BY <1>0, <1>14, <2>1 DEF Crash, TypeOK, Prepared, Nothing
  <2> QED
    BY <1>0, <1>14, <2>3, <2>4 DEF Crash, Typed, Logged
<1>15. CASE Age \/ UNCHANGED vars
  <2>1. TypeOK'
    BY <1>0, <1>15 DEF Age, vars, TypeOK
  <2> QED
    BY <1>0, <1>15, <2>1 DEF Age, vars, Typed, Prepared, Logged
<1> QED
  BY <1>1, <1>2, <1>3, <1>4, <1>5, <1>6, <1>7, <1>8, <1>9, <1>10, <1>11, <1>12, <1>13,
     <1>14, <1>15 DEF Next

\* Every reachable state is typed.
LEMMA AlwaysTyped == Spec => []Typed
<1>1. Init => Typed
  BY BackendAssumption, NoneAssumption
     DEF Init, Typed, TypeOK, Prepared, Logged, Kinds, Steps, Nothing
<1> QED
  BY <1>1, TypedStep, PTL DEF Spec

\* The store's tables, the processes and their connections have their types.
THEOREM TypeCorrect == Spec => []TypeOK
<1>1. Typed => TypeOK
  BY DEF Typed
<1> QED
  BY <1>1, AlwaysTyped, PTL

-----------------------------------------------------------------------------
(* Connections that are stuck.                                             *)

\* A step that leaves no connection and no writer worse off needs no cause.
LEMMA CalmStep ==
  ASSUME StuckForCause, backend' = backend, raced \subseteq raced', overdue \subseteq overdue',
         writer' \in {None, writer},
         \A r \in Processes : /\ conn'[r] # "clear" => conn[r] # "clear"
                              /\ result'[r] = "locked" => result[r] = "locked"
  PROVE  StuckForCause'
BY DEF StuckForCause

\* A read or a successful write leaves no connection worse off.
LEMMA CalmLocks ==
  ASSUME TypeOK, NEW p \in Processes, Reads(p) \/ Commits(p)
  PROVE  /\ writer' \in {None, writer}
         /\ \A r \in Processes : conn'[r] # "clear" => conn[r] # "clear"
BY DEF TypeOK, Reads, Commits

\* A refusal has the cause of the lock it met, or its process waited too long.
LEMMA RefusedForLock ==
  ASSUME TypeOK, StuckForCause, NEW p \in Processes, Refused(p)
  PROVE  StuckForCause'
<1>1. /\ backend = "sqlite" /\ overdue \subseteq overdue'
      /\ raced # {} \/ p \in overdue'
  BY DEF StuckForCause, Refused, Locked, Crowded
<1>2. /\ UNCHANGED << backend, raced, writer >>
      /\ \A r \in Processes \ {p} : conn'[r] = conn[r] /\ result'[r] = result[r]
  BY DEF Refused, Ends, TypeOK
<1> QED
  BY <1>1, <1>2 DEF StuckForCause

\* A violated foreign key is a cause.
LEMMA ViolatedIsCause ==
  ASSUME TypeOK, StuckForCause, NEW p \in Processes, NEW e, Violated(p, e)
  PROVE  StuckForCause'
<1>1. raced' # {} /\ backend' = backend
  BY DEF Violated, bounds
<1>2. CASE backend = "sqlite"
  BY <1>1, <1>2 DEF StuckForCause
<1>3. CASE backend # "sqlite"
  <2>1. writer' = None
    BY <1>3 DEF Violated
  <2>2. \A r \in Processes : /\ conn'[r] # "clear" => conn[r] # "clear"
                             /\ result'[r] = "locked" => result[r] = "locked"
    BY DEF Violated, Ends, TypeOK
  <2>3. raced \subseteq raced' /\ overdue' = overdue
    BY DEF Violated
  <2> QED
    BY <1>1, <2>1, <2>2, <2>3, CalmStep
<1> QED
  BY <1>2, <1>3

\* Every step that leaves a connection stuck follows a violated foreign key or
\* a write of its own that waited too long.
LEMMA StuckStep == TypeOK /\ StuckForCause /\ [Next]_vars => StuckForCause'
<1> SUFFICES ASSUME TypeOK, StuckForCause, [Next]_vars PROVE StuckForCause'
  OBVIOUS
<1> USE DEF bounds, history
<1>1. ASSUME NEW p \in Processes, Reads(p) \/ Commits(p),
             backend' = backend, raced' = raced, overdue' = overdue,
             \A r \in Processes : result'[r] = "locked" => result[r] = "locked"
      PROVE  StuckForCause'
  BY <1>1, CalmLocks, CalmStep
<1>2. ASSUME NEW p \in Processes, NEW q \in Queries, Ask(p, q) PROVE StuckForCause'
  <2>1. /\ UNCHANGED << backend, raced, overdue, writer, conn >>
        /\ \A r \in Processes : result'[r] = "locked" => result[r] = "locked"
    BY <1>2 DEF Ask, Starts, locks, TypeOK
  <2> QED
    BY <2>1, CalmStep
<1>3. ASSUME NEW p \in Processes, NEW q \in Queries, NEW kind \in {"bad", "good"},
             Report(p, kind, q)
      PROVE  StuckForCause'
  BY <1>1, <1>3 DEF Report, Starts, TypeOK
<1>4. ASSUME NEW p \in Processes, Find(p) PROVE StuckForCause'
  BY <1>1, <1>4 DEF Find
<1>5. ASSUME NEW p \in Processes, Recheck(p) PROVE StuckForCause'
  BY <1>1, <1>5 DEF Recheck, AfterFeedback, Goto, Ends, TypeOK
<1>6. ASSUME NEW p \in Processes, Insert(p) PROVE StuckForCause'
  BY <1>1, <1>6, RefusedForLock, ViolatedIsCause DEF Insert, Goto
<1>7. ASSUME NEW p \in Processes, Count(p) PROVE StuckForCause'
  <2>1. CASE Refused(p)
    BY <2>1, RefusedForLock
  <2>2. CASE ~Refused(p)
    BY <1>1, <1>7, <2>2 DEF Count, Goto, Ends, TypeOK
  <2> QED
    BY <2>1, <2>2
<1>8. ASSUME NEW p \in Processes, Pair(p) PROVE StuckForCause'
  <2>1. CASE Refused(p)
    BY <2>1, RefusedForLock
  <2>2. CASE ~Refused(p)
    BY <1>1, <1>8, <2>2 DEF Pair, AfterFeedback, Goto, Ends, TypeOK
  <2> QED
    BY <2>1, <2>2
<1>9. ASSUME NEW p \in Processes, Search(p) PROVE StuckForCause'
  BY <1>1, <1>9 DEF Search, Ends, TypeOK
<1>10. ASSUME NEW p \in Processes, Update(p) PROVE StuckForCause'
  BY <1>1, <1>10, RefusedForLock DEF Update, Goto
<1>11. ASSUME NEW p \in Processes, Record(p) PROVE StuckForCause'
  BY <1>1, <1>11, RefusedForLock, ViolatedIsCause DEF Record, Ends, TypeOK
<1>12. ASSUME NEW p \in Processes, Choose(p) PROVE StuckForCause'
  BY <1>1, <1>12 DEF Choose, Starts, TypeOK
<1>13. ASSUME NEW p \in Processes, Delete(p) PROVE StuckForCause'
  BY <1>1, <1>13, RefusedForLock DEF Delete, Ends, TypeOK
<1>14. ASSUME NEW p \in Processes, Evict(p) PROVE StuckForCause'
  BY <1>1, <1>14 DEF Evict
<1>15. ASSUME NEW p \in Processes, Crash(p) PROVE StuckForCause'
  <2>1. /\ UNCHANGED << backend, raced, overdue >> /\ writer' \in {None, writer}
        /\ \A r \in Processes : /\ conn'[r] # "clear" => conn[r] # "clear"
                                /\ result'[r] = "locked" => result[r] = "locked"
    BY <1>15 DEF Crash, TypeOK
  <2> QED
    BY <2>1, CalmStep
<1>16. CASE Age \/ UNCHANGED vars
  BY <1>16 DEF Age, vars, locks, StuckForCause
<1> QED
  BY <1>2, <1>3, <1>4, <1>5, <1>6, <1>7, <1>8, <1>9, <1>10, <1>11, <1>12, <1>13,
     <1>14, <1>15, <1>16 DEF Next

\* The write lock is kept only on SQLite and only after an entry was evicted
\* under a process that was about to refer to it; without such a race only
\* processes that waited too long for other writers are left in a transaction
\* or refused.
THEOREM StuckHasCause == Spec => []StuckForCause
<1>1. Init => StuckForCause
  BY DEF Init, StuckForCause
<1> QED
  BY <1>1, StuckStep, TypeCorrect, PTL DEF Spec

-----------------------------------------------------------------------------
(* Flags.                                                                  *)

\* A process that is about to flag query q and may write.
Flags(p, q) ==
    /\ pc[p] \in {"recheck", "insert"}
    /\ op[p].kind = "implicit" /\ op[p].lookup = q
    /\ conn[p] # "behind"

\* Unless a query is contested, one process at most is about to flag it, and
\* none once it is flagged.
OneFlag ==
    \A q \in Queries \ contested :
      /\ events[q]["implicit"] <= 1
      /\ \A p \in Processes : Flags(p, q) => events[q]["implicit"] = 0
      /\ \A p, r \in Processes : Flags(p, q) /\ Flags(r, q) => p = r

Flagged == Typed /\ StuckForCause /\ OneFlag

\* A connection that sees the past goes on seeing it.
LEMMA BehindStays ==
  ASSUME Flagged, NEW p \in Processes, Reads(p) \/ Commits(p)
  PROVE  \A r \in Processes : conn[r] = "behind" => conn'[r] = "behind"
BY DEF Flagged, Typed, TypeOK, StuckForCause, Reads, Commits, Locked

\* A step after which nobody new is about to flag anything flags nothing twice.
LEMMA NoNewFlag ==
  ASSUME OneFlag, contested \subseteq contested',
         \A q \in Queries : events'[q]["implicit"] = events[q]["implicit"],
         \A r \in Processes, q \in Queries : Flags(r, q)' => Flags(r, q)
  PROVE  OneFlag'
BY DEF OneFlag

\* Nor does a step that only one process takes and that leaves it elsewhere.
LEMMA LeavesFlags ==
  ASSUME Flagged, NEW p \in Processes, Reads(p) \/ Commits(p) \/ Refused(p),
         contested' = contested,
         \A q \in Queries : events'[q]["implicit"] = events[q]["implicit"],
         \A r \in Processes \ {p} : pc'[r] = pc[r] /\ op'[r] = op[r],
         \/ pc'[p] \notin {"recheck", "insert"}
         \/ op'[p].kind # "implicit"
         \/ pc[p] \in {"recheck", "insert"} /\ op'[p] = op[p]
  PROVE  OneFlag'
<1>1. ASSUME NEW r \in Processes \ {p}, conn[r] = "behind" PROVE conn'[r] = "behind"
  <2>1. CASE Refused(p)
    BY <1>1, <2>1 DEF Refused, Flagged, Typed, TypeOK
  <2> QED
    BY <1>1, <2>1, BehindStays
<1>2. pc'[p] \in {"recheck", "insert"} => (conn[p] = "behind" => conn'[p] = "behind")
  <2>1. CASE Refused(p)
    BY <2>1 DEF Refused, Flagged, Typed, TypeOK
  <2> QED
    BY <2>1, BehindStays
<1>3. \A r \in Processes, q \in Queries : Flags(r, q)' => Flags(r, q)
  <2> SUFFICES ASSUME NEW r \in Processes, NEW q \in Queries, Flags(r, q)'
               PROVE  Flags(r, q)
    OBVIOUS
  <2>1. CASE r = p
    BY <1>2, <2>1 DEF Flags
  <2>2. CASE r # p
    BY <1>1, <2>2 DEF Flags
  <2> QED
    BY <2>1, <2>2
<1> QED
  BY <1>3, NoNewFlag DEF Flagged

\* A violated foreign key flags nothing.
LEMMA ViolatedFlags ==
  ASSUME Flagged, NEW p \in Processes, NEW e, Violated(p, e)
  PROVE  OneFlag'
<1>1. \A r \in Processes, q \in Queries : Flags(r, q)' => Flags(r, q)
  BY DEF Violated, Ends, Flags, Flagged, Typed, TypeOK
<1>2. events' = events /\ contested' = contested
  BY DEF Violated, rows
<1> QED
  BY <1>1, <1>2, NoNewFlag DEF Flagged

\* Every step keeps a query from being flagged twice unless it is contested.
LEMMA FlagStep == Flagged /\ [Next]_vars => OneFlag'
<1> SUFFICES ASSUME Flagged, [Next]_vars PROVE OneFlag'
  OBVIOUS
<1>0. /\ pc \in [Processes -> Steps] /\ op \in [Processes -> Operations]
      /\ events \in [Queries -> [Kinds -> Nat]] /\ Prepared /\ OneFlag
  BY DEF Flagged, Typed, TypeOK, Operations
<1> USE DEF rows, bounds, history
<1>1. ASSUME NEW p \in Processes, NEW q \in Queries, Ask(p, q) PROVE OneFlag'
  <2>1. \A r \in Processes, k \in Queries : Flags(r, k)' => Flags(r, k)
    BY <1>0, <1>1 DEF Ask, Flags, locks
  <2> QED
    BY <1>0, <1>1, <2>1, NoNewFlag DEF Ask
<1>2. ASSUME NEW p \in Processes, NEW q \in Queries, NEW kind \in {"bad", "good"},
             Report(p, kind, q)
      PROVE  OneFlag'
  <2>1. op'[p].kind # "implicit" /\ \A r \in Processes \ {p} : pc'[r] = pc[r] /\ op'[r] = op[r]
    BY <1>0, <1>2 DEF Report, Nothing
  <2> QED
    BY <1>2, <2>1, LeavesFlags DEF Report
<1>3. ASSUME NEW p \in Processes, Find(p) PROVE OneFlag'
  <2>1. PICK q \in Latest(p) :
          /\ op' = [op EXCEPT ![p].lookup = q]
          /\ pc' = [pc EXCEPT ![p] = IF q = None THEN "search" ELSE "recheck"]
          /\ contested' = IF q # None /\ Flagging(p, q) THEN contested \cup {q} ELSE contested
    BY <1>3 DEF Find
  <2>2. /\ \A r \in Processes \ {p} : pc'[r] = pc[r] /\ op'[r] = op[r]
        /\ op'[p].kind = op[p].kind /\ op'[p].lookup = q
        /\ pc'[p] = IF q = None THEN "search" ELSE "recheck"
        /\ events' = events /\ contested \subseteq contested'
    BY <1>0, <1>3, <2>1 DEF Find, Operations
  <2>3. \A r \in Processes : conn[r] = "behind" => conn'[r] = "behind"
    BY <1>3, BehindStays DEF Find
  <2>4. \A r \in Processes \ {p}, k \in Queries : Flags(r, k)' => Flags(r, k)
    BY <2>2, <2>3 DEF Flags
  <2>5. ASSUME NEW k \in Queries \ contested', Flags(p, k)'
        PROVE  /\ events[k]["implicit"] = 0
               /\ \A r \in Processes : Flags(r, k)' => r = p
    <3>1. q = k /\ conn[p] # "behind" /\ q # None
      BY <2>2, <2>3, <2>5, NoneAssumption DEF Flags
    <3>2. q \in { log[i] : i \in Newest(Unflagged) }
      BY <3>1 DEF Latest
    <3>3. events[k]["implicit"] = 0
      BY <3>1, <3>2 DEF Newest, Unflagged, Kinds
    <3>4. ~Flagging(p, q)
      BY <2>1, <2>5, <3>1
    <3>5. \A r \in Processes \ {p} : ~Flags(r, q)
      BY <3>4 DEF Flagging, Flags
    <3> QED
      BY <2>4, <3>1, <3>3, <3>5
  <2> QED
    BY <1>0, <2>2, <2>4, <2>5 DEF OneFlag
<1>4. ASSUME NEW p \in Processes, Recheck(p) PROVE OneFlag'
  <2>1. /\ \A r \in Processes \ {p} : pc'[r] = pc[r] /\ op'[r] = op[r]
        /\ pc'[p] \in {"recheck", "insert"} => pc[p] \in {"recheck", "insert"} /\ op'[p] = op[p]
    BY <1>0, <1>4 DEF Recheck, AfterFeedback, Goto, Ends
  <2> QED
    BY <1>4, <2>1, LeavesFlags DEF Recheck
<1>5. ASSUME NEW p \in Processes, Insert(p) PROVE OneFlag'
  <2>1. PICK q \in Queries : q = op[p].lookup /\ op[p].kind \in Kinds
    BY <1>0, <1>5 DEF Insert, Prepared
  <2>2. CASE Refused(p)
    BY <1>0, <2>2, LeavesFlags DEF Refused, Ends
  <2>3. CASE Violated(p, of[q])
    BY <2>3, ViolatedFlags
  <2>4. CASE /\ Commits(p) /\ Goto(p, "count")
             /\ events' = [events EXCEPT ![q][op[p].kind] = @ + 1]
             /\ UNCHANGED << stored, of, log, old, negative, positive, pairs, bounds, history >>
    <3>1. \A r \in Processes : conn[r] = "behind" => conn'[r] = "behind"
      BY <2>4, BehindStays
    <3>2. \A r \in Processes, k \in Queries : Flags(r, k)' => r # p /\ Flags(r, k)
      BY <1>0, <2>4, <3>1 DEF Flags, Goto
    <3>3. CASE op[p].kind = "implicit"
      <4>1. conn[p] # "behind"
        BY <2>4 DEF Commits, Locked, Flagged, StuckForCause
      <4>2. Flags(p, q)
        BY <1>5, <2>1, <3>3, <4>1 DEF Insert, Flags
      <4>3. /\ events'[q]["implicit"] = events[q]["implicit"] + 1
            /\ \A k \in Queries \ {q} : events'[k]["implicit"] = events[k]["implicit"]
        BY <1>0, <2>1, <2>4, <3>3
      <4>4. q \notin contested => /\ events'[q]["implicit"] <= 1
                                  /\ \A r \in Processes : ~Flags(r, q)'
        <5> SUFFICES ASSUME q \notin contested
                     PROVE  /\ events'[q]["implicit"] <= 1
                            /\ \A r \in Processes : ~Flags(r, q)'
          OBVIOUS
        <5>1. /\ \A r \in Processes : Flags(r, q) => events[q]["implicit"] = 0
              /\ \A r, o \in Processes : Flags(r, q) /\ Flags(o, q) => r = o
          BY <1>0, <2>1 DEF OneFlag
        <5>2. events[q]["implicit"] = 0
          BY <4>2, <5>1
        <5>3. \A r \in Processes : ~Flags(r, q)'
          BY <2>1, <3>2, <4>2, <5>1
        <5> QED
          BY <4>3, <5>2, <5>3
      <4>5. contested' = contested
        BY <2>4
      <4> QED
        <5> SUFFICES ASSUME NEW k \in Queries \ contested
                     PROVE  /\ events'[k]["implicit"] <= 1
                            /\ \A r \in Processes : Flags(r, k)' => events'[k]["implicit"] = 0
                            /\ \A r, o \in Processes : Flags(r, k)' /\ Flags(o, k)' => r = o
          BY <4>5 DEF OneFlag
        <5>1. CASE k = q
          BY <4>4, <5>1
        <5>2. CASE k # q
          <6>1. events'[k]["implicit"] = events[k]["implicit"]
            BY <4>3, <5>2
          <6> QED
            BY <1>0, <3>2, <6>1 DEF OneFlag
        <5> QED
          BY <5>1, <5>2
    <3>4. CASE op[p].kind # "implicit"
      <4>1. \A k \in Queries : events'[k]["implicit"] = events[k]["implicit"]
        BY <1>0, <2>1, <2>4, <3>4 DEF Kinds
      <4> QED
        BY <1>0, <2>4, <3>2, <4>1, NoNewFlag
    <3> QED
      BY <3>3, <3>4
  <2> QED
    BY <1>5, <2>1, <2>2, <2>3, <2>4 DEF Insert
<1>6. ASSUME NEW p \in Processes, Count(p) PROVE OneFlag'
  <2>1. /\ \A r \in Processes \ {p} : pc'[r] = pc[r] /\ op'[r] = op[r]
        /\ pc'[p] \notin {"recheck", "insert"} /\ events' = events /\ contested' = contested
        /\ Commits(p) \/ Refused(p)
    BY <1>0, <1>6 DEF Count, Refused, Goto, Ends
  <2> QED
    BY <2>1, LeavesFlags
<1>7. ASSUME NEW p \in Processes, Pair(p) PROVE OneFlag'
  <2>1. /\ \A r \in Processes \ {p} : pc'[r] = pc[r] /\ op'[r] = op[r]
        /\ pc'[p] \notin {"recheck", "insert"} /\ events' = events /\ contested' = contested
        /\ Reads(p) \/ Commits(p) \/ Refused(p)
    BY <1>0, <1>7 DEF Pair, Refused, AfterFeedback, Goto, Ends
  <2> QED
    BY <2>1, LeavesFlags
<1>8. ASSUME NEW p \in Processes, Search(p) PROVE OneFlag'
  <2>1. /\ \A r \in Processes \ {p} : pc'[r] = pc[r] /\ op'[r] = op[r]
        /\ pc'[p] \notin {"recheck", "insert"}
    BY <1>0, <1>8 DEF Search, Ends
  <2> QED
    BY <1>8, <2>1, LeavesFlags DEF Search
<1>9. ASSUME NEW p \in Processes, Update(p) PROVE OneFlag'
  <2>1. /\ \A r \in Processes \ {p} : pc'[r] = pc[r] /\ op'[r] = op[r]
        /\ pc'[p] \notin {"recheck", "insert"} /\ events' = events /\ contested' = contested
        /\ Commits(p) \/ Refused(p)
    BY <1>0, <1>9 DEF Update, Refused, Goto, Ends
  <2> QED
    BY <2>1, LeavesFlags
<1>10. ASSUME NEW p \in Processes, Record(p) PROVE OneFlag'
  <2>1. CASE \E e : Violated(p, e)
    BY <2>1, ViolatedFlags
  <2>2. CASE ~(\E e : Violated(p, e))
    <3>1. /\ \A r \in Processes \ {p} : pc'[r] = pc[r] /\ op'[r] = op[r]
          /\ pc'[p] \notin {"recheck", "insert"} /\ events' = events /\ contested' = contested
          /\ Commits(p) \/ Refused(p)
      BY <1>0, <1>10, <2>2 DEF Record, Refused, Ends
    <3> QED
      BY <3>1, LeavesFlags
  <2> QED
    BY <2>1, <2>2
<1>11. ASSUME NEW p \in Processes, Choose(p) PROVE OneFlag'
  <2>1. /\ \A r \in Processes \ {p} : pc'[r] = pc[r] /\ op'[r] = op[r]
        /\ pc'[p] \notin {"recheck", "insert"}
    BY <1>0, <1>11 DEF Choose
  <2> QED
    BY <1>11, <2>1, LeavesFlags DEF Choose
<1>12. ASSUME NEW p \in Processes, Delete(p) PROVE OneFlag'
  <2>1. /\ \A r \in Processes \ {p} : pc'[r] = pc[r] /\ op'[r] = op[r]
        /\ pc'[p] \notin {"recheck", "insert"} /\ events' = events /\ contested' = contested
        /\ Commits(p) \/ Refused(p)
    BY <1>0, <1>12 DEF Delete, Refused, Ends
  <2> QED
    BY <2>1, LeavesFlags
<1>13. ASSUME NEW p \in Processes, Evict(p) PROVE OneFlag'
  BY <1>13, LeavesFlags DEF Evict
<1>14. ASSUME NEW p \in Processes, Crash(p) PROVE OneFlag'
  <2>1. \A r \in Processes, k \in Queries : Flags(r, k)' => Flags(r, k)
    BY <1>0, <1>14 DEF Crash, Flags, Flagged, Typed, TypeOK
  <2> QED
    BY <1>0, <1>14, <2>1, NoNewFlag DEF Crash
<1>15. CASE Age \/ UNCHANGED vars
  BY <1>0, <1>15, NoNewFlag DEF Age, vars, locks, Flags
<1> QED
  BY <1>1, <1>2, <1>3, <1>4, <1>5, <1>6, <1>7, <1>8, <1>9, <1>10, <1>11, <1>12, <1>13,
     <1>14, <1>15 DEF Next

\* One hit is flagged by itself at most once, unless two processes were asked
\* the prompt again at the same time.
THEOREM FlaggedAtMostOnce == Spec => []FlaggedOnce
<1>1. Init => OneFlag
  BY DEF Init, OneFlag, Flags, Kinds
<1>2. Typed /\ OneFlag => FlaggedOnce
  BY DEF Typed, TypeOK, OneFlag, FlaggedOnce, Kinds
<1> QED
  BY <1>1, <1>2, FlagStep, AlwaysTyped, StuckHasCause, PTL DEF Spec, Flagged

-----------------------------------------------------------------------------
(* Reports.                                                                *)

\* A query that is under way is one process's own and has no lookup yet.
Asked ==
    /\ \A q \in Queries \ issued : of[q] = None
    /\ \A p \in Processes : pc[p] # "idle" /\ op[p].query # None =>
         /\ op[p].query \in issued /\ of[op[p].query] = None
         /\ \A r \in Processes : pc[r] # "idle" /\ op[r].query = op[p].query => r = p

\* What a step may do to the tables a report depends on.
Grows ==
    /\ stored' \subseteq stored
    /\ \A q \in Queries :
         /\ of[q] # None => of'[q] = of[q]
         /\ pairs'[q] >= pairs[q]
         /\ \A k \in Kinds : events'[q][k] >= events[q][k]

\* Only the process that takes a step moves.
Alone(p) ==
    \A r \in Processes \ {p} : pc'[r] = pc[r] /\ op'[r] = op[r] /\ result'[r] = result[r]

\* A step that neither begins nor answers a query keeps queries apart.
LEMMA AskedElsewhere ==
  ASSUME Asked, NEW p \in Processes, Alone(p), issued' = issued, of' = of,
         \/ pc'[p] = "idle"
         \/ op'[p].query = None
         \/ pc[p] # "idle" /\ op'[p].query = op[p].query
  PROVE  Asked'
BY DEF Asked, Alone

\* Every step keeps queries apart.
LEMMA AskedStep == Typed /\ Asked /\ [Next]_vars => Asked'
<1> SUFFICES ASSUME Typed, Asked, [Next]_vars PROVE Asked'
  OBVIOUS
<1>0. /\ pc \in [Processes -> Steps] /\ op \in [Processes -> Operations]
      /\ result \in [Processes -> {"none", "true", "false", "constraint", "locked"}]
      /\ of \in [Queries -> Entries \cup {None}] /\ issued \subseteq Queries /\ Prepared
  BY DEF Typed, TypeOK, Operations
<1> USE DEF rows, bounds, history, locks, Alone, Starts
<1>1. ASSUME NEW p \in Processes, NEW q \in Queries, Ask(p, q) PROVE Asked'
  <2>1. /\ Alone(p) /\ op'[p].query = q /\ pc'[p] = "find"
        /\ q \notin issued /\ issued' = issued \cup {q} /\ of' = of
    BY <1>0, <1>1 DEF Ask, Nothing
  <2>2. of[q] = None /\ \A r \in Processes : pc[r] # "idle" => op[r].query # q
    BY <2>1, NoneAssumption DEF Asked
  <2> QED
    BY <2>1, <2>2 DEF Asked
<1>2. ASSUME NEW p \in Processes, NEW q \in Queries, NEW kind \in {"bad", "good"},
             Report(p, kind, q)
      PROVE  Asked'
  <2>1. Alone(p) /\ op'[p].query = None /\ issued' = issued /\ of' = of
    BY <1>0, <1>2 DEF Report, Nothing
  <2> QED
    BY <2>1, AskedElsewhere
<1>3. ASSUME NEW p \in Processes, Find(p) PROVE Asked'
  <2>1. /\ Alone(p) /\ op'[p].query = op[p].query /\ issued' = issued /\ of' = of
        /\ pc[p] # "idle"
    BY <1>0, <1>3 DEF Find, Operations
  <2> QED
    BY <2>1, AskedElsewhere
<1>4. ASSUME NEW p \in Processes,
             Recheck(p) \/ Insert(p) \/ Count(p) \/ Pair(p) \/ Update(p) \/ Delete(p)
      PROVE  Asked'
  <2>1. /\ Alone(p) /\ issued' = issued /\ of' = of /\ pc[p] # "idle"
        /\ pc'[p] = "idle" \/ op' = op
    BY <1>0, <1>4 DEF Recheck, Insert, Count, Pair, Update, Delete, Refused, Violated,
                      AfterFeedback, Goto, Ends
  <2> QED
    BY <2>1, AskedElsewhere
<1>5. ASSUME NEW p \in Processes, Search(p) PROVE Asked'
  <2>1. /\ Alone(p) /\ issued' = issued /\ of' = of /\ pc[p] # "idle"
        /\ pc'[p] = "idle" \/ op'[p].query = op[p].query
    BY <1>0, <1>5 DEF Search, Ends, Operations
  <2> QED
    BY <2>1, AskedElsewhere
<1>6. ASSUME NEW p \in Processes, Record(p) PROVE Asked'
  <2>1. /\ Alone(p) /\ issued' = issued /\ pc'[p] = "idle" /\ pc[p] # "idle"
        /\ \A q \in Queries : q # op[p].query => of'[q] = of[q]
    BY <1>0, <1>6 DEF Record, Refused, Violated, Ends
  <2>2. op[p].query \in Queries
    BY <1>0, <1>6 DEF Record, Prepared
  <2>3. op[p].query \in issued
    BY <2>1, <2>2, NoneAssumption DEF Asked
  <2>4. ASSUME NEW r \in Processes, pc'[r] # "idle", op'[r].query # None
        PROVE  of'[op'[r].query] = None
    <3>1. r # p /\ pc[r] # "idle" /\ op[r].query # None
      BY <2>1, <2>4
    <3>2. op[r].query # op[p].query /\ of[op[r].query] = None /\ op[r].query \in Queries
      BY <1>0, <2>1, <2>2, <3>1, NoneAssumption DEF Asked, Operations
    <3> QED
      BY <2>1, <3>2
  <2> QED
    BY <2>1, <2>3, <2>4 DEF Asked
<1>7. ASSUME NEW p \in Processes, Choose(p) PROVE Asked'
  <2>1. Alone(p) /\ op'[p].query = None /\ issued' = issued /\ of' = of
    BY <1>0, <1>7 DEF Choose, Nothing
  <2> QED
    BY <2>1, AskedElsewhere
<1>8. ASSUME NEW p \in Processes, Evict(p) \/ Crash(p) PROVE Asked'
  <2>1. Alone(p) /\ pc'[p] = "idle" /\ issued' = issued /\ of' = of
    BY <1>0, <1>8 DEF Evict, Crash
  <2> QED
    BY <2>1, AskedElsewhere
<1>9. CASE Age \/ UNCHANGED vars
  BY <1>9 DEF Age, vars, Asked
<1> QED
  BY <1>1, <1>2, <1>3, <1>4, <1>5, <1>6, <1>7, <1>8, <1>9 DEF Next

\* Entries only leave, and lookups, events and pairs only come.
LEMMA GrowsStep ==
  ASSUME Typed, Asked, [Next]_vars
  PROVE  Grows
<1>0. /\ events \in [Queries -> [Kinds -> Nat]] /\ pairs \in [Queries -> Nat]
      /\ of \in [Queries -> Entries \cup {None}] /\ Prepared
  BY DEF Typed, TypeOK
<1> USE DEF rows
<1>1. CASE UNCHANGED << stored, of, events, pairs >>
  BY <1>0, <1>1 DEF Grows
<1>2. ASSUME NEW p \in Processes, Insert(p), ~UNCHANGED events PROVE Grows
  <2>1. /\ events' = [events EXCEPT ![op[p].lookup][op[p].kind] = @ + 1]
        /\ UNCHANGED << stored, of, pairs >>
    BY <1>2 DEF Insert, Refused, Violated
  <2> QED
    BY <1>0, <2>1 DEF Grows
<1>3. ASSUME NEW p \in Processes, Pair(p), ~UNCHANGED pairs PROVE Grows
  <2>1. /\ pairs' = [pairs EXCEPT ![op[p].lookup] = @ + 1]
        /\ UNCHANGED << stored, of, events >>
    BY <1>3 DEF Pair, Refused
  <2> QED
    BY <1>0, <2>1 DEF Grows
<1>4. ASSUME NEW p \in Processes, Record(p), ~UNCHANGED of PROVE Grows
  <2>1. /\ of' = [of EXCEPT ![op[p].query] = op[p].entry]
        /\ UNCHANGED << stored, events, pairs >>
    BY <1>4 DEF Record, Refused, Violated
  <2>2. of[op[p].query] = None
    BY <1>0, <1>4, NoneAssumption DEF Record, Prepared, Asked
  <2> QED
    BY <1>0, <2>1, <2>2 DEF Grows
<1>5. ASSUME NEW p \in Processes, Delete(p) \/ Evict(p), ~UNCHANGED stored PROVE Grows
  <2>1. stored' \subseteq stored /\ UNCHANGED << of, events, pairs >>
    BY <1>5 DEF Delete, Evict, Refused
  <2> QED
    BY <1>0, <2>1 DEF Grows
<1>6. ASSUME NEW p \in Processes, Insert(p), UNCHANGED events PROVE UNCHANGED << stored, of, pairs >>
  BY <1>6 DEF Insert, Refused, Violated
<1>7. ASSUME NEW p \in Processes, Pair(p), UNCHANGED pairs PROVE UNCHANGED << stored, of, events >>
  BY <1>7 DEF Pair, Refused
<1>8. ASSUME NEW p \in Processes, Record(p), UNCHANGED of PROVE UNCHANGED << stored, pairs, events >>
  BY <1>8 DEF Record, Refused, Violated
<1>9. ASSUME NEW p \in Processes, Delete(p) \/ Evict(p), UNCHANGED stored
      PROVE  UNCHANGED << of, pairs, events >>
  BY <1>9 DEF Delete, Evict, Refused
<1>10. ASSUME NEW p \in Processes,
              \/ \E q \in Queries : Ask(p, q)
              \/ \E q \in Queries, kind \in {"bad", "good"} : Report(p, kind, q)
              \/ Find(p) \/ Recheck(p) \/ Count(p) \/ Search(p) \/ Update(p)
              \/ Choose(p) \/ Crash(p)
       PROVE  UNCHANGED << stored, of, events, pairs >>
  BY <1>10 DEF Ask, Report, Find, Recheck, Count, Search, Update, Choose, Crash, Refused
<1>11. CASE Age \/ UNCHANGED vars
  BY <1>1, <1>11 DEF Age, vars
<1> QED
  BY <1>1, <1>2, <1>3, <1>4, <1>5, <1>6, <1>7, <1>8, <1>9, <1>10, <1>11 DEF Next

\* What process p has done of a report, and what it has reported.
KeptBy(p) ==
    LET q == op[p].lookup
        k == op[p].kind
    IN  /\ pc[p] \in {"count", "pair"} => events[q][k] > 0
        /\ pc[p] = "pair" => k # "good"
        /\ pc[p] = "delete" => k = "none"
        /\ pc[p] = "idle" /\ result[p] = "true" /\ k \in {"bad", "good"} =>
             /\ q \in Queries /\ of[q] # None
             /\ Live(q) => events[q][k] > 0 /\ (k = "bad" => pairs[q] > 0)

Kept == \A p \in Processes : KeptBy(p)

\* What a process has done is not undone by a step in which it does not move.
LEMMA KeptElsewhere ==
  ASSUME Typed, Typed', Grows, NEW p \in Processes, KeptBy(p),
         pc'[p] = pc[p], op'[p] = op[p], result'[p] = result[p]
  PROVE  KeptBy(p)'
<1>0. /\ events \in [Queries -> [Kinds -> Nat]] /\ pairs \in [Queries -> Nat] /\ Prepared
      /\ events' \in [Queries -> [Kinds -> Nat]] /\ pairs' \in [Queries -> Nat]
  BY DEF Typed, TypeOK
<1>1. PICK q : q = op[p].lookup
  OBVIOUS
<1>2. PICK k : k = op[p].kind
  OBVIOUS
<1>3. pc[p] \in {"count", "pair"} => q \in Queries /\ k \in Kinds
  BY <1>0, <1>1, <1>2 DEF Prepared
<1>4. q \in Queries /\ k \in Kinds /\ events[q][k] > 0 => events'[q][k] > 0
  BY <1>0 DEF Grows
<1>5. q \in Queries /\ pairs[q] > 0 => pairs'[q] > 0
  BY <1>0 DEF Grows
<1>6. q \in Queries /\ of[q] # None => of'[q] = of[q] /\ (Live(q)' => Live(q))
  BY DEF Live, Grows
<1>7. k \in {"bad", "good"} => k \in Kinds
  BY DEF Kinds
<1> QED
  BY <1>1, <1>2, <1>3, <1>4, <1>5, <1>6, <1>7 DEF KeptBy

\* A process that is not about to count, and has no report of its own recorded,
\* has nothing to keep.
LEMMA NothingToKeep ==
  ASSUME NEW p \in Processes,
         pc'[p] \in {"idle", "find", "recheck", "insert", "search", "update", "record"},
         pc'[p] # "idle" \/ result'[p] # "true" \/ op'[p].kind \notin {"bad", "good"}
  PROVE  KeptBy(p)'
BY DEF KeptBy

\* Every step keeps what was reported.
LEMMA KeptStep == Typed /\ Typed' /\ Asked /\ Kept /\ [Next]_vars => Kept'
<1> SUFFICES ASSUME Typed, Typed', Asked, Kept, [Next]_vars PROVE Kept'
  OBVIOUS
<1>0. /\ pc \in [Processes -> Steps] /\ op \in [Processes -> Operations]
      /\ result \in [Processes -> {"none", "true", "false", "constraint", "locked"}]
      /\ of \in [Queries -> Entries \cup {None}]
      /\ events \in [Queries -> [Kinds -> Nat]] /\ pairs \in [Queries -> Nat] /\ Prepared
  BY DEF Typed, TypeOK, Operations
<1>a. Grows
  BY GrowsStep
<1>b. ASSUME NEW p \in Processes, Alone(p), KeptBy(p)' PROVE Kept'
  BY <1>a, <1>b, KeptElsewhere DEF Kept, Alone
<1> USE DEF rows, bounds, history, locks, Alone, Starts
<1>1. ASSUME NEW p \in Processes, NEW q \in Queries, Ask(p, q) PROVE Kept'
  <2>1. Alone(p) /\ pc'[p] = "find"
    BY <1>0, <1>1 DEF Ask
  <2> QED
    BY <1>b, <2>1, NothingToKeep
<1>2. ASSUME NEW p \in Processes, NEW q \in Queries, NEW kind \in {"bad", "good"},
             Report(p, kind, q)
      PROVE  Kept'
  <2>1. Alone(p) /\ (pc'[p] = "recheck" \/ (pc'[p] = "idle" /\ result'[p] = "false"))
    BY <1>0, <1>2 DEF Report
  <2> QED
    BY <1>b, <2>1, NothingToKeep
<1>3. ASSUME NEW p \in Processes, Find(p) PROVE Kept'
  <2>1. Alone(p) /\ pc'[p] \in {"search", "recheck"}
    BY <1>0, <1>3 DEF Find
  <2> QED
    BY <1>b, <2>1, NothingToKeep
<1>4. ASSUME NEW p \in Processes, Refused(p) PROVE Kept'
  <2>1. Alone(p) /\ pc'[p] = "idle" /\ result'[p] = "locked"
    BY <1>0, <1>4 DEF Refused, Ends
  <2> QED
    BY <1>b, <2>1, NothingToKeep
<1>5. ASSUME NEW p \in Processes, NEW e, Violated(p, e) PROVE Kept'
  <2>1. Alone(p) /\ pc'[p] = "idle" /\ result'[p] = "constraint"
    BY <1>0, <1>5 DEF Violated, Ends
  <2> QED
    BY <1>b, <2>1, NothingToKeep
<1>6. ASSUME NEW p \in Processes, Recheck(p) PROVE Kept'
  <2>1. /\ Alone(p)
        /\ pc'[p] \in {"insert", "search"} \/ (pc'[p] = "idle" /\ result'[p] = "false")
    BY <1>0, <1>6 DEF Recheck, AfterFeedback, Goto, Ends
  <2> QED
    BY <1>b, <2>1, NothingToKeep
<1>7. ASSUME NEW p \in Processes, Insert(p) PROVE Kept'
  <2>1. PICK q \in Queries : q = op[p].lookup
    BY <1>0, <1>7 DEF Insert, Prepared
  <2>2. PICK k \in Kinds : k = op[p].kind
    BY <1>0, <1>7 DEF Insert, Prepared
  <2>3. CASE Goto(p, "count") /\ events' = [events EXCEPT ![q][k] = @ + 1]
    <3>1. Alone(p) /\ pc'[p] = "count" /\ op' = op /\ events'[q][k] > 0
      BY <1>0, <2>1, <2>2, <2>3 DEF Goto
    <3>2. KeptBy(p)'
      BY <2>1, <2>2, <3>1 DEF KeptBy
    <3> QED
      BY <1>b, <3>1, <3>2
  <2> QED
    BY <1>4, <1>5, <1>7, <2>1, <2>2, <2>3 DEF Insert
<1>8. ASSUME NEW p \in Processes, Count(p) PROVE Kept'
  <2>1. PICK q \in Queries : q = op[p].lookup
    BY <1>0, <1>8 DEF Count, Prepared
  <2>2. PICK k \in Kinds : k = op[p].kind
    BY <1>0, <1>8 DEF Count, Prepared
  <2>3. events[q][k] > 0 /\ of[q] # None
    BY <1>0, <1>8, <2>1, <2>2, NoneAssumption DEF Count, Kept, KeptBy, Prepared
  <2>4. CASE k = "good" /\ ~Refused(p)
    <3>1. Alone(p) /\ pc'[p] = "idle" /\ op' = op /\ events' = events /\ of' = of
      BY <1>0, <1>8, <2>2, <2>4 DEF Count, Ends
    <3>2. KeptBy(p)'
      BY <2>1, <2>2, <2>3, <2>4, <3>1 DEF KeptBy
    <3> QED
      BY <1>b, <3>1, <3>2
  <2>5. CASE k # "good" /\ ~Refused(p)
    <3>1. Alone(p) /\ pc'[p] = "pair" /\ op' = op /\ events' = events
      BY <1>0, <1>8, <2>2, <2>5 DEF Count, Goto
    <3>2. KeptBy(p)'
      BY <2>1, <2>2, <2>3, <2>5, <3>1 DEF KeptBy
    <3> QED
      BY <1>b, <3>1, <3>2
  <2> QED
    BY <1>4, <2>4, <2>5
<1>9. ASSUME NEW p \in Processes, Pair(p) PROVE Kept'
  <2>1. PICK q \in Queries : q = op[p].lookup
    BY <1>0, <1>9 DEF Pair, Prepared
  <2>2. PICK k \in Kinds : k = op[p].kind
    BY <1>0, <1>9 DEF Pair, Prepared
  <2>3. events[q][k] > 0 /\ of[q] # None
    BY <1>0, <1>9, <2>1, <2>2, NoneAssumption DEF Pair, Kept, KeptBy, Prepared
  <2>4. CASE ~Refused(p)
    <3>1. /\ Alone(p) /\ pc'[p] \in {"idle", "search"} /\ op' = op /\ events' = events
          /\ stored' = stored /\ of' = of
      <4>1. k # "good"
        BY <1>9, <2>2 DEF Pair, Kept, KeptBy
      <4> QED
        BY <1>0, <1>9, <2>2, <2>4, <4>1 DEF Pair, AfterFeedback, Ends, Goto, Kinds
    <3>2. Live(q) => pairs'[q] > 0
      BY <1>0, <1>9, <2>1, <2>4 DEF Pair
    <3>3. KeptBy(p)'
      BY <2>1, <2>2, <2>3, <3>1, <3>2 DEF KeptBy, Live
    <3> QED
      BY <1>b, <3>1, <3>3
  <2> QED
    BY <1>4, <2>4
<1>10. ASSUME NEW p \in Processes, Search(p) PROVE Kept'
  <2>1. Alone(p) /\ (pc'[p] = "update" \/ (pc'[p] = "idle" /\ result'[p] = "false"))
    BY <1>0, <1>10 DEF Search, Ends
  <2> QED
    BY <1>b, <2>1, NothingToKeep
<1>11. ASSUME NEW p \in Processes, Update(p) PROVE Kept'
  <2>1. CASE ~Refused(p)
    <3>1. Alone(p) /\ pc'[p] = "record"
      BY <1>0, <1>11, <2>1 DEF Update, Goto
    <3> QED
      BY <1>b, <3>1, NothingToKeep
  <2> QED
    BY <1>4, <2>1
<1>12. ASSUME NEW p \in Processes, Record(p) PROVE Kept'
  <2>1. CASE Ends(p, "true")
    <3>1. Alone(p) /\ pc'[p] = "idle" /\ op'[p].kind = "none"
      BY <1>0, <1>12, <2>1 DEF Record, Ends, Prepared, Nothing
    <3> QED
      BY <1>b, <3>1, NothingToKeep
  <2> QED
    BY <1>4, <1>5, <1>12, <2>1 DEF Record
<1>13. ASSUME NEW p \in Processes, Choose(p) PROVE Kept'
  <2>1. Alone(p) /\ pc'[p] = "delete" /\ op'[p].kind = "none"
    BY <1>0, <1>13 DEF Choose, Nothing
  <2>2. KeptBy(p)'
    BY <2>1 DEF KeptBy
  <2> QED
    BY <1>b, <2>1, <2>2
<1>14. ASSUME NEW p \in Processes, Delete(p) PROVE Kept'
  <2>1. CASE ~Refused(p)
    <3>1. Alone(p) /\ pc'[p] = "idle" /\ op'[p].kind = "none"
      BY <1>0, <1>14, <2>1 DEF Delete, Ends, Kept, KeptBy, Nothing
    <3> QED
      BY <1>b, <3>1, NothingToKeep
  <2> QED
    BY <1>4, <2>1
<1>15. ASSUME NEW p \in Processes, Crash(p) PROVE Kept'
  <2>1. Alone(p) /\ pc'[p] = "idle" /\ result'[p] = "none"
    BY <1>0, <1>15 DEF Crash
  <2> QED
    BY <1>b, <2>1, NothingToKeep
<1>16. CASE (\E p \in Processes : Evict(p)) \/ Age \/ UNCHANGED vars
  <2>1. UNCHANGED << pc, op, result >>
    BY <1>16 DEF Evict, Age, vars
  <2> QED
    BY <1>a, <2>1, KeptElsewhere DEF Kept
<1> QED
  BY <1>1, <1>2, <1>3, <1>6, <1>7, <1>8, <1>9, <1>10, <1>11, <1>12, <1>13, <1>14,
     <1>15, <1>16 DEF Next

\* A report that answered "recorded" is in the store as long as its entry is,
\* and its pair for training with it.
THEOREM ReportsAreKept == Spec => []ReportsKept
<1>1. Init => Asked /\ Kept
  BY DEF Init, Asked, Kept, KeptBy, Nothing
<1>2. Kept => ReportsKept
  BY DEF Kept, KeptBy, ReportsKept
<1> QED
  BY <1>1, <1>2, AskedStep, KeptStep, AlwaysTyped, PTL DEF Spec


-----------------------------------------------------------------------------
(* Counters.                                                               *)

\* The counters of an entry, by the kinds of events they count.
KindSets == {{"implicit", "bad"}, {"good"}}
Counter(e, kinds) == IF kinds = {"good"} THEN positive[e] ELSE negative[e]

Tallied(e, kinds) ==
    /\ IsFiniteSet(EventsOn(e, kinds)) /\ IsFiniteSet(Counting(e, kinds))
    /\ e \in stored \ short =>
         Counter(e, kinds) + Cardinality(Counting(e, kinds)) = Cardinality(EventsOn(e, kinds))

Tally == \A e \in Entries, kinds \in KindSets : Tallied(e, kinds)

\* A query without a lookup has no events.
Unanswered == \A q \in Queries : of[q] = None => \A k \in Kinds : events[q][k] = 0

\* An event is the query of its lookup, its kind and its number.
LEMMA EventsOnMember ==
  ASSUME NEW e, NEW kinds, NEW x
  PROVE  x \in EventsOn(e, kinds) <=>
           \E q \in Queries, k \in kinds : \E n \in 1 .. events[q][k] :
             of[q] = e /\ x = << << q, k >>, n >>
BY DEF EventsOn

\* A step that records and counts nothing keeps the tally, if a process about
\* to count goes away only where it is known that it did.
LEMMA TallyKept ==
  ASSUME NEW e, NEW kinds, Tallied(e, kinds), UNCHANGED << of, events, negative, positive >>,
         stored' \subseteq stored, short \subseteq short',
         \/ Counting(e, kinds)' = Counting(e, kinds)
         \/ Counting(e, kinds)' \subseteq Counting(e, kinds) /\ e \in short'
  PROVE  Tallied(e, kinds)'
<1>1. EventsOn(e, kinds)' = EventsOn(e, kinds)
  BY DEF EventsOn
<1>2. IsFiniteSet(Counting(e, kinds)')
  BY FS_Subset DEF Tallied
<1>3. e \in (stored \ short)' => e \in stored \ short /\ Counting(e, kinds)' = Counting(e, kinds)
  OBVIOUS
<1> QED
  BY <1>1, <1>2, <1>3 DEF Tallied, Counter

\* Every step keeps a query without a lookup free of events.
LEMMA UnansweredStep == Typed /\ Asked /\ Unanswered /\ [Next]_vars => Unanswered'
<1> SUFFICES ASSUME Typed, Asked, Unanswered, [Next]_vars PROVE Unanswered'
  OBVIOUS
<1> USE DEF rows, bounds, history, locks
<1>0. /\ of \in [Queries -> Entries \cup {None}] /\ events \in [Queries -> [Kinds -> Nat]]
      /\ stored \subseteq Entries /\ Prepared
  BY DEF Typed, TypeOK
<1>1. ASSUME UNCHANGED << of, events >> PROVE Unanswered'
  BY <1>1 DEF Unanswered
<1>2. ASSUME NEW p \in Processes, Insert(p) PROVE Unanswered'
  <2>1. CASE UNCHANGED << of, events >>
    BY <1>1, <2>1
  <2>2. CASE of' = of /\ events' = [events EXCEPT ![op[p].lookup][op[p].kind] = @ + 1]
    <3>1. of[op[p].lookup] # None
      BY <1>0, <1>2, NoneAssumption DEF Insert, Prepared
    <3> QED
      BY <2>2, <3>1 DEF Unanswered
  <2> QED
    BY <1>2, <2>1, <2>2 DEF Insert, Refused, Violated
<1>3. ASSUME NEW p \in Processes, Record(p) PROVE Unanswered'
  <2>1. events' = events /\ \A q \in Queries : of'[q] = None => of[q] = None
    BY <1>0, <1>3, NoneAssumption DEF Record, Refused, Violated
  <2> QED
    BY <2>1 DEF Unanswered
<1>4. ASSUME NEW p \in Processes,
             \/ Find(p) \/ Recheck(p) \/ Count(p) \/ Pair(p) \/ Search(p) \/ Update(p)
             \/ Choose(p) \/ Delete(p) \/ Evict(p) \/ Crash(p)
             \/ \E q \in Queries : Ask(p, q) \/ \E kind \in {"bad", "good"} : Report(p, kind, q)
      PROVE  Unanswered'
  BY <1>1, <1>4 DEF Find, Recheck, Count, Pair, Search, Update, Choose, Delete, Evict, Crash, Ask,
                    Report, Refused
<1>5. CASE Age \/ UNCHANGED vars
  BY <1>1, <1>5 DEF Age, vars
<1> QED
  BY <1>2, <1>3, <1>4, <1>5 DEF Next

\* A recorded event is one more event of its entry, and its process is one
\* more about to count it.
LEMMA TallyInsert ==
  ASSUME Typed, NEW p \in Processes, NEW e \in Entries, NEW kinds \in KindSets, Tallied(e, kinds),
         pc[p] = "insert", Goto(p, "count"),
         events' = [events EXCEPT ![op[p].lookup][op[p].kind] = @ + 1],
         UNCHANGED << of, stored, short, negative, positive >>
  PROVE  Tallied(e, kinds)'
<1>0. /\ pc \in [Processes -> Steps] /\ of \in [Queries -> Entries \cup {None}]
      /\ events \in [Queries -> [Kinds -> Nat]] /\ Prepared
  BY DEF Typed, TypeOK
<1>1. PICK q \in Queries, k \in Kinds : q = op[p].lookup /\ k = op[p].kind
  BY <1>0 DEF Prepared
<1>2. /\ events[q][k] \in Nat /\ events'[q][k] = events[q][k] + 1
      /\ \A r \in Queries, j \in Kinds : r # q \/ j # k => events'[r][j] = events[r][j]
  BY <1>0, <1>1
<1>3. op' = op /\ pc'[p] = "count" /\ \A o \in Processes \ {p} : pc'[o] = pc[o]
  BY <1>0 DEF Goto
<1>4. kinds \subseteq Kinds
  BY DEF KindSets, Kinds
<1>5. CASE of[q] = e /\ k \in kinds
  <2> DEFINE x == << << q, k >>, events[q][k] + 1 >>
  <2>1. EventsOn(e, kinds)' = EventsOn(e, kinds) \cup {x} /\ x \notin EventsOn(e, kinds)
    <3>1. x \notin EventsOn(e, kinds)
      BY <1>0, <1>2, <1>4, EventsOnMember
    <3>2. x \in EventsOn(e, kinds)'
      <4>1. events[q][k] + 1 \in 1 .. events'[q][k]
        BY <1>2
      <4> QED
        BY <1>5, <4>1 DEF EventsOn
    <3>3. \A y \in EventsOn(e, kinds) : y \in EventsOn(e, kinds)'
      <4> SUFFICES ASSUME NEW y \in EventsOn(e, kinds) PROVE y \in EventsOn(e, kinds)'
        OBVIOUS
      <4>1. PICK r \in Queries, j \in kinds : \E n \in 1 .. events[r][j] :
              of[r] = e /\ y = << << r, j >>, n >>
        BY EventsOnMember
      <4>2. \A n \in 1 .. events[r][j] : n \in 1 .. events'[r][j]
        BY <1>0, <1>2, <1>4
      <4> QED
        BY <4>1, <4>2 DEF EventsOn
    <3>4. \A y \in EventsOn(e, kinds)' : y \in EventsOn(e, kinds) \/ y = x
      <4> SUFFICES ASSUME NEW y \in EventsOn(e, kinds)' PROVE y \in EventsOn(e, kinds) \/ y = x
        OBVIOUS
      <4>1. PICK r \in Queries, j \in kinds : \E n \in 1 .. events'[r][j] :
              of[r] = e /\ y = << << r, j >>, n >>
        BY DEF EventsOn
      <4>2. PICK n \in 1 .. events'[r][j] : of[r] = e /\ y = << << r, j >>, n >>
        BY <4>1
      <4>3. n \in 1 .. events[r][j] \/ (r = q /\ j = k /\ n = events[q][k] + 1)
        <5>1. CASE r = q /\ j = k
          BY <1>2, <4>2, <5>1
        <5>2. CASE ~(r = q /\ j = k)
          BY <1>2, <1>4, <4>2, <5>2
        <5> QED
          BY <5>1, <5>2
      <4> QED
        BY <4>2, <4>3, EventsOnMember
    <3> QED
      BY <3>1, <3>2, <3>3, <3>4
  <2>2. Counting(e, kinds)' = Counting(e, kinds) \cup {p} /\ p \notin Counting(e, kinds)
    BY <1>1, <1>3, <1>5 DEF Counting
  <2>3. /\ IsFiniteSet(EventsOn(e, kinds)')
        /\ Cardinality(EventsOn(e, kinds)') = Cardinality(EventsOn(e, kinds)) + 1
    <3> HIDE DEF x
    <3> QED
      BY <2>1, FS_AddElement DEF Tallied
  <2>4. /\ IsFiniteSet(Counting(e, kinds)')
        /\ Cardinality(Counting(e, kinds)') = Cardinality(Counting(e, kinds)) + 1
    BY <2>2, FS_AddElement DEF Tallied
  <2>5. /\ Cardinality(Counting(e, kinds)) \in Nat /\ Cardinality(EventsOn(e, kinds)) \in Nat
        /\ Counter(e, kinds) \in Nat /\ Counter(e, kinds)' = Counter(e, kinds)
    BY FS_CardinalityType DEF Tallied, Counter, Typed, TypeOK
  <2> QED
    BY <2>3, <2>4, <2>5 DEF Tallied
<1>6. CASE of[q] # e \/ k \notin kinds
  <2>1. EventsOn(e, kinds)' = EventsOn(e, kinds)
    <3>1. \A r \in Queries, j \in kinds : of[r] = e => events'[r][j] = events[r][j]
      BY <1>2, <1>4, <1>6
    <3> QED
      BY <3>1 DEF EventsOn
  <2>2. Counting(e, kinds)' = Counting(e, kinds)
    BY <1>1, <1>3, <1>6 DEF Counting
  <2> QED
    BY <2>1, <2>2 DEF Tallied, Counter
<1> QED
  BY <1>5, <1>6

\* The counter goes up as its process stops being about to count.
LEMMA TallyCount ==
  ASSUME Typed, NEW p \in Processes, NEW e \in Entries, NEW kinds \in KindSets, Tallied(e, kinds),
         Count(p), ~Refused(p)
  PROVE  Tallied(e, kinds)'
<1> USE DEF rows, bounds, history
<1>0. /\ pc \in [Processes -> Steps] /\ of \in [Queries -> Entries \cup {None}]
      /\ negative \in [Entries -> Nat] /\ positive \in [Entries -> Nat] /\ Prepared
  BY DEF Typed, TypeOK
<1>1. PICK d \in Entries, k \in Kinds : d = of[op[p].lookup] /\ k = op[p].kind
  BY <1>0 DEF Count, Prepared
<1>2. /\ UNCHANGED << stored, of, events, short >> /\ pc[p] = "count" /\ pc'[p] # "count"
      /\ \A o \in Processes \ {p} : pc'[o] = pc[o] /\ op'[o] = op[o]
  BY <1>0 DEF Count, Goto, Ends
<1>3. /\ k = "good" => /\ negative' = negative
                       /\ positive' = [positive EXCEPT ![d] = IF d \in stored THEN @ + 1 ELSE @]
      /\ k # "good" => /\ positive' = positive
                       /\ negative' = [negative EXCEPT ![d] = IF d \in stored THEN @ + 1 ELSE @]
  BY <1>1 DEF Count
<1>4. k \in kinds <=> (k = "good" <=> kinds = {"good"})
  BY DEF KindSets, Kinds
<1>5. EventsOn(e, kinds)' = EventsOn(e, kinds)
  BY <1>2 DEF EventsOn
<1>6. CASE d = e /\ k \in kinds
  <2>1. Counting(e, kinds)' = Counting(e, kinds) \ {p} /\ p \in Counting(e, kinds)
    BY <1>1, <1>2, <1>6 DEF Counting
  <2>2. /\ IsFiniteSet(Counting(e, kinds)')
        /\ Cardinality(Counting(e, kinds)') = Cardinality(Counting(e, kinds)) - 1
    BY <2>1, FS_RemoveElement DEF Tallied
  <2>3. e \in stored => Counter(e, kinds)' = Counter(e, kinds) + 1
    BY <1>0, <1>3, <1>4, <1>6 DEF Counter
  <2>4. /\ Cardinality(Counting(e, kinds)) \in Nat /\ Cardinality(EventsOn(e, kinds)) \in Nat
        /\ Counter(e, kinds) \in Nat
    BY <1>0, FS_CardinalityType DEF Tallied, Counter
  <2> QED
    BY <1>2, <1>5, <2>2, <2>3, <2>4 DEF Tallied
<1>7. CASE d # e \/ k \notin kinds
  <2>1. Counting(e, kinds)' = Counting(e, kinds)
    BY <1>1, <1>2, <1>7 DEF Counting
  <2>2. Counter(e, kinds)' = Counter(e, kinds)
    BY <1>0, <1>3, <1>4, <1>7 DEF Counter
  <2> QED
    BY <1>2, <1>5, <2>1, <2>2 DEF Tallied
<1> QED
  BY <1>6, <1>7

\* A lookup is recorded before there is any event on it.
LEMMA TallyRecord ==
  ASSUME Typed, Asked, Unanswered, NEW p \in Processes, NEW e \in Entries,
         NEW kinds \in KindSets, Tallied(e, kinds), pc[p] = "record",
         of' = [of EXCEPT ![op[p].query] = op[p].entry], Ends(p, "true"),
         UNCHANGED << events, stored, short, negative, positive >>
  PROVE  Tallied(e, kinds)'
<1>0. /\ pc \in [Processes -> Steps] /\ of \in [Queries -> Entries \cup {None}] /\ Prepared
      /\ events \in [Queries -> [Kinds -> Nat]] /\ kinds \subseteq Kinds
  BY DEF Typed, TypeOK, KindSets, Kinds
<1>1. PICK q \in Queries : q = op[p].query
  BY <1>0 DEF Prepared
<1>2. of[q] = None
  BY <1>1, NoneAssumption DEF Asked
<1>3. \A k \in kinds : events[q][k] = 0
  BY <1>0, <1>2 DEF Unanswered
<1>4. \A r \in Queries \ {q} : of'[r] = of[r]
  BY <1>1
<1>5. EventsOn(e, kinds)' = EventsOn(e, kinds)
  <2>1. \A x : x \in EventsOn(e, kinds)' <=>
                 \E r \in Queries, k \in kinds : \E n \in 1 .. events[r][k] :
                   of'[r] = e /\ x = << << r, k >>, n >>
    BY DEF EventsOn
  <2>2. \A r \in Queries, k \in kinds : \A n \in 1 .. events[r][k] : r # q /\ of'[r] = of[r]
    BY <1>3, <1>4
  <2>3. \A x : x \in EventsOn(e, kinds)' <=> x \in EventsOn(e, kinds)
    BY <2>1, <2>2, EventsOnMember
  <2> QED
    BY <2>3
<1>6. Counting(e, kinds)' = Counting(e, kinds)
  <2>1. pc'[p] = "idle" /\ \A o \in Processes \ {p} : pc'[o] = pc[o] /\ op'[o] = op[o]
    BY <1>0 DEF Ends
  <2>2. \A o \in Processes : pc[o] = "count" => of'[op[o].lookup] = of[op[o].lookup]
    BY <1>0, <1>2, <1>4, NoneAssumption DEF Prepared
  <2> QED
    BY <2>1, <2>2 DEF Counting
<1> QED
  BY <1>5, <1>6 DEF Tallied, Counter

\* Every step keeps the tally.
LEMMA TallyStep == Typed /\ Asked /\ Unanswered /\ Tally /\ [Next]_vars => Tally'
<1> SUFFICES ASSUME Typed, Asked, Unanswered, Tally, [Next]_vars,
                    NEW e \in Entries, NEW kinds \in KindSets
             PROVE  Tallied(e, kinds)'
  BY DEF Tally
<1> USE DEF rows, bounds, history, locks, Alone, Starts
<1>0. /\ pc \in [Processes -> Steps] /\ op \in [Processes -> Operations]
      /\ result \in [Processes -> {"none", "true", "false", "constraint", "locked"}]
      /\ Prepared /\ Tallied(e, kinds)
  BY DEF Typed, TypeOK, Operations, Tally
<1> DEFINE Quiet == /\ UNCHANGED << of, events, negative, positive >>
                    /\ stored' \subseteq stored /\ short \subseteq short'
<1>1. ASSUME NEW p \in Processes, Quiet, Alone(p), pc[p] # "count", pc'[p] # "count"
      PROVE  Tallied(e, kinds)'
  <2>1. Counting(e, kinds)' = Counting(e, kinds)
    BY <1>1 DEF Counting
  <2> QED
    BY <1>0, <1>1, <2>1, TallyKept
<1>2. ASSUME Quiet, UNCHANGED << pc, op >> PROVE Tallied(e, kinds)'
  <2>1. Counting(e, kinds)' = Counting(e, kinds)
    BY <1>2 DEF Counting
  <2> QED
    BY <1>0, <1>2, <2>1, TallyKept
(* A process that stops about to count marks the entry it leaves short.    *)
<1>3. ASSUME NEW p \in Processes, Quiet, Alone(p), CutShort(p), pc'[p] = "idle"
      PROVE  Tallied(e, kinds)'
  <2>1. CASE pc[p] # "count"
    BY <1>1, <1>3, <2>1
  <2>2. CASE pc[p] = "count"
    <3>1. \/ Counting(e, kinds)' = Counting(e, kinds)
          \/ Counting(e, kinds)' \subseteq Counting(e, kinds) /\ e \in short'
      BY <1>3, <2>2 DEF Counting, CutShort
    <3> QED
      BY <1>0, <1>3, <3>1, TallyKept
  <2> QED
    BY <2>1, <2>2
<1>4. ASSUME NEW p \in Processes, Refused(p) PROVE Tallied(e, kinds)'
  <2>1. Quiet /\ Alone(p) /\ CutShort(p) /\ pc'[p] = "idle"
    BY <1>0, <1>4 DEF Refused, Ends, CutShort
  <2> QED
    BY <1>3, <2>1
<1>5. ASSUME NEW p \in Processes, NEW d, Violated(p, d), pc[p] # "count" PROVE Tallied(e, kinds)'
  <2>1. Quiet /\ Alone(p) /\ pc'[p] = "idle"
    BY <1>0, <1>5 DEF Violated, Ends
  <2> QED
    BY <1>1, <1>5, <2>1
<1>6. ASSUME NEW p \in Processes, Insert(p) PROVE Tallied(e, kinds)'
  <2>1. CASE /\ Goto(p, "count")
             /\ events' = [events EXCEPT ![op[p].lookup][op[p].kind] = @ + 1]
             /\ UNCHANGED << of, stored, short, negative, positive >>
    BY <1>0, <1>6, <2>1, TallyInsert DEF Insert
  <2> QED
    BY <1>4, <1>5, <1>6, <2>1 DEF Insert
<1>7. ASSUME NEW p \in Processes, Count(p) PROVE Tallied(e, kinds)'
  BY <1>0, <1>4, <1>7, TallyCount
<1>8. ASSUME NEW p \in Processes, Record(p) PROVE Tallied(e, kinds)'
  <2>1. CASE /\ of' = [of EXCEPT ![op[p].query] = op[p].entry] /\ Ends(p, "true")
             /\ UNCHANGED << events, stored, short, negative, positive >>
    BY <1>0, <1>8, <2>1, TallyRecord DEF Record
  <2> QED
    BY <1>4, <1>5, <1>8, <2>1 DEF Record
<1>9. ASSUME NEW p \in Processes, Pair(p) \/ Update(p) \/ Delete(p) PROVE Tallied(e, kinds)'
  <2>1. CASE Refused(p)
    BY <1>4, <2>1
  <2>2. CASE ~Refused(p)
    <3>1. Quiet /\ Alone(p) /\ pc[p] # "count" /\ pc'[p] # "count"
      BY <1>0, <1>9, <2>2 DEF Pair, Update, Delete, AfterFeedback, Goto, Ends
    <3> QED
      BY <1>1, <3>1
  <2> QED
    BY <2>1, <2>2
<1>10. ASSUME NEW p \in Processes,
              \/ Find(p) \/ Recheck(p) \/ Search(p) \/ Choose(p)
              \/ \E q \in Queries : Ask(p, q) \/ \E kind \in {"bad", "good"} : Report(p, kind, q)
       PROVE  Tallied(e, kinds)'
  <2>1. Quiet /\ Alone(p) /\ pc[p] # "count" /\ pc'[p] # "count"
    BY <1>0, <1>10 DEF Find, Recheck, Search, Choose, Ask, Report, AfterFeedback, Goto, Ends
  <2> QED
    BY <1>1, <2>1
<1>11. ASSUME NEW p \in Processes, Crash(p) PROVE Tallied(e, kinds)'
  <2>1. Quiet /\ Alone(p) /\ CutShort(p) /\ pc'[p] = "idle"
    BY <1>0, <1>11 DEF Crash, CutShort
  <2> QED
    BY <1>3, <2>1
<1>12. CASE (\E p \in Processes : Evict(p)) \/ Age \/ UNCHANGED vars
  BY <1>2, <1>12 DEF Evict, Age, vars
<1> HIDE DEF Quiet
<1> QED
  BY <1>6, <1>7, <1>8, <1>9, <1>10, <1>11, <1>12 DEF Next

\* An entry's counters are what the events on its lookups amount to, but for
\* the events whose process is between its two statements or stopped there.
THEOREM CountsAreAccounted == Spec => []CountsAccounted
<1>1. Init => Asked /\ Unanswered /\ Tally
  <2> SUFFICES ASSUME Init PROVE Asked /\ Unanswered /\ Tally
    OBVIOUS
  <2>1. Asked /\ Unanswered
    BY DEF Init, Asked, Unanswered
  <2>2. ASSUME NEW e \in Entries, NEW kinds \in KindSets PROVE Tallied(e, kinds)
    <3>1. EventsOn(e, kinds) = {}
      <4>1. \A q \in Queries : of[q] = None
        BY DEF Init
      <4> QED
        BY <4>1, NoneAssumption DEF EventsOn
    <3>2. Counting(e, kinds) = {}
      BY DEF Init, Counting
    <3>3. Counter(e, kinds) = 0
      BY DEF Init, Counter
    <3> QED
      BY <3>1, <3>2, <3>3, FS_EmptySet DEF Tallied
  <2> QED
    BY <2>1, <2>2 DEF Tally
<1>2. Typed /\ Tally => CountsAccounted
  <2> SUFFICES ASSUME Typed, Tally, NEW e \in stored \ short
               PROVE  /\ negative[e] = Recorded(e, {"implicit", "bad"}) - Pending(e, {"implicit", "bad"})
                      /\ positive[e] = Recorded(e, {"good"}) - Pending(e, {"good"})
    BY DEF CountsAccounted
  <2>1. e \in Entries /\ negative[e] \in Nat /\ positive[e] \in Nat
    BY DEF Typed, TypeOK
  <2>2. \A kinds \in KindSets : Counter(e, kinds) + Pending(e, kinds) = Recorded(e, kinds)
                                /\ Pending(e, kinds) \in Nat
    BY <2>1, FS_CardinalityType DEF Tally, Tallied, Pending, Recorded
  <2>3. /\ Counter(e, {"good"}) = positive[e]
        /\ Counter(e, {"implicit", "bad"}) = negative[e]
    BY DEF Counter
  <2>4. {"good"} \in KindSets /\ {"implicit", "bad"} \in KindSets
    BY DEF KindSets
  <2> QED
    BY <2>1, <2>2, <2>3, <2>4
<1> QED
  BY <1>1, <1>2, AskedStep, UnansweredStep, TallyStep, AlwaysTyped, PTL DEF Spec
=============================================================================
