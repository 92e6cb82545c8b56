------------------------- MODULE VectorIndexProofs -------------------------
(***************************************************************************)
(* Proofs about VectorIndex, for any number of nodes, entries and faults.  *)
(***************************************************************************)
EXTENDS VectorIndex, TLAPS

USE DEF deployment, storeVars, nodeVars, ghostVars

---------------------------------------------------------------------------
(* Types and ids *)

(* The steps of a start that only a shared collection has. *)
Qdrant == {"opening", "creating", "deleting", "ensuring", "recreating"}

(* Where a node has read nothing, or is done with it. *)
Emptyhanded == {"down", "opening", "creating", "loading", "serving", "stored", "evicting"}

(* An id is free, or of a row, or of an evicted entry that some node may   *)
(* still hold; a node that removes points holds no row, and one that has   *)
(* nothing in hand, or no ids of what it evicts, holds none at all.        *)
Ids ==
  /\ rows \cap unused = {}
  /\ \A n \in Nodes : batch[n] \cap unused = {} /\ due[n] \notin unused
  /\ \A n \in Nodes : pc[n] = "removing" => batch[n] \cap rows = {}
  /\ \A n \in Nodes : pc[n] \in Emptyhanded \/ (~ listed /\ pc[n] \in Evicting) => batch[n] = {}
  /\ \A n \in Nodes : due[n] # NoEntry <=> pc[n] \in {"stored", "repairing"}
  /\ \A n \in Nodes : pc[n] \in Qdrant => shared
  /\ \A e \in Entries : stamp[e] <= version

(* Every step preserves the types. *)
LEMMA TypeStep == TypeOK /\ Ids /\ [Next]_vars => TypeOK'
<1> SUFFICES ASSUME TypeOK, Ids, [Next]_vars PROVE TypeOK'
  OBVIOUS
<1> USE IndexAssumption DEF TypeOK, Points, Places, Rebuilding, Reconciling, Evicting, At, Goto,
           Fault, Add, Remove
<1>1. ASSUME NEW n \in Nodes, Open(n) PROVE TypeOK'
  BY <1>1 DEF Open
<1>2. ASSUME NEW n \in Nodes, Ensure(n) PROVE TypeOK'
  BY <1>2 DEF Ensure
<1>3. ASSUME NEW n \in Nodes, Create(n) PROVE TypeOK'
  BY <1>3 DEF Create
<1>4. ASSUME NEW n \in Nodes, Load(n) PROVE TypeOK'
  BY <1>4 DEF Load
<1>5. ASSUME NEW n \in Nodes, Delete(n) PROVE TypeOK'
  <2>1. stray[Collection] \cap (Held(n) \cup batch[n]) \subseteq Entries
    OBVIOUS
  <2>2. stray' \in [Places -> SUBSET Entries]
    BY <1>5, <2>1 DEF Delete
  <2>3. index' \in [Places -> SUBSET Entries]
    BY <1>5 DEF Delete
  <2>4. pc' \in [Nodes -> Points]
    BY <1>5 DEF Delete
  <2>5. exists' = FALSE \/ exists' = exists
    BY <1>5 DEF Delete
  <2>6. faults' \in Nat
    BY <1>5 DEF Delete
  <2> QED
    BY <1>5, <2>2, <2>3, <2>4, <2>5, <2>6 DEF Delete
<1>6. ASSUME NEW n \in Nodes, Fill(n) PROVE TypeOK'
  BY <1>6 DEF Fill
<1>7. ASSUME NEW n \in Nodes, Index(n) PROVE TypeOK'
  BY <1>7 DEF Index, Ids
<1>8. ASSUME NEW n \in Nodes, NEW E \in SUBSET rows, Gone(n, E)
      PROVE  rows' \subseteq Entries /\ stray' \in [Places -> SUBSET Entries]
  <2>1. CASE shared
    BY <1>8, <2>1 DEF Gone
  <2>2. CASE ~ shared
    BY <1>8, <2>2 DEF Gone
  <2> QED
    BY <2>1, <2>2
<1>8a. ASSUME NEW n \in Nodes, NEW E \in SUBSET rows, Condemn(n, E)
       PROVE  /\ rows' \subseteq Entries /\ stray' \in [Places -> SUBSET Entries]
              /\ batch' \in [Nodes -> SUBSET Entries]
  BY <1>8, <1>8a DEF Condemn
<1>8b. ASSUME NEW n \in Nodes, Evict(n) PROVE TypeOK'
  BY <1>8a, <1>8b DEF Evict
<1>8c. ASSUME NEW n \in Nodes, EvictOverflow(n) PROVE TypeOK'
  <2>1. PICK E \in SUBSET rows : Condemn(n, E)
    BY <1>8c DEF EvictOverflow, Overflow
  <2> QED
    BY <1>8a, <1>8c, <2>1 DEF EvictOverflow
<1>8d. ASSUME NEW n \in Nodes, DeleteRow(n) PROVE TypeOK'
  <2>1. PICK e \in rows : Gone(n, {e})
    BY <1>8d DEF DeleteRow
  <2>2. {e} \in SUBSET rows
    BY <2>1
  <2> QED
    BY <1>8, <1>8d, <2>1, <2>2 DEF DeleteRow
<1>8e. ASSUME NEW n \in Nodes, StoreRefused(n) \/ Evicted(n) \/ EvictError(n) PROVE TypeOK'
  BY <1>8e DEF StoreRefused, Evicted, EvictError
<1>9. ASSUME NEW n \in Nodes, Unindex(n) PROVE TypeOK'
  BY <1>9 DEF Unindex
<1>10. ASSUME NEW n \in Nodes, Reconcile(n) PROVE TypeOK'
  BY <1>10 DEF Reconcile
<1>11. ASSUME NEW n \in Nodes, Check(n) PROVE TypeOK'
  BY <1>11 DEF Check, Checked
<1>12. ASSUME NEW n \in Nodes, Repair(n) PROVE TypeOK'
  BY <1>12 DEF Repair, Ids
<1>13. ASSUME NEW n \in Nodes, Reconciled(n) PROVE TypeOK'
  BY <1>13 DEF Reconciled
<1>14. ASSUME NEW n \in Nodes, Leave(n) PROVE TypeOK'
  BY <1>14 DEF Leave
<1>15. ASSUME NEW n \in Nodes, NEW e \in Entries, Store(n, e) PROVE TypeOK'
  BY <1>15 DEF Store, Stored
<1>16. CASE Invalidate
  BY <1>16 DEF Invalidate
<1>17. CASE UNCHANGED vars
  BY <1>17 DEF vars
<1> QED
  BY <1>1, <1>2, <1>3, <1>4, <1>5, <1>6, <1>7, <1>8b, <1>8c, <1>8d, <1>8e, <1>9, <1>10, <1>11,
     <1>12, <1>13, <1>14, <1>15, <1>16, <1>17 DEF Next

(* Every step preserves these facts. *)
LEMMA IdsStep == TypeOK /\ Ids /\ [Next]_vars => Ids'
<1> SUFFICES ASSUME TypeOK, Ids, [Next]_vars PROVE Ids'
  OBVIOUS
<1> USE IndexAssumption DEF TypeOK, Ids, Qdrant, Emptyhanded, Points, Rebuilding,
           Reconciling, Evicting, Goto
<1>1. ASSUME NEW n \in Nodes, Open(n) PROVE Ids'
  BY <1>1 DEF Open
<1>2. ASSUME NEW n \in Nodes, Ensure(n) PROVE Ids'
  BY <1>2 DEF Ensure
<1>3. ASSUME NEW n \in Nodes, Create(n) PROVE Ids'
  BY <1>3 DEF Create
<1>4. ASSUME NEW n \in Nodes, Load(n) PROVE Ids'
  BY <1>4 DEF Load
<1>5. ASSUME NEW n \in Nodes, Delete(n) PROVE Ids'
  BY <1>5 DEF Delete
<1>6. ASSUME NEW n \in Nodes, Fill(n) PROVE Ids'
  BY <1>6 DEF Fill
<1>7. ASSUME NEW n \in Nodes, Index(n) PROVE Ids'
  BY <1>7 DEF Index
<1>8. ASSUME NEW n \in Nodes, NEW E \in SUBSET rows, Condemn(n, E)
      PROVE  /\ rows' \subseteq rows
             /\ batch'[n] = IF listed THEN batch[n] \cup E ELSE batch[n]
             /\ \A m \in Nodes \ {n} : batch'[m] = batch[m]
  BY <1>8 DEF Condemn, Gone
<1>8a. ASSUME NEW n \in Nodes, NEW E \in SUBSET rows, Condemn(n, E),
              UNCHANGED <<unused, stamp, version, due, shared, listed>>,
              NEW p \in {"expiring", "dropping", "serving"}, pc' = [pc EXCEPT ![n] = p],
              pc[n] \in {"evicting", "expiring"}, ~ listed \/ p # "serving"
       PROVE  Ids'
  <2>1. rows' \subseteq rows /\ \A m \in Nodes \ {n} : batch'[m] = batch[m]
    BY <1>8, <1>8a
  <2>2. batch'[n] = IF listed THEN batch[n] \cup E ELSE batch[n]
    BY <1>8, <1>8a
  <2>3. pc'[n] = p /\ \A m \in Nodes \ {n} : pc'[m] = pc[m]
    BY <1>8a
  <2>4. batch'[n] \cap unused' = {} /\ (~ listed => batch'[n] = {})
    BY <1>8a, <2>2
  <2> QED
    BY <1>8a, <2>1, <2>3, <2>4
<1>8b. ASSUME NEW n \in Nodes, Evict(n) PROVE Ids'
  <2>1. PICK E \in SUBSET rows : Condemn(n, E)
    BY <1>8b DEF Evict
  <2>2. UNCHANGED <<unused, stamp, version, due, shared, listed>>
        /\ pc[n] = "evicting" /\ pc' = [pc EXCEPT ![n] = "expiring"]
    BY <1>8b DEF Evict
  <2> QED
    BY <1>8a, <2>1, <2>2
<1>8c. ASSUME NEW n \in Nodes, EvictOverflow(n) PROVE Ids'
  <2>1. PICK E \in SUBSET rows : Condemn(n, E)
    BY <1>8c DEF EvictOverflow, Overflow
  <2>2. UNCHANGED <<unused, stamp, version, due, shared, listed>>
        /\ pc[n] = "expiring" /\ pc' = [pc EXCEPT ![n] = IF listed THEN "dropping" ELSE "serving"]
    BY <1>8c DEF EvictOverflow
  <2> QED
    BY <1>8a, <2>1, <2>2
<1>8d. ASSUME NEW n \in Nodes, DeleteRow(n) PROVE Ids'
  <2>1. rows' \subseteq rows
    BY <1>8d DEF DeleteRow, Gone
  <2> QED
    BY <1>8d, <2>1 DEF DeleteRow
<1>8e. ASSUME NEW n \in Nodes, StoreRefused(n) \/ Evicted(n) \/ EvictError(n) PROVE Ids'
  BY <1>8e DEF StoreRefused, Evicted, EvictError
<1>9. ASSUME NEW n \in Nodes, Unindex(n) PROVE Ids'
  BY <1>9 DEF Unindex
<1>10. ASSUME NEW n \in Nodes, Reconcile(n) PROVE Ids'
  BY <1>10 DEF Reconcile
<1>11. ASSUME NEW n \in Nodes, Check(n) PROVE Ids'
  BY <1>11 DEF Check, Checked
<1>12. ASSUME NEW n \in Nodes, Repair(n) PROVE Ids'
  BY <1>12 DEF Repair
<1>13. ASSUME NEW n \in Nodes, Reconciled(n) PROVE Ids'
  BY <1>13 DEF Reconciled
<1>14. ASSUME NEW n \in Nodes, Leave(n) PROVE Ids'
  BY <1>14 DEF Leave
<1>15. ASSUME NEW n \in Nodes, NEW e \in Entries, Store(n, e) PROVE Ids'
  BY <1>15 DEF Store, Stored
<1>16. CASE Invalidate
  BY <1>16 DEF Invalidate
<1>17. CASE UNCHANGED vars
  BY <1>17 DEF vars
<1> QED
  BY <1>1, <1>2, <1>3, <1>4, <1>5, <1>6, <1>7, <1>8b, <1>8c, <1>8d, <1>8e, <1>9, <1>10, <1>11,
     <1>12, <1>13, <1>14, <1>15, <1>16, <1>17 DEF Next

(* Every reachable state is well typed, and its ids are as they should be. *)
LEMMA TypeAndIds == Spec => [](TypeOK /\ Ids)
<1>1. Init => TypeOK /\ Ids
  <2> SUFFICES ASSUME Init PROVE TypeOK /\ Ids
    OBVIOUS
  <2>1. TypeOK
    BY IndexAssumption DEF Init, TypeOK, Points, Places
  <2>2. Ids
    BY IndexAssumption DEF Init, Ids, Qdrant, Emptyhanded, Evicting
  <2> QED
    BY <2>1, <2>2
<1> QED
  BY <1>1, TypeStep, IdsStep, PTL DEF Spec

(* Every variable keeps its type, whatever fails. *)
THEOREM TypeCorrect == Spec => []TypeOK
BY TypeAndIds, PTL

---------------------------------------------------------------------------
(* Points without rows *)

(* An index in memory starts empty, and so does what no one uses; what a   *)
(* node has in hand and is about to index has a row or is a known stray.   *)
Strays ==
  /\ \A n \in Nodes : shared \/ pc[n] \in {"down", "loading"} => index[n] = {}
  /\ \A n \in Nodes : pc[n] \notin Evicting =>
       \A e \in Entries \ rows : e \in batch[n] \/ e = due[n] => e \in stray[At(n)]
  /\ OrphansAccounted

(* Every step keeps account of the strays. *)
LEMMA StraysStep == TypeOK /\ Ids /\ Strays /\ [Next]_vars => Strays'
<1> SUFFICES ASSUME TypeOK, Ids, Strays, [Next]_vars PROVE Strays'
  OBVIOUS
<1> USE IndexAssumption DEF TypeOK, Ids, Qdrant, Strays, OrphansAccounted, Using, At,
           Places, Evicting, Goto, Add, Remove
<1>1. ASSUME NEW n \in Nodes, Open(n) PROVE Strays'
  BY <1>1 DEF Open
<1>2. ASSUME NEW n \in Nodes, Ensure(n) PROVE Strays'
  BY <1>2 DEF Ensure
<1>3. ASSUME NEW n \in Nodes, Create(n) PROVE Strays'
  BY <1>3 DEF Create
<1>4. ASSUME NEW n \in Nodes, Load(n) PROVE Strays'
  BY <1>4 DEF Load
<1>5. ASSUME NEW n \in Nodes, Delete(n) PROVE Strays'
  <2>1. \A m \in Nodes \ {n} : pc'[m] = pc[m]
    BY <1>5 DEF Delete
  <2>2. shared /\ pc[n] = "deleting" /\ pc'[n] = "ensuring"
    BY <1>5 DEF Delete
  <2>3. CASE UNCHANGED <<exists, index, stray>>
    BY <1>5, <2>1, <2>2, <2>3 DEF Delete
  <2>4. CASE /\ index' = [index EXCEPT ![Collection] = {}]
             /\ stray' = [stray EXCEPT ![Collection] = @ \cap (Held(n) \cup batch[n])]
    <3>1. \A m \in Nodes, e \in Entries :
            /\ pc[m] \notin Evicting /\ (e \in batch[m] \/ e = due[m])
            => e \in Held(n) \cup batch[n]
      BY <2>2 DEF Held
    <3>2. stray'[Collection] = stray[Collection] \cap (Held(n) \cup batch[n])
      BY <2>4
    <3>3. index'[Collection] = {} /\ \A m \in Nodes : index'[m] = {}
      BY <2>2, <2>4
    <3> QED
      BY <1>5, <2>1, <2>2, <3>1, <3>2, <3>3 DEF Delete
  <2> QED
    BY <1>5, <2>3, <2>4 DEF Delete
<1>6. ASSUME NEW n \in Nodes, Fill(n) PROVE Strays'
  <2>1. \A m \in Nodes \ {n} : pc'[m] = pc[m] /\ batch'[m] = batch[m]
    BY <1>6 DEF Fill
  <2>2. batch'[n] = {} /\ pc'[n] \in {"serving", "down"} /\ pc[n] = "filling"
    BY <1>6 DEF Fill
  <2>3. At(n) \in Places /\ At(n)' = At(n)
    BY <1>6 DEF Fill
  <2>4. \A x \in Places : \/ index'[x] = index[x]
                          \/ (x = At(n) /\ index'[x] \subseteq index[x] \cup batch[n])
    BY <1>6 DEF Fill
  <2>5. ~ shared => pc'[n] = "serving"
    BY <1>6 DEF Fill, Reachable
  <2> QED
    BY <1>6, <2>1, <2>2, <2>3, <2>4, <2>5 DEF Fill
<1>7. ASSUME NEW n \in Nodes, Index(n) PROVE Strays'
  BY <1>7 DEF Index
<1>8. ASSUME NEW n \in Nodes, NEW E \in SUBSET rows, Gone(n, E),
             UNCHANGED <<due, index, shared, listed>>, due[n] = NoEntry,
             \A m \in Nodes \ {n} : pc'[m] = pc[m] /\ batch'[m] = batch[m],
             pc[n] \in Evicting, pc'[n] \in Evicting \cup {"serving"},
             listed => pc'[n] \in Evicting /\ E \cup batch[n] \subseteq batch'[n],
             ~ listed => batch[n] = {} /\ batch'[n] = {}
      PROVE  Strays'
  <2>1. rows' = rows \ E
    BY <1>8 DEF Gone
  <2>2. \A x \in Places : stray[x] \subseteq stray'[x]
    BY <1>8 DEF Gone
  <2>3. \A x \in Places, e \in E : e \in index[x] => e \in stray'[x] \/ (listed /\ x = At(n))
    BY <1>8 DEF Gone
  <2>4. \A m \in Nodes \ {n}, e \in E :
          (pc[m] \notin Evicting /\ e \in batch[m]) \/ e = due[m] => e \in stray'[At(m)]
    BY <1>8 DEF Gone, Held
  <2> HIDE DEF At
  <2>5. \A m \in Nodes : At(m) \in Places /\ At(m)' = At(m)
    BY <1>8 DEF At
  <2>6. \A m \in Nodes : shared' \/ pc'[m] \in {"down", "loading"} => index'[m] = {}
    BY <1>8
  <2>7. \A m \in Nodes : pc'[m] \notin Evicting =>
          \A e \in Entries \ rows' : e \in batch'[m] \/ e = due'[m] => e \in stray'[At(m)']
    BY <1>8, <2>1, <2>2, <2>4, <2>5
  <2>8. OrphansAccounted'
    <3> SUFFICES ASSUME NEW x \in Places, NEW e \in index[x] \ rows'
                 PROVE  \/ e \in stray'[x]
                        \/ \E m \in Nodes : At(m) = x /\ pc'[m] \in Evicting /\ e \in batch'[m]
      BY <1>8, <2>5
    <3>1. CASE e \in E
      BY <1>8, <2>3, <3>1
    <3>2. CASE e \notin rows
      <4>1. CASE e \in stray[x]
        BY <2>2, <4>1
      <4>2. ASSUME NEW m \in Nodes, At(m) = x, pc[m] \in Evicting, e \in batch[m]
            PROVE  pc'[m] \in Evicting /\ e \in batch'[m]
        BY <1>8, <4>2
      <4> QED
        BY <3>2, <4>1, <4>2
    <3> QED
      BY <2>1, <3>1, <3>2
  <2> QED
    BY <2>6, <2>7, <2>8
<1>8a. ASSUME NEW n \in Nodes, NEW E \in SUBSET rows, Condemn(n, E),
              UNCHANGED <<due, index, shared, listed>>,
              pc[n] \in {"evicting", "expiring"},
              \A m \in Nodes \ {n} : pc'[m] = pc[m],
              pc'[n] \in Evicting \cup {"serving"}, listed => pc'[n] \in Evicting
       PROVE  Strays'
  <2>1. due[n] = NoEntry /\ pc[n] \in Evicting
    BY <1>8a
  <2>2. CASE listed
    <3>1. /\ batch' = [batch EXCEPT ![n] = @ \cup E] /\ UNCHANGED <<rows, stray>>
          /\ pc'[n] \in Evicting
      BY <1>8a, <2>2 DEF Condemn
    <3>2. \A m \in Nodes : batch[m] \subseteq batch'[m] /\ (m # n => batch'[m] = batch[m])
      BY <3>1
    <3> QED
      BY <1>8a, <2>1, <2>2, <3>1, <3>2
  <2>3. CASE ~ listed
    <3>1. Gone(n, E) /\ batch' = batch /\ batch[n] = {}
      BY <1>8a, <2>1, <2>3 DEF Condemn
    <3>2. \A m \in Nodes \ {n} : pc'[m] = pc[m] /\ batch'[m] = batch[m]
      BY <1>8a, <3>1
    <3>3. batch'[n] = {}
      BY <3>1
    <3> HIDE DEF Strays, Evicting
    <3> QED
      BY <1>8, <1>8a, <2>1, <2>3, <3>1, <3>2, <3>3
  <2> QED
    BY <2>2, <2>3
<1>8b. ASSUME NEW n \in Nodes, Evict(n) PROVE Strays'
  <2>1. PICK E \in SUBSET rows : Condemn(n, E)
    BY <1>8b DEF Evict
  <2>2. UNCHANGED <<due, index, shared, listed>>
        /\ pc[n] = "evicting" /\ pc' = [pc EXCEPT ![n] = "expiring"]
    BY <1>8b DEF Evict
  <2>3. pc'[n] = "expiring" /\ \A m \in Nodes \ {n} : pc'[m] = pc[m]
    BY <2>2
  <2> HIDE DEF Strays
  <2> QED
    BY <1>8a, <2>1, <2>2, <2>3
<1>8c. ASSUME NEW n \in Nodes, EvictOverflow(n) PROVE Strays'
  <2>1. PICK E \in SUBSET rows : Condemn(n, E)
    BY <1>8c DEF EvictOverflow, Overflow
  <2>2. UNCHANGED <<due, index, shared, listed>>
        /\ pc[n] = "expiring" /\ pc' = [pc EXCEPT ![n] = IF listed THEN "dropping" ELSE "serving"]
    BY <1>8c DEF EvictOverflow
  <2>3. /\ pc'[n] = IF listed THEN "dropping" ELSE "serving"
        /\ \A m \in Nodes \ {n} : pc'[m] = pc[m]
    BY <2>2
  <2> HIDE DEF Strays
  <2> QED
    BY <1>8a, <2>1, <2>2, <2>3
<1>8d. ASSUME NEW n \in Nodes, DeleteRow(n) PROVE Strays'
  <2>1. PICK e \in batch[n] \cap rows : Gone(n, {e})
    BY <1>8d DEF DeleteRow
  <2>2. UNCHANGED <<due, index, shared, listed, pc, batch>> /\ pc[n] \in {"expiring", "dropping"}
    BY <1>8d DEF DeleteRow
  <2>3. listed /\ due[n] = NoEntry /\ pc[n] \in Evicting
    BY <2>1, <2>2
  <2>4. {e} \in SUBSET rows /\ {e} \cup batch[n] \subseteq batch'[n]
    BY <2>1, <2>2
  <2> HIDE DEF Strays, Evicting
  <2> QED
    BY <1>8, <2>1, <2>2, <2>3, <2>4
<1>8e. ASSUME NEW n \in Nodes, StoreRefused(n) PROVE Strays'
  BY <1>8e DEF StoreRefused
<1>8f. ASSUME NEW n \in Nodes, Evicted(n) PROVE Strays'
  BY <1>8f DEF Evicted
<1>8g. ASSUME NEW n \in Nodes, EvictError(n) PROVE Strays'
  BY <1>8g DEF EvictError
<1>9. ASSUME NEW n \in Nodes, Unindex(n) PROVE Strays'
  BY <1>9 DEF Unindex
<1>10. ASSUME NEW n \in Nodes, Reconcile(n) PROVE Strays'
  BY <1>10 DEF Reconcile
<1>11. ASSUME NEW n \in Nodes, Check(n) PROVE Strays'
  BY <1>11 DEF Check, Checked
<1>12. ASSUME NEW n \in Nodes, Repair(n) PROVE Strays'
  BY <1>12 DEF Repair
<1>13. ASSUME NEW n \in Nodes, Reconciled(n) PROVE Strays'
  BY <1>13 DEF Reconciled
<1>14. ASSUME NEW n \in Nodes, Leave(n) PROVE Strays'
  BY <1>14 DEF Leave
<1>15. ASSUME NEW n \in Nodes, NEW e \in Entries, Store(n, e) PROVE Strays'
  BY <1>15 DEF Store, Stored
<1>16. CASE Invalidate
  BY <1>16 DEF Invalidate
<1>17. CASE UNCHANGED vars
  BY <1>17 DEF vars
<1> QED
  BY <1>1, <1>2, <1>3, <1>4, <1>5, <1>6, <1>7, <1>8b, <1>8c, <1>8d, <1>8e, <1>8f, <1>8g, <1>9,
     <1>10, <1>11, <1>12, <1>13, <1>14, <1>15, <1>16, <1>17 DEF Next

(* Points outlive their rows only in the known ways. *)
THEOREM Orphans == Spec => []OrphansAccounted
<1>1. Init => Strays
  BY IndexAssumption DEF Init, Strays, OrphansAccounted, Places, Evicting
<1>2. Strays => OrphansAccounted
  BY DEF Strays
<1> QED
  BY <1>1, <1>2, TypeAndIds, StraysStep, PTL DEF Spec

---------------------------------------------------------------------------
(* Rows without points *)

(* What a rebuild does not hold it may drop, and that is known; an index   *)
(* in use, and the shared one at any time, lacks only what is excused.     *)
Losses ==
  /\ \A n \in Nodes : pc[n] \in Rebuilding =>
       \A e \in rows \ batch[n] : Current(e) => e \in missed[At(n)]
  /\ \A n \in Nodes : shared \/ pc[n] \notin {"down", "loading"} =>
       \A e \in rows \ index[At(n)] : Current(e) => Excused(At(n), e)

(* Every step keeps account of the losses. *)
LEMMA LossesStep == TypeOK /\ Ids /\ Losses /\ [Next]_vars => Losses'
<1> SUFFICES ASSUME TypeOK, Ids, Losses, [Next]_vars PROVE Losses'
  OBVIOUS
<1> USE IndexAssumption DEF TypeOK, Ids, Qdrant, Losses, Excused, Using, At, Places, Goto,
           Add, Remove, Rebuilding, Evicting, Current
<1>1. ASSUME NEW n \in Nodes, Open(n) PROVE Losses'
  BY <1>1 DEF Open
<1>2. ASSUME NEW n \in Nodes, Ensure(n) PROVE Losses'
  BY <1>2 DEF Ensure
<1>3. ASSUME NEW n \in Nodes, Create(n) PROVE Losses'
  BY <1>3 DEF Create
<1>4. ASSUME NEW n \in Nodes, Load(n) PROVE Losses'
  BY <1>4 DEF Load
<1>5. ASSUME NEW n \in Nodes, Delete(n) PROVE Losses'
  BY <1>5 DEF Delete
<1>6. ASSUME NEW n \in Nodes, Fill(n) PROVE Losses'
  <2>1. \A m \in Nodes \ {n} : pc'[m] = pc[m] /\ batch'[m] = batch[m]
    BY <1>6 DEF Fill
  <2>2. batch'[n] = {} /\ pc'[n] \in {"serving", "down"} /\ pc[n] = "filling"
    BY <1>6 DEF Fill
  <2>3. UNCHANGED <<due, shared, rows, stamp, version>>
    BY <1>6 DEF Fill
  <2>4. CASE Reachable \/ batch[n] = {}
    <3>1. pc'[n] = "serving" /\ missed' = Remove(missed, At(n), batch[n] \ Endangered(n))
      BY <1>6, <2>4 DEF Fill
    <3>2. \A x \in Places, e \in Entries :
            e \in missed[x] => e \in missed'[x] \/ (x = At(n) /\ e \in batch[n] \ Endangered(n))
      BY <3>1
    <3>3. \A x \in Places : x # At(n) => index'[x] = index[x]
      BY <1>6, <2>4 DEF Fill
    <3>4. /\ batch[n] \subseteq index'[At(n)]
          /\ shared => index[At(n)] \subseteq index'[At(n)]
      BY <1>6, <2>4 DEF Fill
    <3>5. \A m \in Nodes \ {n}, e \in Entries :
            /\ pc[m] \in Rebuilding /\ e \notin batch[m] /\ At(m) = At(n)
            => e \in Endangered(n)
      BY DEF Endangered
    <3> QED
      BY <2>1, <2>2, <2>3, <3>1, <3>2, <3>3, <3>4, <3>5
  <2>5. CASE ~ Reachable /\ batch[n] # {}
    <3>1. pc'[n] = "down" /\ missed' = Add(missed, At(n), batch[n]) /\ index' = index /\ shared
      BY <1>6, <2>5 DEF Fill, Reachable
    <3> QED
      BY <2>1, <2>2, <2>3, <3>1
  <2> QED
    BY <2>4, <2>5
<1>7. ASSUME NEW n \in Nodes, Index(n) PROVE Losses'
  BY <1>7 DEF Index
<1>8. ASSUME NEW n \in Nodes, rows' \subseteq rows,
             UNCHANGED <<due, shared, stamp, version, index, missed>>,
             \A m \in Nodes \ {n} : pc'[m] = pc[m] /\ batch'[m] = batch[m],
             pc[n] \in {"serving"} \cup Evicting, pc'[n] \in {"serving"} \cup Evicting
      PROVE  Losses'
  BY <1>8
<1>8a. ASSUME NEW n \in Nodes, NEW E \in SUBSET rows, Condemn(n, E)
       PROVE  rows' \subseteq rows /\ \A m \in Nodes \ {n} : batch'[m] = batch[m]
  BY <1>8a DEF Condemn, Gone
<1>8b. ASSUME NEW n \in Nodes, Evict(n) PROVE Losses'
  <2>1. rows' \subseteq rows /\ \A m \in Nodes \ {n} : batch'[m] = batch[m]
    BY <1>8a, <1>8b DEF Evict
  <2>2. UNCHANGED <<due, shared, stamp, version, index, missed>>
        /\ pc[n] = "evicting" /\ pc' = [pc EXCEPT ![n] = "expiring"]
    BY <1>8b DEF Evict
  <2>3. pc'[n] = "expiring" /\ \A m \in Nodes \ {n} : pc'[m] = pc[m]
    BY <2>2
  <2> HIDE DEF Losses
  <2> QED
    BY <1>8, <2>1, <2>2, <2>3
<1>8c. ASSUME NEW n \in Nodes, EvictOverflow(n) PROVE Losses'
  <2>1. rows' \subseteq rows /\ \A m \in Nodes \ {n} : batch'[m] = batch[m]
    BY <1>8a, <1>8c DEF EvictOverflow, Overflow
  <2>2. UNCHANGED <<due, shared, stamp, version, index, missed>>
        /\ pc[n] = "expiring" /\ pc' = [pc EXCEPT ![n] = IF listed THEN "dropping" ELSE "serving"]
    BY <1>8c DEF EvictOverflow
  <2>3. /\ pc'[n] = IF listed THEN "dropping" ELSE "serving"
        /\ \A m \in Nodes \ {n} : pc'[m] = pc[m]
    BY <2>2
  <2> HIDE DEF Losses
  <2> QED
    BY <1>8, <2>1, <2>2, <2>3
<1>8d. ASSUME NEW n \in Nodes, DeleteRow(n) PROVE Losses'
  <2>1. rows' \subseteq rows
    BY <1>8d DEF DeleteRow, Gone
  <2> HIDE DEF Losses
  <2> QED
    BY <1>8, <1>8d, <2>1 DEF DeleteRow
<1>8e. ASSUME NEW n \in Nodes, StoreRefused(n) \/ Evicted(n) \/ EvictError(n) PROVE Losses'
  <2> HIDE DEF Losses
  <2> QED
    BY <1>8, <1>8e DEF StoreRefused, Evicted, EvictError
<1>9. ASSUME NEW n \in Nodes, Unindex(n) PROVE Losses'
  BY <1>9 DEF Unindex
<1>10. ASSUME NEW n \in Nodes, Reconcile(n) PROVE Losses'
  BY <1>10 DEF Reconcile
<1>11. ASSUME NEW n \in Nodes, Check(n) PROVE Losses'
  BY <1>11 DEF Check, Checked
<1>12. ASSUME NEW n \in Nodes, Repair(n) PROVE Losses'
  <2>1. CASE UNCHANGED <<index, missed>>
    BY <1>12, <2>1 DEF Repair
  <2>2. CASE /\ index' = Add(index, At(n), {due[n]})
             /\ missed' = Remove(missed, At(n), {due[n]} \ Endangered(n))
    <3>1. \A m \in Nodes \ {n} : pc'[m] = pc[m]
      BY <1>12 DEF Repair
    <3>2. pc[n] = "repairing" /\ pc'[n] = "checking"
      BY <1>12 DEF Repair
    <3>3. \A x \in Places, e \in Entries :
            e \in missed[x] => \/ e \in missed'[x]
                               \/ x = At(n) /\ e = due[n] /\ e \notin Endangered(n)
      BY <2>2
    <3>4. due[n] \in index'[At(n)] /\ \A x \in Places : index[x] \subseteq index'[x]
      BY <2>2
    <3>5. \A m \in Nodes \ {n}, e \in Entries :
            /\ pc[m] \in Rebuilding /\ e \notin batch[m] /\ At(m) = At(n)
            => e \in Endangered(n)
      BY DEF Endangered
    <3>6. UNCHANGED <<batch, shared, rows, stamp, version>>
      BY <1>12 DEF Repair
    <3>7. \A m \in Nodes \ {n} : due'[m] = due[m]
      BY <1>12 DEF Repair
    <3>8. \A m \in Nodes : pc'[m] \in Rebuilding =>
            \A e \in rows' \ batch'[m] : Current(e)' => e \in missed'[At(m)']
      BY <3>1, <3>2, <3>3, <3>5, <3>6
    <3>9. ASSUME NEW m \in Nodes, shared' \/ pc'[m] \notin {"down", "loading"},
                 NEW e \in rows' \ index'[At(m)'], Current(e)'
          PROVE  Excused(At(m), e)'
      <4>0. At(m) \in Places /\ At(m)' = At(m)
        BY <3>6
      <4>1. e \in rows \ index[At(m)] /\ Excused(At(m), e)
        <5>1. shared \/ pc[m] \notin {"down", "loading"}
          BY <3>1, <3>2, <3>6, <3>9
        <5>2. e \notin index'[At(m)]
          BY <3>9, <4>0
        <5>3. e \in rows /\ Current(e)
          BY <3>6, <3>9
        <5> QED
          BY <5>1, <5>2, <5>3, <3>4, <4>0 DEF Losses
      <4>2. CASE e \in missed[At(m)]
        <5>1. e \in missed'[At(m)]
          <6>1. e \in Entries /\ e \notin index'[At(m)]
            BY <3>6, <3>9, <4>0
          <6>2. At(m) = At(n) => e # due[n]
            BY <6>1, <3>4, <4>0
          <6> HIDE DEF At
          <6> QED
            BY <3>3, <4>0, <4>2, <6>1, <6>2
        <5> QED
          BY <5>1, <4>0
      <4>3. CASE e \notin missed[At(m)]
        BY <3>1, <3>2, <3>6, <3>7, <4>1, <4>3
      <4> QED
        BY <4>2, <4>3
    <3> QED
      BY <3>8, <3>9
  <2> QED
    BY <1>12, <2>1, <2>2 DEF Repair
<1>13. ASSUME NEW n \in Nodes, Reconciled(n) PROVE Losses'
  BY <1>13 DEF Reconciled
<1>14. ASSUME NEW n \in Nodes, Leave(n) PROVE Losses'
  BY <1>14 DEF Leave
<1>15. ASSUME NEW n \in Nodes, NEW e \in Entries, Store(n, e) PROVE Losses'
  <2>1. /\ \A m \in Nodes \ {n} : pc'[m] = pc[m] /\ due'[m] = due[m]
        /\ pc[n] = "serving" /\ pc'[n] = "stored" /\ due'[n] = e
    BY <1>15 DEF Store, Stored
  <2>2. e \in unused /\ rows' = rows \cup {e} /\ UNCHANGED <<shared, version, batch, index>>
    BY <1>15 DEF Store, Stored
  <2>3. \A d \in rows : stamp'[d] = stamp[d]
    BY <1>15 DEF Store, Stored
  <2>4. \A x \in Places : missed[x] \subseteq missed'[x]
    BY <1>15 DEF Store, Stored
  <2>5. \A m \in Nodes \ {n} : ~ shared => e \in missed'[m]
    BY <1>15 DEF Store, Stored
  <2>6. \A m \in Nodes \ {n} : shared /\ pc[m] \in Rebuilding => e \in missed'[Collection]
    BY <1>15 DEF Store, Stored, Endangered
  <2>7. \A m \in Nodes : pc'[m] \in Rebuilding =>
          \A d \in rows' \ batch'[m] : Current(d)' => d \in missed'[At(m)']
    BY <2>1, <2>2, <2>3, <2>4, <2>5, <2>6
  <2>8. ASSUME NEW m \in Nodes, shared' \/ pc'[m] \notin {"down", "loading"},
               NEW d \in rows' \ index'[At(m)'], Current(d)'
        PROVE  Excused(At(m), d)'
    <3>1. CASE d \in rows
      BY <2>1, <2>2, <2>3, <2>4, <2>8, <3>1
    <3>2. CASE d = e
      BY <2>1, <2>2, <2>5, <2>8, <3>2
    <3> QED
      BY <2>2, <3>1, <3>2
  <2> QED
    BY <2>7, <2>8
<1>16. CASE Invalidate
  BY <1>16 DEF Invalidate
<1>17. CASE UNCHANGED vars
  BY <1>17 DEF vars
<1> QED
  BY <1>1, <1>2, <1>3, <1>4, <1>5, <1>6, <1>7, <1>8b, <1>8c, <1>8d, <1>8e, <1>9, <1>10, <1>11,
     <1>12, <1>13, <1>14, <1>15, <1>16, <1>17 DEF Next

(* Rows of the current version lack a point only in the known ways. *)
THEOREM NothingLostSilently == Spec => []NoSilentLoss
<1>1. Init => Losses
  BY IndexAssumption DEF Init, Losses, Rebuilding
<1>2. Losses => NoSilentLoss
  BY DEF Losses, NoSilentLoss
<1> QED
  BY <1>1, <1>2, TypeAndIds, LossesStep, PTL DEF Spec

============================================================================
