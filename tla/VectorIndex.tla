----------------------------- MODULE VectorIndex -----------------------------
(***************************************************************************)
(* The vector indices of several processes (nodes) beside the relational   *)
(* store they share: what CacheOrchestrator does to both when it starts    *)
(* and when it writes, the indices of embedding/service.py, which live in  *)
(* the memory of a node, the Qdrant collection of                          *)
(* embedding/qdrant_index.py, which all nodes share, and the               *)
(* reconciliation of events/reconciliation.py.                             *)
(*                                                                         *)
(* A call of the store or of Qdrant is one step, but for an eviction, in   *)
(* which each deletion is committed on its own.  Entries are named by      *)
(* their ids, which never come back.  Searches change nothing and are left *)
(* to ScopedCache.  missed and stray record history and bound nothing.     *)
(***************************************************************************)
EXTENDS Integers, FiniteSets

CONSTANTS Nodes,      \* processes with an orchestrator
          Entries,    \* ids of cache entries
          NoEntry,    \* no id
          Collection, \* the Qdrant collection
          Limit,      \* entries a reconciliation looks at
          MaxEntries, \* CacheConfig.max_entries
          MaxVersion, \* bound on the version of the resource
          MaxFaults   \* bound on crashes and failed calls

ASSUME IndexAssumption ==
  /\ NoEntry \notin Entries
  /\ Collection \notin Nodes
  /\ Limit \in Nat /\ MaxEntries \in Nat /\ MaxFaults \in Nat
  /\ MaxVersion \in Nat \ {0}

VARIABLES
  shared,   \* whether the index is the Qdrant collection
  listed,   \* whether evict returns the ids: SQLite does, Postgres counts
  exists,   \* whether the collection exists
  pc,       \* where each node is
  rows,     \* cache_entries
  unused,   \* ids not given out yet
  stamp,    \* resource_version of an entry; 0: its scope is not a resource
  version,  \* current_version of the resource
  index,    \* the points of each index
  batch,    \* entries a node has read, or evicts, and is not done with
  due,      \* the entry a node is about to index
  faults,   \* crashes and failed calls so far
  missed,   \* rows that may have no point
  stray     \* points that may have no row

deployment == <<shared, listed>>
storeVars == <<rows, unused, stamp, version>>
nodeVars == <<pc, batch, due>>
ghostVars == <<missed, stray>>
vars == <<deployment, exists, storeVars, nodeVars, index, faults, ghostVars>>

Places == Nodes \cup {Collection}
At(n) == IF shared THEN Collection ELSE n

Rebuilding == {"deleting", "ensuring", "recreating", "filling"}
Reconciling == {"checking", "repairing"}
Evicting == {"evicting", "expiring", "dropping", "removing"}
Points == {"down", "opening", "creating", "loading", "serving", "stored"}
            \cup Rebuilding \cup Reconciling \cup Evicting

Init ==
  /\ shared \in BOOLEAN /\ listed \in BOOLEAN
  /\ exists = FALSE
  /\ pc = [n \in Nodes |-> "down"]
  /\ rows = {}
  /\ unused = Entries
  /\ stamp = [e \in Entries |-> 0]
  /\ version = 1
  /\ index = [x \in Places |-> {}]
  /\ batch = [n \in Nodes |-> {}]
  /\ due = [n \in Nodes |-> NoEntry]
  /\ faults = 0
  /\ missed = [x \in Places |-> {}]
  /\ stray = [x \in Places |-> {}]

---------------------------------------------------------------------------
Goto(n, p) == pc' = [pc EXCEPT ![n] = p]
Fault == faults < MaxFaults /\ faults' = faults + 1

(* A node's index takes calls: memory always, Qdrant while the collection  *)
(* exists.                                                                 *)
Reachable == shared => exists

(* What some other node has read and will index. *)
Held(n) == {e \in Entries : \E m \in Nodes \ {n} : (pc[m] \notin Evicting /\ e \in batch[m]) \/ e = due[m]}

(* What a rebuild by another node is about to drop. *)
Endangered(n) ==
  {e \in Entries : shared /\ \E m \in Nodes \ {n} : pc[m] \in Rebuilding /\ e \notin batch[m]}

Add(f, x, S) == [f EXCEPT ![x] = @ \cup S]
Remove(f, x, S) == [f EXCEPT ![x] = @ \ S]

---------------------------------------------------------------------------
(* Start *)

(* QdrantVectorIndex.__init__ makes sure of the collection; an index in    *)
(* memory is empty.                                                        *)
Open(n) ==
  /\ pc[n] = "down"
  /\ Goto(n, IF shared THEN "opening" ELSE "loading")
  /\ UNCHANGED <<deployment, exists, storeVars, batch, due, index, faults, ghostVars>>

(* ensure_collection_and_indexes: get_collections, then create_collection, *)
(* which fails if another node was faster.                                 *)
Ensure(n) ==
  /\ \/ pc[n] = "opening" /\ Goto(n, IF exists THEN "loading" ELSE "creating")
     \/ pc[n] = "ensuring" /\ Goto(n, IF exists THEN "filling" ELSE "recreating")
  /\ UNCHANGED <<deployment, exists, storeVars, batch, due, index, faults, ghostVars>>

Create(n) ==
  /\ pc[n] \in {"creating", "recreating"}
  /\ exists' = TRUE
  /\ IF exists
       THEN /\ Goto(n, "down")
            /\ batch' = [batch EXCEPT ![n] = {}]
            /\ missed' = Add(missed, At(n), batch[n])
       ELSE /\ Goto(n, IF pc[n] = "creating" THEN "loading" ELSE "filling")
            /\ UNCHANGED <<batch, missed>>
  /\ UNCHANGED <<deployment, storeVars, due, index, faults, stray>>

(* _rebuild_index_from_store reads the whole store. *)
Load(n) ==
  /\ pc[n] = "loading"
  /\ batch' = [batch EXCEPT ![n] = rows]
  /\ Goto(n, IF shared THEN "deleting" ELSE "filling")
  /\ missed' = IF shared THEN missed ELSE [missed EXCEPT ![n] = {}]
  /\ stray' = IF shared THEN stray ELSE [stray EXCEPT ![n] = {}]
  /\ UNCHANGED <<deployment, exists, storeVars, due, index, faults>>

(* rebuild deletes the collection, and goes on if that fails. *)
Delete(n) ==
  /\ pc[n] = "deleting"
  /\ Goto(n, "ensuring")
  /\ \/ /\ exists' = FALSE
        /\ index' = [index EXCEPT ![Collection] = {}]
        /\ stray' = [stray EXCEPT ![Collection] = @ \cap (Held(n) \cup batch[n])]
        /\ UNCHANGED faults
     \/ Fault /\ UNCHANGED <<exists, index, stray>>
  /\ UNCHANGED <<deployment, storeVars, batch, due, missed>>

(* rebuild indexes what it was given, in one call or, if nothing, in none. *)
Fill(n) ==
  /\ pc[n] = "filling"
  /\ IF Reachable \/ batch[n] = {}
       THEN /\ Goto(n, "serving")
            /\ index' = IF shared THEN Add(index, Collection, batch[n])
                        ELSE [index EXCEPT ![n] = batch[n]]
            /\ missed' = Remove(missed, At(n), batch[n] \ Endangered(n))
       ELSE /\ Goto(n, "down")
            /\ missed' = Add(missed, At(n), batch[n])
            /\ UNCHANGED index
  /\ batch' = [batch EXCEPT ![n] = {}]
  /\ UNCHANGED <<deployment, exists, storeVars, due, faults, stray>>

---------------------------------------------------------------------------
(* Writes *)

(* store.add: the version is the one the call's scope was resolved to.     *)
(* What the other indices do not know of: a row added beside them, or      *)
(* behind the back of a rebuild.  The mutant keeps the wrong id.           *)
Stored(n, e, d) ==
  /\ pc[n] = "serving"
  /\ e \in unused
  /\ unused' = unused \ {e}
  /\ rows' = rows \cup {e}
  /\ \E v \in 0 .. version : stamp' = [stamp EXCEPT ![e] = v]
  /\ due' = [due EXCEPT ![n] = d]
  /\ Goto(n, "stored")
  /\ missed' = IF shared THEN Add(missed, Collection, {e} \cap Endangered(n))
               ELSE [x \in Places |-> IF x \in Nodes \ {n} THEN missed[x] \cup {e} ELSE missed[x]]
  /\ UNCHANGED <<deployment, exists, version, batch, index, faults, stray>>
StoreMutant(n, e) == Stored(n, e, n)
Store(n, e) == Stored(n, e, e)

(* embedding_service.add, which may fail; then nothing is evicted. *)
Index(n) ==
  /\ pc[n] = "stored"
  /\ \/ /\ Reachable
        /\ index' = Add(index, At(n), {due[n]})
        /\ Goto(n, "evicting")
        /\ UNCHANGED <<faults, missed>>
     \/ /\ IF Reachable THEN Fault ELSE UNCHANGED faults
        /\ missed' = Add(missed, At(n), {due[n]})
        /\ Goto(n, "serving")
        /\ UNCHANGED index
  /\ due' = [due EXCEPT ![n] = NoEntry]
  /\ UNCHANGED <<deployment, exists, storeVars, batch, stray>>

(* store.add refuses the row; there is nothing to index, but an eviction.  *)
StoreRefused(n) ==
  /\ pc[n] = "serving"
  /\ Goto(n, "evicting")
  /\ UNCHANGED <<deployment, exists, storeVars, batch, due, index, faults, ghostVars>>

(* Rows are gone.  Who deleted them will remove their points from its own  *)
(* index if it has their ids, which SQLite's evict returns at its end.     *)
Gone(n, E) ==
  /\ rows' = rows \ E
  /\ stray' = IF shared THEN Add(stray, Collection, IF listed THEN E \cap Held(n) ELSE E)
              ELSE [x \in Places |-> IF listed /\ x = n THEN stray[x] ELSE stray[x] \cup E]

(* A part of store.evict: SQLite selects the ids, then deletes row by row; *)
(* Postgres deletes them in one statement.                                 *)
Condemn(n, E) ==
  IF listed
    THEN batch' = [batch EXCEPT ![n] = @ \cup E] /\ UNCHANGED <<rows, stray>>
    ELSE Gone(n, E) /\ UNCHANGED batch

(* store.evict: first what has expired, *)
Evict(n) ==
  /\ pc[n] = "evicting"
  /\ \E E \in SUBSET rows : Condemn(n, E)
  /\ Goto(n, "expiring")
  /\ UNCHANGED <<deployment, exists, unused, stamp, version, due, index, faults, missed>>

(* then, of the rest, what is above max_entries.  Postgres returns a       *)
(* number, and iterating over it raises.                                   *)
Overflow ==
  {E \in SUBSET rows :
     Cardinality(E) = IF Cardinality(rows) > MaxEntries THEN Cardinality(rows) - MaxEntries ELSE 0}

EvictOverflow(n) ==
  /\ pc[n] = "expiring"
  /\ batch[n] \cap rows = {}
  /\ \E E \in Overflow : Condemn(n, E)
  /\ Goto(n, IF listed THEN "dropping" ELSE "serving")
  /\ UNCHANGED <<deployment, exists, unused, stamp, version, due, index, faults, missed>>

(* delete, with its commit. *)
DeleteRow(n) ==
  /\ pc[n] \in {"expiring", "dropping"}
  /\ \E e \in batch[n] \cap rows : Gone(n, {e})
  /\ UNCHANGED <<deployment, exists, unused, stamp, version, pc, batch, due, index, faults, missed>>

Evicted(n) ==
  /\ pc[n] = "dropping"
  /\ batch[n] \cap rows = {}
  /\ Goto(n, "removing")
  /\ UNCHANGED <<deployment, exists, storeVars, batch, due, index, faults, ghostVars>>

(* A statement fails: the ids of the rows already gone are lost. *)
EvictError(n) ==
  /\ pc[n] \in {"evicting", "expiring", "dropping"}
  /\ Fault
  /\ stray' = Add(stray, At(n), batch[n] \ rows)
  /\ batch' = [batch EXCEPT ![n] = {}]
  /\ Goto(n, "serving")
  /\ UNCHANGED <<deployment, exists, storeVars, due, index, missed>>

(* The points of the evicted rows are removed one by one, until a call     *)
(* fails.  The mutant removes the first one only.                          *)
UnindexMutant(n) ==
  /\ pc[n] = "removing"
  /\ \E e \in batch[n] : index' = Remove(index, At(n), {e})
  /\ batch' = [batch EXCEPT ![n] = {}]
  /\ Goto(n, "serving")
  /\ UNCHANGED <<deployment, exists, storeVars, due, faults, ghostVars>>
Unindex(n) ==
  /\ pc[n] = "removing"
  /\ \/ /\ Reachable
        /\ \E e \in batch[n] : /\ index' = Remove(index, At(n), {e})
                               /\ batch' = [batch EXCEPT ![n] = @ \ {e}]
        /\ UNCHANGED <<pc, faults, stray>>
     \/ batch[n] = {} /\ Goto(n, "serving") /\ UNCHANGED <<batch, index, faults, stray>>
     \/ /\ batch[n] # {}
        /\ IF Reachable THEN Fault ELSE UNCHANGED faults
        /\ stray' = Add(stray, At(n), batch[n])
        /\ batch' = [batch EXCEPT ![n] = {}]
        /\ Goto(n, "serving")
        /\ UNCHANGED index
  /\ UNCHANGED <<deployment, exists, storeVars, due, missed>>

---------------------------------------------------------------------------
(* Reconciliation *)

(* reconcile reads the store, the whole of it or as much as its limit and  *)
(* its filters let through.                                                *)
Reconcile(n) ==
  /\ pc[n] = "serving"
  /\ \E S \in SUBSET rows : /\ Cardinality(S) <= Limit
                            /\ batch' = [batch EXCEPT ![n] = S]
  /\ Goto(n, "checking")
  /\ UNCHANGED <<deployment, exists, storeVars, due, index, faults, ghostVars>>

(* The version guard passes over entries of an old version.  The mutant    *)
(* forgets that entries without a resource have no version.                *)
Current(e) == stamp[e] \in {0, version}
Checked(n, passed) ==
  /\ pc[n] = "checking"
  /\ \E e \in batch[n] :
       /\ batch' = [batch EXCEPT ![n] = @ \ {e}]
       /\ IF e \in passed
            THEN Goto(n, "repairing") /\ due' = [due EXCEPT ![n] = e] /\ UNCHANGED missed
            ELSE missed' = Remove(missed, At(n), {e}) /\ UNCHANGED <<pc, due>>
  /\ UNCHANGED <<deployment, exists, storeVars, index, faults, stray>>
CheckMutant(n) == Checked(n, {e \in Entries : stamp[e] = version})
Check(n) == Checked(n, {e \in Entries : Current(e)})

(* The entry is indexed; a failure is logged and the next one is looked at. *)
Repair(n) ==
  /\ pc[n] = "repairing"
  /\ \/ /\ Reachable
        /\ index' = Add(index, At(n), {due[n]})
        /\ missed' = Remove(missed, At(n), {due[n]} \ Endangered(n))
        /\ UNCHANGED faults
     \/ /\ IF Reachable THEN Fault ELSE UNCHANGED faults
        /\ UNCHANGED <<index, missed>>
  /\ due' = [due EXCEPT ![n] = NoEntry]
  /\ Goto(n, "checking")
  /\ UNCHANGED <<deployment, exists, storeVars, batch, stray>>

(* The pass ends, or get_resource fails and ends it early. *)
Reconciled(n) ==
  /\ pc[n] = "checking"
  /\ IF batch[n] = {} THEN UNCHANGED faults ELSE Fault
  /\ batch' = [batch EXCEPT ![n] = {}]
  /\ Goto(n, "serving")
  /\ UNCHANGED <<deployment, exists, storeVars, due, index, ghostVars>>

---------------------------------------------------------------------------
(* A node stops, crashes or, while it starts, is given up because a call   *)
(* of Qdrant failed; its memory is gone.                                   *)
Leave(n) ==
  /\ pc[n] # "down"
  /\ IF pc[n] = "serving" THEN UNCHANGED faults ELSE Fault
  /\ Goto(n, "down")
  /\ batch' = [batch EXCEPT ![n] = {}]
  /\ due' = [due EXCEPT ![n] = NoEntry]
  /\ index' = [index EXCEPT ![n] = {}]
  /\ missed' = IF pc[n] \in Rebuilding \cup {"stored"}
                 THEN Add(missed, At(n), batch[n] \cup ({due[n]} \ {NoEntry})) ELSE missed
  /\ stray' = IF pc[n] \in Evicting THEN Add(stray, At(n), batch[n] \ rows) ELSE stray
  /\ UNCHANGED <<deployment, exists, storeVars>>

(* increment_resource_version; versions do not go back here. *)
Invalidate ==
  /\ version < MaxVersion
  /\ version' = version + 1
  /\ UNCHANGED <<deployment, exists, rows, unused, stamp, nodeVars, index, faults, ghostVars>>

Next ==
  \/ \E n \in Nodes :
       \/ Open(n) \/ Ensure(n) \/ Create(n) \/ Load(n) \/ Delete(n) \/ Fill(n)
       \/ \E e \in Entries : Store(n, e)
       \/ StoreRefused(n) \/ Index(n)
       \/ Evict(n) \/ EvictOverflow(n) \/ DeleteRow(n) \/ Evicted(n) \/ EvictError(n)
       \/ Unindex(n)
       \/ Reconcile(n) \/ Check(n) \/ Repair(n) \/ Reconciled(n)
       \/ Leave(n)
  \/ Invalidate

Spec == Init /\ [][Next]_vars

---------------------------------------------------------------------------
(* Properties *)

(* Every variable keeps its type. *)
TypeOK ==
  /\ shared \in BOOLEAN /\ listed \in BOOLEAN /\ exists \in BOOLEAN
  /\ pc \in [Nodes -> Points]
  /\ rows \subseteq Entries /\ unused \subseteq Entries
  /\ stamp \in [Entries -> Nat]
  /\ version \in Nat /\ faults \in Nat
  /\ index \in [Places -> SUBSET Entries]
  /\ batch \in [Nodes -> SUBSET Entries]
  /\ due \in [Nodes -> Entries \cup {NoEntry}]
  /\ missed \in [Places -> SUBSET Entries]
  /\ stray \in [Places -> SUBSET Entries]

(* The nodes whose index is x. *)
Using(x) == {n \in Nodes : At(n) = x}

(* Row e may lack its point in index x. *)
Excused(x, e) ==
  \/ e \in missed[x]
  \/ \E n \in Using(x) : \/ pc[n] = "stored" /\ e = due[n]
                         \/ pc[n] \in Rebuilding /\ e \in batch[n]

(* A row of the current version has its point, unless it is on its way     *)
(* there, was written beside an index in another node's memory or behind a *)
(* rebuild of the collection, or a node failed with it in hand.  A         *)
(* reconciliation that came to the row, or a rebuild that held it, settles *)
(* it for good, or until the next rebuild that does not know of it.        *)
NoSilentLoss ==
  \A n \in Nodes : pc[n] \notin {"down", "loading"} =>
    \A e \in rows \ index[At(n)] : Current(e) => Excused(At(n), e)

(* A point outlives its row only while who evicts it is still at it, if    *)
(* another process evicted the row beside an index in memory, if another   *)
(* node held the entry in hand when it was evicted and indexed it          *)
(* afterwards, or if the eviction failed half way or removing the point    *)
(* did.  A rebuild leaves only what some node had in hand.                 *)
OrphansAccounted ==
  \A x \in Places : \A e \in index[x] \ rows :
    e \in stray[x] \/ \E m \in Using(x) : pc[m] \in Evicting /\ e \in batch[m]
============================================================================
