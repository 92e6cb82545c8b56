---------------------------- MODULE ScopedCache ----------------------------
(***************************************************************************)
(* CacheOrchestrator.get_or_call (orchestrator.py) for ONE prompt and one  *)
(* pipeline version: authentication, authorization and scope resolution,   *)
(* scoped search and revalidation, then the single flight around the LLM   *)
(* call, while administrators change users, grants and resources.          *)
(*                                                                         *)
(* A call of the store or of the vector index is one step; calls of        *)
(* different processes interleave between them.  The decision pipeline may *)
(* turn any candidate down.  The flight is what SingleFlight promises: a   *)
(* call leads, or follows a leader of the same key whose LLM call is under *)
(* way.  An answer, a row and an index point are named by the call whose   *)
(* LLM call produced them, and their metadata is the scope of that call.   *)
(*                                                                         *)
(* epoch, begun, seen, entitled and gone record history and bound nothing. *)
(***************************************************************************)
EXTENDS AccessControl

CONSTANTS Callers,     \* concurrent calls of get_or_call
          NoCaller,    \* no candidate, no leader, no answer
          NoResource,  \* the resource_id None
          Processes,   \* processes that invalidate resources
          OneStatement,\* increment_resource_version reads and writes in one step
          MayRegister, \* resources are registered again while in use
          MaxEntries,  \* CacheConfig.max_entries
          MaxGrants,   \* bound on changes to users, roles and permissions
          MaxChanges   \* bound on invalidations, registrations and lost rows

ASSUME CacheAssumption ==
  /\ NoCaller \notin Callers
  /\ NoResource \notin Resources
  /\ OneStatement \in BOOLEAN /\ MayRegister \in BOOLEAN
  /\ MaxEntries \in Nat \ {0} /\ MaxGrants \in Nat /\ MaxChanges \in Nat

VARIABLES
  pc,       \* where each call is
  user,     \* user_id of each call
  scope,    \* retrieval_scope of each call
  hit,      \* hit_entry_id of each call
  mayWrite, \* the calls whose can_write is true
  leaderOf, \* the leader a follower awaits
  answer,   \* the response each call returns
  rows,     \* cache_entries
  expired,  \* the entries whose expires_at has passed
  index,    \* the points of the vector index
  selected, \* the version each process has read and not yet written back
  grants,   \* number of changes to users, roles and permissions so far
  changes,  \* number of invalidations, registrations and lost rows so far
  epoch,    \* invalidations of each resource that have returned
  begun,    \* epoch of the resource when each call began
  seen,     \* epoch of the resource when each call read its version
  entitled, \* calls whose user could read the resource at some moment of them
  gone      \* entries that had left the store, or expired, when each call began

callVars == <<pc, user, scope, hit, mayWrite, leaderOf, answer>>
storeVars == <<rows, expired, index>>
countVars == <<grants, changes>>
ghostVars == <<epoch, begun, seen, entitled, gone>>
vars == <<accessVars, callVars, storeVars, selected, countVars, ghostVars>>

Ended == {"returned", "denied", "raised"}
Points == {"idle", "authorize", "resolve", "search", "revalidate", "flight", "lead",
           "index", "follow"} \cup Ended
Kinds == {"resource", "tenant", "global"}
Scope == [kind : Kinds, tenant : Tenants \cup {NoTenant},
          res : Resources \cup {NoResource}, ver : Nat]
NoScope == [kind |-> "tenant", tenant |-> NoTenant, res |-> NoResource, ver |-> 0]
Nothing == [res |-> NoResource, ver |-> 0]

Init ==
  /\ AccessInit
  /\ pc = [c \in Callers |-> "idle"]
  /\ user \in [Callers -> Users]
  /\ scope = [c \in Callers |-> NoScope]
  /\ hit = [c \in Callers |-> NoCaller]
  /\ mayWrite = {}
  /\ leaderOf = [c \in Callers |-> NoCaller]
  /\ answer = [c \in Callers |-> NoCaller]
  /\ rows = {}
  /\ expired = {}
  /\ index = {}
  /\ selected = [p \in Processes |-> Nothing]
  /\ grants = 0
  /\ changes = 0
  /\ epoch = [r \in Resources |-> 0]
  /\ begun = [c \in Callers |-> 0]
  /\ seen = [c \in Callers |-> 0]
  /\ entitled = {}
  /\ gone = [c \in Callers |-> {}]

---------------------------------------------------------------------------
Goto(c, p) == pc' = [pc EXCEPT ![c] = p]
Grant == grants < MaxGrants /\ grants' = grants + 1 /\ UNCHANGED changes
Change == changes < MaxChanges /\ changes' = changes + 1 /\ UNCHANGED grants
Active(c) == pc[c] # "idle" /\ pc[c] \notin Ended

(* What the users of the running calls may read, now or after this step.   *)
Entitled ==
  {c \in Callers : /\ Active(c)
                   /\ scope[c].kind = "resource"
                   /\ AllowedOn(user[c], "read", scope[c].res)}
Witness == entitled' = entitled \cup Entitled'

(* _matches_scope: an entry filed under m may answer a query of scope s.   *)
(* The mutant forgets whose tenant the entry belongs to.                   *)
MatchesMutant(m, s) ==
  \/ s.kind = "resource" /\ m = s
  \/ s.kind = "tenant" /\ m.kind \in {"tenant", "global"}
  \/ s.kind = "global" /\ m.kind = "global"
Matches(m, s) ==
  \/ s.kind = "resource" /\ m = s
  \/ s.kind = "tenant" /\ (m.kind = "global" \/ (m.kind = "tenant" /\ m.tenant = s.tenant))
  \/ s.kind = "global" /\ m.kind = "global"

(* The entry the search found is still there, unexpired and in scope.  The *)
(* mutant trusts the index.                                                *)
IsEntryValidMutant(e, s) == Matches(scope[e], s)
IsEntryValid(e, s) == e \in rows \ expired /\ Matches(scope[e], s)

(* build_flight_key, and the key of find_by_prompt.  The mutant coalesces  *)
(* queries of all versions of a resource.                                  *)
FlightKeyMutant(s) == <<s.kind, s.tenant, s.res>>
FlightKey(s) == <<s.kind, s.tenant, s.res, s.ver>>

(* The call begins: an unknown user is turned away, the tenant is the      *)
(* user's and the kind of scope follows from the arguments.                *)
Call(c) ==
  /\ pc[c] = "idle"
  /\ \E k \in Kinds, r \in Resources \cup {NoResource} :
       /\ k = "resource" <=> r # NoResource
       /\ scope' = [scope EXCEPT ![c] = [kind |-> k, tenant |-> tenantOf[user[c]],
                                         res |-> r, ver |-> 0]]
       /\ IF ~ Known(user[c]) THEN Goto(c, "denied")
          ELSE Goto(c, IF k = "resource" THEN "authorize" ELSE "search")
       /\ begun' = [begun EXCEPT ![c] = IF k = "resource" THEN epoch[r] ELSE 0]
  /\ gone' = [gone EXCEPT ![c] = expired \cup {e \in Callers \ rows : pc[e] \in Ended}]
  /\ UNCHANGED <<accessVars, user, hit, mayWrite, leaderOf, answer, storeVars, selected,
                 countVars, epoch, seen>>
  /\ Witness

(* can_read_resource; the mutant forgets to ask. *)
AuthorizeMutant(c) ==
  /\ pc[c] = "authorize"
  /\ Goto(c, "resolve")
  /\ UNCHANGED <<accessVars, user, scope, hit, mayWrite, leaderOf, answer, storeVars, selected,
                 countVars, ghostVars>>
Authorize(c) ==
  /\ pc[c] = "authorize"
  /\ Goto(c, IF AllowedOn(user[c], "read", scope[c].res) THEN "resolve" ELSE "denied")
  /\ UNCHANGED <<accessVars, user, scope, hit, mayWrite, leaderOf, answer, storeVars, selected,
                 countVars, ghostVars>>

(* get_resource: the scope is bound to the current version.  The mutant    *)
(* binds it to another column of the row.                                  *)
ResolveMutant(c) ==
  /\ pc[c] = "resolve"
  /\ scope' = [scope EXCEPT ![c].ver = owner[scope[c].res]]
  /\ Goto(c, "search")
  /\ UNCHANGED <<accessVars, user, hit, mayWrite, leaderOf, answer, storeVars, selected,
                 countVars, ghostVars>>
Resolve(c) ==
  /\ pc[c] = "resolve"
  /\ LET r == scope[c].res IN
       IF owner[r] = scope[c].tenant
         THEN /\ scope' = [scope EXCEPT ![c].ver = version[r]]
              /\ seen' = [seen EXCEPT ![c] = epoch[r]]
              /\ Goto(c, "search")
         ELSE Goto(c, "denied") /\ UNCHANGED <<scope, seen>>
  /\ UNCHANGED <<accessVars, user, hit, mayWrite, leaderOf, answer, storeVars, selected,
                 countVars, epoch, begun, entitled, gone>>

(* _find_hit: a candidate in scope that the decision pipeline accepts, or  *)
(* none.                                                                   *)
Search(c) ==
  /\ pc[c] = "search"
  /\ \/ \E e \in index : /\ Matches(scope[e], scope[c])
                         /\ hit' = [hit EXCEPT ![c] = e]
                         /\ Goto(c, "revalidate")
     \/ Goto(c, "flight") /\ UNCHANGED hit
  /\ UNCHANGED <<accessVars, user, scope, mayWrite, leaderOf, answer, storeVars, selected,
                 countVars, ghostVars>>

Return(c, e) == Goto(c, "returned") /\ answer' = [answer EXCEPT ![c] = e]

(* A hit is answered only after the store has confirmed it; otherwise the  *)
(* call goes on as a miss.                                                 *)
Revalidate(c) ==
  /\ pc[c] = "revalidate"
  /\ IF IsEntryValid(hit[c], scope[c])
       THEN Return(c, hit[c])
       ELSE Goto(c, "flight") /\ UNCHANGED answer
  /\ UNCHANGED <<accessVars, user, scope, hit, mayWrite, leaderOf, storeVars, selected,
                 countVars, ghostVars>>

(* can_write_cache, and the flight of the call's key. *)
Enter(c) ==
  /\ pc[c] = "flight"
  /\ mayWrite' = IF /\ Allowed(user[c], "write")
                    /\ scope[c].kind = "resource" => AllowedOn(user[c], "read", scope[c].res)
                   THEN mayWrite \cup {c} ELSE mayWrite
  /\ \/ Goto(c, "lead") /\ UNCHANGED leaderOf
     \/ \E p \in Callers : /\ pc[p] = "lead"
                           /\ FlightKey(scope[p]) = FlightKey(scope[c])
                           /\ Goto(c, "follow")
                           /\ leaderOf' = [leaderOf EXCEPT ![c] = p]
  /\ UNCHANGED <<accessVars, user, scope, hit, answer, storeVars, selected, countVars, ghostVars>>

(* find_by_prompt gives the call a row of its own key. *)
Load(c) == \E e \in rows \ expired : FlightKey(scope[e]) = FlightKey(scope[c]) /\ Return(c, e)

(* evict: the entries past their TTL, if the policy says so, and then what *)
(* is above max_entries.                                                   *)
Evicted(E) ==
  \E T \in SUBSET (rows \cap expired) :
    /\ T \subseteq E /\ E \subseteq rows
    /\ Cardinality(rows \ E) = IF Cardinality(rows \ T) > MaxEntries THEN MaxEntries
                               ELSE Cardinality(rows \ T)

(* _evict_if_needed: the evicted rows leave the index too. *)
Evict(points) ==
  \E E \in SUBSET rows : /\ Evicted(E)
                         /\ rows' = rows \ E
                         /\ index' = points \ E

(* The leader's LLM call returns.  With write authority its row is stored, *)
(* unless the store refuses its generation; without, or if it is stale,    *)
(* nothing is left to do.  Or the LLM call, or the store, fails.  A        *)
(* distributed flight looks for a row before it calls the LLM.             *)
Finish(c) ==
  /\ pc[c] = "lead"
  /\ \/ /\ c \in mayWrite
        /\ rows' = rows \cup {c}
        /\ Goto(c, "index")
        /\ UNCHANGED <<index, answer>>
     \/ c \in mayWrite /\ Evict(index) /\ Return(c, c)
     \/ (Return(c, c) \/ Load(c)) /\ UNCHANGED <<rows, index>>
     \/ Goto(c, "raised") /\ UNCHANGED <<rows, index, answer>>
  /\ UNCHANGED <<accessVars, user, scope, hit, mayWrite, leaderOf, expired, selected,
                 countVars, ghostVars>>

(* The row is indexed, overflowing rows are evicted, and the call returns. *)
(* Or the index fails, when it adds the point or when it removes the       *)
(* evicted ones.                                                           *)
Index(c) ==
  /\ pc[c] = "index"
  /\ \/ Evict(index \cup {c}) /\ Return(c, c)
     \/ Goto(c, "raised") /\ UNCHANGED <<rows, index, answer>>
     \/ /\ \E E \in SUBSET rows : Evicted(E) /\ rows' = rows \ E
        /\ index' = index \cup {c}
        /\ Goto(c, "raised")
        /\ UNCHANGED answer
  /\ UNCHANGED <<accessVars, user, scope, hit, mayWrite, leaderOf, expired, selected,
                 countVars, ghostVars>>

(* A follower is given its leader's result, or loads a row, or takes over  *)
(* a flight whose lock is gone, or calls the LLM itself and keeps the      *)
(* result to itself, or that call fails.                                   *)
Follow(c) ==
  /\ pc[c] = "follow"
  /\ \/ pc[leaderOf[c]] = "returned" /\ Return(c, answer[leaderOf[c]])
     \/ Load(c)
     \/ Goto(c, "lead") /\ UNCHANGED answer
     \/ Return(c, c)
     \/ Goto(c, "raised") /\ UNCHANGED answer
  /\ UNCHANGED <<accessVars, user, scope, hit, mayWrite, leaderOf, storeVars, selected,
                 countVars, ghostVars>>

Step(c) == \/ Call(c) \/ Authorize(c) \/ Resolve(c) \/ Search(c) \/ Revalidate(c)
           \/ Enter(c) \/ Finish(c) \/ Index(c) \/ Follow(c)

(* An administrator changes users, roles, permissions or access lists. *)
Govern ==
  /\ Grant
  /\ Administer
  /\ UNCHANGED <<callVars, storeVars, selected, epoch, begun, seen, gone>>
  /\ Witness

(* A resource is registered again, at its initial version. *)
RegisterAgain(r, t) ==
  /\ MayRegister
  /\ Change
  /\ Register(r, t, 1)
  /\ UNCHANGED <<callVars, storeVars, selected, epoch, begun, seen, gone>>
  /\ Witness

(* invalidate_resource in one process: the version it writes is one more   *)
(* than the version it has read.                                           *)
Invalidated(r, v) ==
  /\ SetVersion(r, v)
  /\ epoch' = [epoch EXCEPT ![r] = @ + 1]
  /\ UNCHANGED <<callVars, storeVars, begun, seen, gone>>
  /\ Witness

Invalidate(r) ==
  /\ OneStatement
  /\ Change
  /\ Invalidated(r, version[r] + 1)
  /\ UNCHANGED selected

Select(p, r) ==
  /\ ~ OneStatement
  /\ selected[p] = Nothing
  /\ Change
  /\ selected' = [selected EXCEPT ![p] = [res |-> r, ver |-> version[r]]]
  /\ UNCHANGED <<accessVars, callVars, storeVars, ghostVars>>

Update(p) ==
  /\ selected[p] # Nothing
  /\ Invalidated(selected[p].res, selected[p].ver + 1)
  /\ selected' = [selected EXCEPT ![p] = Nothing]
  /\ UNCHANGED countVars

(* A row passes its expires_at, or another process evicts it and leaves    *)
(* the point in this index.                                                *)
Forget(e) ==
  /\ Change
  /\ \/ expired' = expired \cup {e} /\ UNCHANGED rows
     \/ rows' = rows \ {e} /\ UNCHANGED expired
  /\ UNCHANGED <<accessVars, callVars, index, selected, ghostVars>>

(* A process starts and builds its index from the store. *)
Rebuild ==
  /\ index' = rows
  /\ UNCHANGED <<accessVars, callVars, rows, expired, selected, countVars, ghostVars>>

Next ==
  \/ \E c \in Callers : Step(c)
  \/ Govern
  \/ \E r \in Resources : Invalidate(r) \/ \E t \in Tenants : RegisterAgain(r, t)
  \/ \E p \in Processes : Update(p) \/ \E r \in Resources : Select(p, r)
  \/ \E e \in rows : Forget(e)
  \/ Rebuild

Spec == Init /\ [][Next]_vars

---------------------------------------------------------------------------
(* Properties *)

(* Every variable keeps its type. *)
TypeOK ==
  /\ AccessTypeOK
  /\ pc \in [Callers -> Points]
  /\ user \in [Callers -> Users]
  /\ scope \in [Callers -> Scope]
  /\ hit \in [Callers -> Callers \cup {NoCaller}]
  /\ leaderOf \in [Callers -> Callers \cup {NoCaller}]
  /\ answer \in [Callers -> Callers \cup {NoCaller}]
  /\ mayWrite \subseteq Callers /\ rows \subseteq Callers /\ expired \subseteq Callers
  /\ index \subseteq Callers /\ entitled \subseteq Callers
  /\ selected \in [Processes -> [res : Resources \cup {NoResource}, ver : Nat]]
  /\ grants \in Nat /\ changes \in Nat
  /\ epoch \in [Resources -> Nat]
  /\ begun \in [Callers -> Nat] /\ seen \in [Callers -> Nat]
  /\ gone \in [Callers -> SUBSET Callers]

Served == {c \in Callers : pc[c] = "returned"}

(* However answers travel, by the index, the store or a flight, a call is  *)
(* given only what was produced for the same resource of the same tenant,  *)
(* for its tenant at large, or for everyone.                               *)
Isolated ==
  \A c \in Served :
    LET p == scope[answer[c]]
        s == scope[c]
    IN \/ p.kind = s.kind /\ p.tenant = s.tenant /\ p.res = s.res
       \/ p.kind = "global" /\ s.kind \in {"tenant", "global"}

(* An answer about a resource goes only to a user who could read it at     *)
(* some moment of the call, whatever is granted or revoked meanwhile.      *)
ReadersOnly == \A c \in Served : scope[c].kind = "resource" => c \in entitled

(* Invalidation is immediate: once invalidate_resource has returned, no    *)
(* call that begins afterwards is given an answer whose LLM call was       *)
(* scoped before it, not even by a flight or a late write that overlaps    *)
(* the invalidation.                                                       *)
Fresh ==
  \A c \in Served : scope[c].kind = "resource" => begun[c] <= seen[answer[c]]

(* An entry that had been evicted or had expired before the call began is  *)
(* never its answer, though its point may linger in the index.             *)
NoGoneAnswer == \A c \in Served : answer[c] \notin gone[c]
============================================================================
