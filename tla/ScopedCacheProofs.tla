------------------------- MODULE ScopedCacheProofs -------------------------
(***************************************************************************)
(* Proofs about ScopedCache, for any number of users, tenants, resources,  *)
(* roles, calls and changes.                                               *)
(***************************************************************************)
EXTENDS ScopedCache, TLAPS

---------------------------------------------------------------------------
(* Types *)

(* Administration keeps the types of users, grants and resources.          *)
LEMMA AdministerType == AccessTypeOK /\ Administer => AccessTypeOK'
<1> SUFFICES ASSUME AccessTypeOK, Administer PROVE AccessTypeOK'
  OBVIOUS
<1> USE DEF AccessTypeOK, userVars, grantVars, resourceVars
<1>1. ASSUME NEW u \in Users, NEW t \in Tenants, CreateUser(u, t) PROVE AccessTypeOK'
  BY <1>1 DEF CreateUser
<1>2. ASSUME NEW u \in Users, DeleteUser(u) PROVE AccessTypeOK'
  BY <1>2 DEF DeleteUser
<1>3. ASSUME NEW u \in Users, NEW role \in Roles, AssignRole(u, role) \/ RemoveRole(u, role)
      PROVE  AccessTypeOK'
  BY <1>3 DEF AssignRole, RemoveRole
<1>4. ASSUME NEW role \in Roles, NEW permission \in Permissions,
             GrantPermission(role, permission) \/ RevokePermission(role, permission)
      PROVE  AccessTypeOK'
  BY <1>4 DEF GrantPermission, RevokePermission
<1>5. ASSUME NEW r \in Resources, NEW role \in Roles, NEW permission \in Permissions,
             GrantAccess(r, role, permission) \/ RevokeAccess(r, role, permission)
      PROVE  AccessTypeOK'
  BY <1>5 DEF GrantAccess, RevokeAccess
<1> QED
  BY <1>1, <1>2, <1>3, <1>4, <1>5 DEF Administer

(* The scope a call begins with is a scope.                                *)
LEMMA BoundScope ==
  ASSUME NEW k \in Kinds, NEW t \in Tenants \cup {NoTenant},
         NEW r \in Resources \cup {NoResource}, NEW v \in Nat
  PROVE  [kind |-> k, tenant |-> t, res |-> r, ver |-> v] \in Scope
BY DEF Scope

(* A call about a resource names one, only such a call is authorized and   *)
(* resolved, a follower follows a call, and a process has read the version *)
(* of a resource.                                                          *)
Bound ==
  /\ \A c \in Callers : scope[c].kind = "resource" <=> scope[c].res \in Resources
  /\ \A c \in Callers : pc[c] \in {"authorize", "resolve"} => scope[c].kind = "resource"
  /\ \A c \in Callers : pc[c] = "follow" => leaderOf[c] \in Callers
  /\ \A p \in Processes : selected[p] # Nothing => selected[p].res \in Resources

(* Resolution binds the version and changes nothing else of a scope.       *)
LEMMA ResolvedScope ==
  ASSUME NEW s \in Scope, NEW v \in Nat
  PROVE  /\ [s EXCEPT !.ver = v] \in Scope
         /\ [s EXCEPT !.ver = v].kind = s.kind
         /\ [s EXCEPT !.ver = v].tenant = s.tenant
         /\ [s EXCEPT !.ver = v].res = s.res
         /\ [s EXCEPT !.ver = v].ver = v
BY DEF Scope

(* Every step preserves the types.                                         *)
LEMMA TypeStep == TypeOK /\ Bound /\ [Next]_vars => TypeOK'
<1> SUFFICES ASSUME TypeOK, Bound, [Next]_vars PROVE TypeOK'
  OBVIOUS
<1>0. Entitled' \subseteq Callers
  BY DEF Entitled
<1> USE CacheAssumption
        DEF TypeOK, Goto, Points, Ended, Return, Witness, Grant, Change,
            callVars, storeVars, countVars, ghostVars
<1> DEFINE Unmoved == UNCHANGED accessVars
<1>a. Unmoved => AccessTypeOK'
  BY DEF accessVars, userVars, grantVars, resourceVars, AccessTypeOK
<1>1. ASSUME NEW c \in Callers, Call(c) PROVE TypeOK'
  <2>1. PICK k \in Kinds, r \in Resources \cup {NoResource} :
          /\ k = "resource" <=> r # NoResource
          /\ scope' = [scope EXCEPT ![c] = [kind |-> k, tenant |-> tenantOf[user[c]],
                                            res |-> r, ver |-> 0]]
          /\ IF ~ Known(user[c]) THEN Goto(c, "denied")
             ELSE Goto(c, IF k = "resource" THEN "authorize" ELSE "search")
          /\ begun' = [begun EXCEPT ![c] = IF k = "resource" THEN epoch[r] ELSE 0]
    BY <1>1 DEF Call
  <2>2. scope' \in [Callers -> Scope]
    BY <2>1, BoundScope DEF AccessTypeOK
  <2>3. begun' \in [Callers -> Nat]
    BY <2>1
  <2>4. pc' \in [Callers -> Points]
    BY <2>1
  <2>5. gone' \in [Callers -> SUBSET Callers]
    BY <1>1 DEF Call
  <2> QED
    BY <1>1, <2>2, <2>3, <2>4, <2>5, <1>0, <1>a DEF Call
<1>2. ASSUME NEW c \in Callers, Authorize(c) PROVE TypeOK'
  BY <1>2, <1>a DEF Authorize
<1>3. ASSUME NEW c \in Callers, Resolve(c) PROVE TypeOK'
  <2>1. CASE owner[scope[c].res] = scope[c].tenant
    <3>1. version[scope[c].res] \in Nat
      BY <1>3 DEF Resolve, Bound, AccessTypeOK
    <3>2. scope[c] \in Scope
      OBVIOUS
    <3>3. [scope[c] EXCEPT !.ver = version[scope[c].res]] \in Scope
      BY <3>1, <3>2, ResolvedScope
    <3>4. epoch[scope[c].res] \in Nat
      BY <1>3 DEF Resolve, Bound
    <3>5. scope' = [scope EXCEPT ![c] = [scope[c] EXCEPT !.ver = version[scope[c].res]]]
      BY <1>3, <2>1 DEF Resolve
    <3>6. scope' \in [Callers -> Scope]
      BY <3>3, <3>5
    <3>7. seen' \in [Callers -> Nat] /\ pc' \in [Callers -> Points]
      BY <1>3, <2>1, <3>4 DEF Resolve
    <3> QED
      BY <1>3, <3>6, <3>7, <1>a DEF Resolve
  <2>2. CASE owner[scope[c].res] # scope[c].tenant
    BY <1>3, <2>2, <1>a DEF Resolve
  <2> QED
    BY <2>1, <2>2
<1>4. ASSUME NEW c \in Callers, Search(c) PROVE TypeOK'
  BY <1>4, <1>a DEF Search
<1>5. ASSUME NEW c \in Callers, Revalidate(c) PROVE TypeOK'
  BY <1>5, <1>a DEF Revalidate
<1>6. ASSUME NEW c \in Callers, Enter(c) PROVE TypeOK'
  BY <1>6, <1>a DEF Enter
<1>7. ASSUME NEW c \in Callers, Finish(c) PROVE TypeOK'
  BY <1>7, <1>a DEF Finish, Evict, Load
<1>8. ASSUME NEW c \in Callers, Index(c) PROVE TypeOK'
  <2>1. rows' \subseteq Callers /\ index' \subseteq Callers
    BY <1>8 DEF Index, Evict
  <2>2. pc' \in [Callers -> Points] /\ answer' \in [Callers -> Callers \cup {NoCaller}]
    BY <1>8 DEF Index, Evict
  <2>3. UNCHANGED <<accessVars, user, scope, hit, mayWrite, leaderOf, expired, selected,
                    countVars, ghostVars>>
    BY <1>8 DEF Index, Evict
  <2> QED
    BY <2>1, <2>2, <2>3, <1>a
<1>9. ASSUME NEW c \in Callers, Follow(c) PROVE TypeOK'
  <2>1. answer[leaderOf[c]] \in Callers \cup {NoCaller}
    BY <1>9 DEF Follow, Bound
  <2> QED
    BY <1>9, <2>1, <1>a DEF Follow, Load
<1>10. CASE Govern
  BY <1>10, <1>0, AdministerType DEF Govern
<1>11. ASSUME NEW r \in Resources, NEW t \in Tenants, RegisterAgain(r, t) PROVE TypeOK'
  BY <1>11, <1>0 DEF RegisterAgain, Register, AccessTypeOK, userVars, grantVars
<1>12. ASSUME NEW r \in Resources, NEW v \in Nat, Invalidated(r, v)
       PROVE  AccessTypeOK' /\ epoch' \in [Resources -> Nat] /\ entitled' \subseteq Callers
  BY <1>12, <1>0 DEF Invalidated, SetVersion, AccessTypeOK, userVars, grantVars
<1>13. ASSUME NEW r \in Resources, Invalidate(r) PROVE TypeOK'
  <2>1. version[r] + 1 \in Nat
    BY DEF AccessTypeOK
  <2>2. AccessTypeOK' /\ epoch' \in [Resources -> Nat] /\ entitled' \subseteq Callers
    BY <1>13, <2>1, <1>12 DEF Invalidate
  <2> QED
    BY <1>13, <2>2 DEF Invalidate, Invalidated
<1>14. ASSUME NEW p \in Processes, NEW r \in Resources, Select(p, r) PROVE TypeOK'
  BY <1>14, <1>a DEF Select, AccessTypeOK
<1>15. ASSUME NEW p \in Processes, Update(p) PROVE TypeOK'
  <2>1. selected[p].res \in Resources /\ selected[p].ver + 1 \in Nat
    BY <1>15 DEF Update, Bound
  <2>2. AccessTypeOK' /\ epoch' \in [Resources -> Nat] /\ entitled' \subseteq Callers
    BY <1>15, <2>1, <1>12 DEF Update
  <2> QED
    BY <1>15, <2>2 DEF Update, Invalidated, Nothing
<1>16. CASE (\E e \in rows : Forget(e)) \/ Rebuild \/ UNCHANGED vars
  BY <1>16, <1>a DEF Forget, Rebuild, vars
<1> QED
  BY <1>1, <1>2, <1>3, <1>4, <1>5, <1>6, <1>7, <1>8, <1>9, <1>10, <1>11, <1>13, <1>14, <1>15,
     <1>16
  DEF Next, Step

(* The facts about scopes are kept.                                        *)
LEMMA BoundStep == TypeOK /\ Bound /\ [Next]_vars => Bound'
<1> SUFFICES ASSUME TypeOK, Bound, [Next]_vars PROVE Bound'
  OBVIOUS
<1> USE CacheAssumption DEF TypeOK, Goto, Return, callVars, storeVars, countVars, ghostVars
<1>1. ASSUME NEW c \in Callers, Call(c) PROVE Bound'
  <2>1. PICK k \in Kinds, r \in Resources \cup {NoResource} :
          /\ k = "resource" <=> r # NoResource
          /\ scope' = [scope EXCEPT ![c] = [kind |-> k, tenant |-> tenantOf[user[c]],
                                            res |-> r, ver |-> 0]]
          /\ IF ~ Known(user[c]) THEN Goto(c, "denied")
             ELSE Goto(c, IF k = "resource" THEN "authorize" ELSE "search")
    BY <1>1 DEF Call
  <2>2. \A d \in Callers : d # c => scope'[d] = scope[d] /\ pc'[d] = pc[d]
    BY <2>1
  <2>3. scope'[c].kind = "resource" <=> scope'[c].res \in Resources
    BY <2>1
  <2>4. pc'[c] \in {"authorize", "resolve"} => scope'[c].kind = "resource"
    BY <2>1
  <2>5. UNCHANGED <<leaderOf, selected>>
    BY <1>1 DEF Call
  <2>6. pc'[c] # "follow"
    BY <2>1
  <2> QED
    BY <2>2, <2>3, <2>4, <2>5, <2>6 DEF Bound
<1>2. ASSUME NEW c \in Callers, Authorize(c) PROVE Bound'
  BY <1>2 DEF Authorize, Bound
<1>3. ASSUME NEW c \in Callers, Resolve(c) PROVE Bound'
  <2>1. /\ UNCHANGED <<leaderOf, selected>>
        /\ \A d \in Callers : pc'[d] # pc[d] => pc'[d] \in {"search", "denied"}
    BY <1>3 DEF Resolve
  <2>2. \A d \in Callers : scope'[d].kind = scope[d].kind /\ scope'[d].res = scope[d].res
    <3>1. CASE UNCHANGED scope
      BY <3>1
    <3>2. CASE scope' = [scope EXCEPT ![c] = [scope[c] EXCEPT !.ver = version[scope[c].res]]]
      <4>1. scope[c] \in Scope /\ version[scope[c].res] \in Nat
        BY <1>3 DEF Resolve, Bound, AccessTypeOK
      <4> QED
        BY <3>2, <4>1, ResolvedScope
    <3> QED
      BY <1>3, <3>1, <3>2 DEF Resolve
  <2> QED
    BY <2>1, <2>2 DEF Bound
<1>4. ASSUME NEW c \in Callers,
             Search(c) \/ Revalidate(c) \/ Finish(c) \/ Index(c) \/ Follow(c)
      PROVE  Bound'
  <2>1. UNCHANGED <<scope, leaderOf, selected>>
    BY <1>4 DEF Search, Revalidate, Finish, Index, Follow
  <2>2. \A d \in Callers : pc'[d] # pc[d] => pc'[d] \notin {"authorize", "resolve", "follow"}
    BY <1>4 DEF Search, Revalidate, Finish, Index, Follow, Load
  <2> QED
    BY <2>1, <2>2 DEF Bound
<1>8. ASSUME NEW c \in Callers, Enter(c) PROVE Bound'
  BY <1>8 DEF Enter, Bound
<1>5. CASE UNCHANGED <<callVars, selected>>
  BY <1>5 DEF Bound
<1>6. ASSUME NEW p \in Processes, NEW r \in Resources, Select(p, r) PROVE Bound'
  BY <1>6 DEF Select, Bound, Nothing
<1>7. ASSUME NEW p \in Processes, Update(p) PROVE Bound'
  BY <1>7 DEF Update, Invalidated, Bound, Nothing
<1> QED
  BY <1>1, <1>2, <1>3, <1>4, <1>5, <1>6, <1>7, <1>8
  DEF Next, Step, Govern, RegisterAgain, Invalidate, Invalidated, Forget, Rebuild, vars

(* Types and scopes are always as stated.                                  *)
LEMMA AlwaysTyped == Spec => [](TypeOK /\ Bound)
<1>1. Init => TypeOK /\ Bound
  BY AccessAssumption, CacheAssumption
  DEF Init, AccessInit, TypeOK, AccessTypeOK, Bound, Points, Ended, Scope, Kinds, NoScope, Nothing
<1> QED
  BY <1>1, TypeStep, BoundStep, PTL DEF Spec

(* Every variable keeps its type, whatever is granted, invalidated or      *)
(* evicted.                                                                *)
THEOREM TypeCorrect == Spec => []TypeOK
BY AlwaysTyped, PTL

---------------------------------------------------------------------------
(* Isolation: a scope is final once it is resolved, and only calls with a  *)
(* final scope are searched for, followed or returned.                     *)

Final == {c \in Callers : pc[c] \notin {"idle", "authorize", "resolve", "denied"}}

(* What is stored or indexed, whoever is followed, and every answer, has a *)
(* final scope; a leader's is its follower's own.                          *)
Linked ==
  /\ rows \cup index \cup expired \subseteq Final
  /\ \A c \in Callers : pc[c] = "follow" =>
       leaderOf[c] \in Final /\ scope[leaderOf[c]] = scope[c]
  /\ \A c \in Callers : pc[c] = "returned" =>
       /\ answer[c] \in Final
       /\ scope[answer[c]] = scope[c] \/ Matches(scope[answer[c]], scope[c])

(* Scopes with one flight key are the same scope.                          *)
LEMMA SameKey ==
  ASSUME NEW m \in Scope, NEW s \in Scope, FlightKey(m) = FlightKey(s)
  PROVE  m = s
BY DEF FlightKey, Scope

(* A settled call stays settled, in the same scope, for the same user.     *)
LEMMA Frozen ==
  ASSUME TypeOK, [Next]_vars, NEW c \in Final
  PROVE  c \in Final' /\ scope'[c] = scope[c]
<1> USE DEF TypeOK, Goto, Return, Final, callVars
<1>1. ASSUME NEW d \in Callers, Step(d) PROVE c \in Final' /\ scope'[c] = scope[c]
  <2>1. CASE Call(d)
    BY <2>1 DEF Call
  <2>2. CASE Authorize(d)
    BY <2>2 DEF Authorize
  <2>3. CASE Resolve(d)
    BY <2>3 DEF Resolve
  <2>4. CASE Search(d) \/ Revalidate(d) \/ Enter(d)
    BY <2>4 DEF Search, Revalidate, Enter
  <2>5. CASE Finish(d) \/ Index(d) \/ Follow(d)
    BY <2>5 DEF Finish, Index, Evict, Follow, Load
  <2> QED
    BY <1>1, <2>1, <2>2, <2>3, <2>4, <2>5 DEF Step
<1>2. CASE UNCHANGED callVars
  BY <1>2
<1> QED
  BY <1>1, <1>2
  DEF Next, Govern, RegisterAgain, Invalidate, Invalidated, Select, Update, Forget, Rebuild, vars

(* Every step keeps the links between stored scopes, leaders and answers.  *)
LEMMA LinkedStep == TypeOK /\ Bound /\ Linked /\ [Next]_vars => Linked'
<1> SUFFICES ASSUME TypeOK, Bound, Linked, [Next]_vars PROVE Linked'
  OBVIOUS
<1>0. \A c \in Final : c \in Final' /\ scope'[c] = scope[c]
  BY Frozen
<1> DEFINE Kept == rows' \cup index' \cup expired' \subseteq rows \cup index \cup expired
           Following(c) == pc'[c] = "follow" =>
             leaderOf'[c] \in Final' /\ scope'[leaderOf'[c]] = scope'[c]
           Answered(c) == pc'[c] = "returned" =>
             /\ answer'[c] \in Final'
             /\ scope'[answer'[c]] = scope'[c] \/ Matches(scope'[answer'[c]], scope'[c])
<1>a. ASSUME NEW c \in Callers, UNCHANGED <<pc[c], leaderOf[c], answer[c]>>
      PROVE  Following(c) /\ Answered(c)
  <2>1. pc[c] \in {"follow", "returned"} => c \in Final
    BY DEF Final
  <2> QED
    BY <1>0, <1>a, <2>1 DEF Linked, Bound
<1>b. Kept => rows' \cup index' \cup expired' \subseteq Final'
  BY <1>0 DEF Linked, TypeOK
<1>c. ASSUME rows' \cup index' \cup expired' \subseteq Final',
             \A c \in Callers : Following(c) /\ Answered(c)
      PROVE  Linked'
  BY <1>c DEF Linked
<1> USE DEF TypeOK, Goto, Return, callVars, storeVars
<1>1. ASSUME NEW c \in Callers, Call(c) \/ Authorize(c) \/ Resolve(c) \/ Search(c)
      PROVE  Linked'
  <2>1. Kept /\ UNCHANGED <<leaderOf, answer>>
    BY <1>1 DEF Call, Authorize, Resolve, Search
  <2>2. pc'[c] \notin {"follow", "returned"} /\ \A d \in Callers : d # c => pc'[d] = pc[d]
    BY <1>1 DEF Call, Authorize, Resolve, Search
  <2>3. \A d \in Callers : Following(d) /\ Answered(d)
    BY <2>1, <2>2, <1>a
  <2> HIDE DEF Following, Answered
  <2> QED
    BY <2>1, <2>3, <1>b, <1>c
<1>2. ASSUME NEW c \in Callers, Revalidate(c) PROVE Linked'
  <2>1. Kept /\ UNCHANGED <<scope, leaderOf>>
    BY <1>2 DEF Revalidate
  <2>2. \A d \in Callers : d # c => Following(d) /\ Answered(d)
    BY <1>2, <1>a DEF Revalidate
  <2>3. Following(c)
    BY <1>2 DEF Revalidate
  <2>4. Answered(c)
    <3>1. CASE IsEntryValid(hit[c], scope[c])
      <4>1. answer'[c] = hit[c] /\ hit[c] \in Final /\ Matches(scope[hit[c]], scope[c])
        BY <1>2, <3>1 DEF Revalidate, IsEntryValid, Linked
      <4> QED
        BY <2>1, <4>1, <1>0
    <3>2. CASE ~ IsEntryValid(hit[c], scope[c])
      BY <1>2, <3>2 DEF Revalidate
    <3> QED
      BY <3>1, <3>2
  <2> HIDE DEF Following, Answered
  <2> QED
    BY <2>1, <2>2, <2>3, <2>4, <1>b, <1>c
<1>3. ASSUME NEW c \in Callers, Enter(c) PROVE Linked'
  <2>1. Kept /\ UNCHANGED <<scope, answer>> /\ pc'[c] # "returned"
    BY <1>3 DEF Enter
  <2>2. \A d \in Callers : d # c => Following(d) /\ Answered(d)
    BY <1>3, <1>a DEF Enter
  <2>3. Answered(c)
    BY <2>1
  <2>4. Following(c)
    <3>1. CASE pc'[c] = "follow"
      <4>1. PICK p \in Callers : /\ pc[p] = "lead"
                                 /\ FlightKey(scope[p]) = FlightKey(scope[c])
                                 /\ leaderOf' = [leaderOf EXCEPT ![c] = p]
        BY <1>3, <3>1 DEF Enter
      <4>2. p \in Final /\ scope[p] = scope[c]
        BY <4>1, SameKey DEF Final
      <4> QED
        BY <2>1, <4>1, <4>2, <1>0
    <3> QED
      BY <3>1
  <2> HIDE DEF Following, Answered
  <2> QED
    BY <2>1, <2>2, <2>3, <2>4, <1>b, <1>c
<1>d. ASSUME NEW c \in Callers, Load(c) PROVE answer'[c] \in Final /\ scope[answer'[c]] = scope[c]
  BY <1>d, SameKey DEF Load, Linked, Final
<1>4. ASSUME NEW c \in Callers, Finish(c) \/ Index(c) PROVE Linked'
  <2>1. /\ rows' \cup index' \cup expired' \subseteq rows \cup index \cup expired \cup {c}
        /\ UNCHANGED <<scope, leaderOf>>
        /\ pc'[c] \in {"index", "returned", "raised"}
    BY <1>4 DEF Finish, Index, Evict, Load
  <2>2. c \in Final /\ c \in Final'
    BY <1>4, <1>0 DEF Finish, Index, Evict, Final
  <2>3. rows' \cup index' \cup expired' \subseteq Final'
    BY <2>1, <2>2, <1>0 DEF Linked
  <2>4. \A d \in Callers : d # c => Following(d) /\ Answered(d)
    <3>1. \A d \in Callers : d # c => UNCHANGED <<pc[d], leaderOf[d], answer[d]>>
      BY <1>4 DEF Finish, Index, Evict, Load
    <3> QED
      BY <3>1, <1>a
  <2>5. Following(c)
    BY <2>1
  <2>6. Answered(c)
    <3>1. pc'[c] = "returned" => answer'[c] = c \/ Load(c)
      BY <1>4 DEF Finish, Index, Evict
    <3> QED
      BY <2>1, <2>2, <3>1, <1>d, <1>0
  <2> HIDE DEF Following, Answered
  <2> QED
    BY <2>3, <2>4, <2>5, <2>6, <1>c
<1>5. ASSUME NEW c \in Callers, Follow(c) PROVE Linked'
  <2>1. Kept /\ UNCHANGED <<scope, leaderOf>> /\ pc'[c] # "follow"
    BY <1>5 DEF Follow, Load
  <2>2. c \in Final
    BY <1>5 DEF Follow, Final
  <2>3. \A d \in Callers : d # c => Following(d) /\ Answered(d)
    <3>1. \A d \in Callers : d # c => UNCHANGED <<pc[d], leaderOf[d], answer[d]>>
      BY <1>5 DEF Follow, Load
    <3> QED
      BY <3>1, <1>a
  <2>4. Following(c)
    BY <2>1
  <2>5. Answered(c)
    <3>1. ASSUME pc'[c] = "returned"
          PROVE  /\ answer'[c] \in Final
                 /\ scope[answer'[c]] = scope[c] \/ Matches(scope[answer'[c]], scope[c])
      <4>1. CASE pc[leaderOf[c]] = "returned" /\ Return(c, answer[leaderOf[c]])
        <5>1. /\ leaderOf[c] \in Callers
              /\ scope[leaderOf[c]] = scope[c]
              /\ answer'[c] = answer[leaderOf[c]]
          BY <1>5, <4>1 DEF Follow, Linked, Bound
        <5> QED
          BY <4>1, <5>1 DEF Linked
      <4>2. CASE Load(c)
        BY <4>2, <1>d
      <4>3. CASE Return(c, c)
        BY <4>3, <2>2
      <4> QED
        BY <1>5, <3>1, <4>1, <4>2, <4>3 DEF Follow
    <3> QED
      BY <2>1, <3>1, <1>0
  <2> HIDE DEF Following, Answered
  <2> QED
    BY <2>1, <2>3, <2>4, <2>5, <1>b, <1>c
<1>6. CASE UNCHANGED callVars /\ Kept
  BY <1>6, <1>a, <1>b, <1>c
<1> HIDE DEF Following, Answered
<1> QED
  BY <1>1, <1>2, <1>3, <1>4, <1>5, <1>6
  DEF Next, Step, Govern, RegisterAgain, Invalidate, Invalidated, Select, Update, Forget, Rebuild,
      vars

(* Scopes stay linked.                                                     *)
LEMMA AlwaysLinked == Spec => []Linked
<1>1. Init => Linked
  BY DEF Init, Linked
<1> QED
  BY <1>1, AlwaysTyped, LinkedStep, PTL DEF Spec

(* No answer crosses tenants or resources: an answer was produced for the  *)
(* caller's own scope or for one that its scope may read, however it       *)
(* travelled.                                                              *)
THEOREM Isolation == Spec => []Isolated
<1>1. TypeOK /\ Bound /\ Linked => Isolated
  <2> SUFFICES ASSUME TypeOK, Bound, Linked, NEW c \in Served
               PROVE  LET p == scope[answer[c]]
                          s == scope[c]
                      IN \/ p.kind = s.kind /\ p.tenant = s.tenant /\ p.res = s.res
                         \/ p.kind = "global" /\ s.kind \in {"tenant", "global"}
    BY DEF Isolated
  <2>1. \A d \in Callers : scope[d].kind = "tenant" => scope[d].res = NoResource
    BY DEF TypeOK, Bound, Scope
  <2> QED
    BY <2>1 DEF Linked, Served, Matches, Final
<1> QED
  BY <1>1, AlwaysTyped, AlwaysLinked, PTL

---------------------------------------------------------------------------
(* Freshness, where a version is incremented in one statement and no       *)
(* resource is registered again: the version of a resource counts its      *)
(* invalidations, and a final scope carries a version that was current     *)
(* when or after its call began.                                           *)
Versions ==
  /\ \A p \in Processes : selected[p] = Nothing
  /\ \A r \in Resources : version[r] = epoch[r] + 1
  /\ \A c \in Callers : scope[c].kind = "resource" => begun[c] <= epoch[scope[c].res]
  /\ \A c \in Final : scope[c].kind = "resource" =>
       scope[c].ver = seen[c] + 1 /\ begun[c] <= seen[c]

(* Only a call that needs no resource, or resolves one, becomes final.     *)
LEMMA Finals ==
  ASSUME TypeOK, NEW c \in Callers,
         Authorize(c) \/ Search(c) \/ Revalidate(c) \/ Enter(c) \/ Finish(c) \/ Index(c)
           \/ Follow(c)
  PROVE  Final' \subseteq Final /\ UNCHANGED <<scope, begun, seen, epoch, version, selected>>
<1> USE DEF TypeOK, Goto, Return, Final, accessVars, resourceVars, ghostVars
<1>1. CASE Authorize(c) \/ Search(c) \/ Revalidate(c) \/ Enter(c)
  BY <1>1 DEF Authorize, Search, Revalidate, Enter
<1>2. CASE Finish(c) \/ Index(c) \/ Follow(c)
  BY <1>2 DEF Finish, Index, Evict, Follow, Load
<1> QED
  BY <1>1, <1>2

(* Every step keeps versions and invalidations in step.                    *)
LEMMA VersionsStep ==
  ASSUME OneStatement, ~ MayRegister, TypeOK, Bound, Versions, [Next]_vars
  PROVE  Versions'
<1> USE DEF TypeOK, AccessTypeOK
<1>1. ASSUME NEW c \in Callers, Call(c) PROVE Versions'
  <2>1. PICK k \in Kinds, r \in Resources \cup {NoResource} :
          /\ k = "resource" <=> r # NoResource
          /\ scope' = [scope EXCEPT ![c] = [kind |-> k, tenant |-> tenantOf[user[c]],
                                            res |-> r, ver |-> 0]]
          /\ IF ~ Known(user[c]) THEN Goto(c, "denied")
             ELSE Goto(c, IF k = "resource" THEN "authorize" ELSE "search")
          /\ begun' = [begun EXCEPT ![c] = IF k = "resource" THEN epoch[r] ELSE 0]
    BY <1>1 DEF Call
  <2>2. UNCHANGED <<version, epoch, seen, selected>>
    BY <1>1 DEF Call, accessVars, resourceVars
  <2>3. \A d \in Callers : d # c => /\ scope'[d] = scope[d] /\ begun'[d] = begun[d]
                                    /\ d \in Final' => d \in Final
    BY <2>1 DEF Goto, Final
  <2>4. scope'[c].kind = "resource" => begun'[c] = epoch[scope'[c].res] /\ c \notin Final'
    BY <2>1 DEF Goto, Final
  <2>5. scope'[c].kind = "resource" => scope'[c].res \in Resources
    BY <2>1
  <2> QED
    BY <2>2, <2>3, <2>4, <2>5 DEF Versions, Final
<1>2. ASSUME NEW c \in Callers, Resolve(c) PROVE Versions'
  <2>1. scope[c].kind = "resource" /\ scope[c].res \in Resources /\ scope[c] \in Scope
    BY <1>2 DEF Resolve, Bound
  <2>2. UNCHANGED <<version, epoch, begun, selected>>
    BY <1>2 DEF Resolve, accessVars, resourceVars
  <2>3. CASE owner[scope[c].res] = scope[c].tenant
    <3>1. /\ scope' = [scope EXCEPT ![c] = [scope[c] EXCEPT !.ver = version[scope[c].res]]]
          /\ seen' = [seen EXCEPT ![c] = epoch[scope[c].res]]
          /\ \A d \in Callers : d # c /\ d \in Final' => d \in Final
      BY <1>2, <2>3 DEF Resolve, Goto, Final
    <3>2. version[scope[c].res] \in Nat /\ epoch[scope[c].res] \in Nat
      BY <2>1
    <3>3. scope'[c].res = scope[c].res /\ scope'[c].ver = version[scope[c].res]
      BY <2>1, <3>1, <3>2, ResolvedScope
    <3>4. seen'[c] = epoch[scope[c].res]
      BY <3>1
    <3>5. \A d \in Callers : d # c => scope'[d] = scope[d] /\ seen'[d] = seen[d]
      BY <3>1
    <3>6. Final' \subseteq Callers
      BY DEF Final
    <3> QED
      BY <2>1, <2>2, <3>1, <3>2, <3>3, <3>4, <3>5, <3>6 DEF Versions
  <2>4. CASE owner[scope[c].res] # scope[c].tenant
    BY <1>2, <2>2, <2>4 DEF Resolve, Goto, Final, Versions
  <2> QED
    BY <2>3, <2>4
<1>3. ASSUME NEW c \in Callers,
             Authorize(c) \/ Search(c) \/ Revalidate(c) \/ Enter(c) \/ Finish(c) \/ Index(c)
               \/ Follow(c)
      PROVE  Versions'
  BY <1>3, Finals DEF Versions
<1>4. ASSUME NEW r \in Resources, Invalidate(r) PROVE Versions'
  <2>1. /\ version' = [version EXCEPT ![r] = version[r] + 1]
        /\ epoch' = [epoch EXCEPT ![r] = @ + 1]
        /\ UNCHANGED <<pc, scope, begun, seen, selected>>
    BY <1>4 DEF Invalidate, Invalidated, SetVersion, callVars
  <2>2. \A c \in Callers : scope[c].kind = "resource" => scope[c].res \in Resources
    BY DEF Bound
  <2> QED
    BY <2>1, <2>2 DEF Versions, Final
<1>5. CASE UNCHANGED <<callVars, version, epoch, begun, seen, selected>>
  BY <1>5 DEF Versions, Final, callVars
<1>6. ~ \E p \in Processes : Update(p)
  BY DEF Versions, Update
<1>7. Administer => UNCHANGED version
  BY DEF Administer, CreateUser, DeleteUser, AssignRole, RemoveRole, GrantPermission,
         RevokePermission, GrantAccess, RevokeAccess, resourceVars
<1> QED
  BY <1>1, <1>2, <1>3, <1>4, <1>5, <1>6, <1>7
  DEF Next, Step, Govern, RegisterAgain, Select, Forget, Rebuild, vars, accessVars, resourceVars,
      ghostVars

(* Once an invalidation has returned, no call that begins afterwards is    *)
(* answered from before it, whatever was under way.                        *)
THEOREM Freshness ==
  ASSUME OneStatement, ~ MayRegister
  PROVE  Spec => []Fresh
<1>1. Init => Versions
  BY CacheAssumption DEF Init, AccessInit, Versions, Final, NoScope
<1>2. TypeOK /\ Bound /\ Versions /\ [Next]_vars => Versions'
  BY VersionsStep
<1>3. TypeOK /\ Bound /\ Linked /\ Versions => Fresh
  <2> SUFFICES ASSUME TypeOK, Linked, Versions,
                      NEW c \in Served, scope[c].kind = "resource"
               PROVE  begun[c] <= seen[answer[c]]
    BY DEF Fresh
  <2>1. c \in Final /\ answer[c] \in Final /\ scope[answer[c]] = scope[c]
    BY DEF Served, Final, Linked, Matches
  <2> QED
    BY <2>1 DEF Versions, TypeOK, Final
<1> QED
  BY <1>1, <1>2, <1>3, AlwaysTyped, AlwaysLinked, PTL DEF Spec

---------------------------------------------------------------------------
(* Readers: whoever may read a resource during a call is recorded, and a   *)
(* call passes authorization only on what it may read then.                *)
Permitted ==
  /\ Entitled \subseteq entitled
  /\ \A c \in Callers : /\ pc[c] = "resolve" \/ c \in Final
                        /\ scope[c].kind = "resource"
                        => c \in entitled

(* A step that changes neither grants nor what is asked for entitles       *)
(* nobody.                                                                 *)
LEMMA NobodyEntitled ==
  ASSUME UNCHANGED <<accessVars, user>>,
         \A c \in Callers : Active(c)' => Active(c),
         \A c \in Callers : scope'[c].kind = scope[c].kind /\ scope'[c].res = scope[c].res
  PROVE  Entitled' \subseteq Entitled
BY DEF Entitled, AllowedOn, Known, HasRight, accessVars, userVars, grantVars, resourceVars

(* Every step keeps the record of readers.                                 *)
LEMMA PermittedStep == TypeOK /\ Bound /\ Permitted /\ [Next]_vars => Permitted'
<1> SUFFICES ASSUME TypeOK, Bound, Permitted, [Next]_vars PROVE Permitted'
  OBVIOUS
<1> USE DEF TypeOK, Goto, Return
<1>1. ASSUME NEW c \in Callers, Call(c) PROVE Permitted'
  <2>1. PICK k \in Kinds, r \in Resources \cup {NoResource} :
          /\ k = "resource" <=> r # NoResource
          /\ scope' = [scope EXCEPT ![c] = [kind |-> k, tenant |-> tenantOf[user[c]],
                                            res |-> r, ver |-> 0]]
          /\ IF ~ Known(user[c]) THEN Goto(c, "denied")
             ELSE Goto(c, IF k = "resource" THEN "authorize" ELSE "search")
    BY <1>1 DEF Call
  <2>2. entitled' = entitled \cup Entitled'
    BY <1>1 DEF Call, Witness
  <2>3. \A d \in Callers : d # c => scope'[d] = scope[d] /\ pc'[d] = pc[d]
    BY <2>1
  <2>4. scope'[c].kind = "resource" => pc'[c] \in {"denied", "authorize"}
    BY <2>1
  <2> QED
    BY <2>2, <2>3, <2>4 DEF Permitted, Final
<1>2. ASSUME NEW c \in Callers, Authorize(c) PROVE Permitted'
  <2>1. /\ UNCHANGED <<accessVars, user, scope, entitled>>
        /\ \A d \in Callers : d # c => pc'[d] = pc[d]
        /\ pc[c] = "authorize" /\ pc'[c] \in {"resolve", "denied"}
    BY <1>2 DEF Authorize, ghostVars
  <2>2. Entitled' \subseteq Entitled
    BY <2>1, NobodyEntitled DEF Active, Ended
  <2>3. pc'[c] = "resolve" /\ scope[c].kind = "resource" => c \in Entitled
    BY <1>2 DEF Authorize, Entitled, Active, Ended
  <2> QED
    BY <2>1, <2>2, <2>3 DEF Permitted, Final
<1>3. ASSUME NEW c \in Callers, Resolve(c) PROVE Permitted'
  <2>1. /\ UNCHANGED <<accessVars, user, entitled>>
        /\ \A d \in Callers : d # c => pc'[d] = pc[d]
        /\ pc[c] = "resolve"
    BY <1>3 DEF Resolve
  <2>2. \A d \in Callers : scope'[d].kind = scope[d].kind /\ scope'[d].res = scope[d].res
    <3>1. CASE UNCHANGED scope
      BY <3>1
    <3>2. CASE scope' = [scope EXCEPT ![c] = [scope[c] EXCEPT !.ver = version[scope[c].res]]]
      <4>1. scope[c] \in Scope /\ version[scope[c].res] \in Nat
        BY <1>3 DEF Resolve, Bound, AccessTypeOK
      <4> QED
        BY <3>2, <4>1, ResolvedScope
    <3> QED
      BY <1>3, <3>1, <3>2 DEF Resolve
  <2>3. Entitled' \subseteq Entitled
    BY <2>1, <2>2, NobodyEntitled DEF Active, Ended
  <2> QED
    BY <2>1, <2>2, <2>3 DEF Permitted, Final
<1>4. ASSUME NEW c \in Callers,
             Search(c) \/ Revalidate(c) \/ Enter(c) \/ Finish(c) \/ Index(c) \/ Follow(c)
      PROVE  Permitted'
  <2>1. /\ UNCHANGED <<accessVars, user, scope, entitled>>
        /\ c \in Final
        /\ \A d \in Callers : pc'[d] # pc[d] => d = c
    <3>1. CASE Search(c) \/ Revalidate(c) \/ Enter(c)
      BY <3>1 DEF Search, Revalidate, Enter, Final, ghostVars
    <3>2. CASE Finish(c) \/ Index(c) \/ Follow(c)
      BY <3>2 DEF Finish, Index, Evict, Follow, Load, Final, ghostVars
    <3> QED
      BY <1>4, <3>1, <3>2
  <2>2. \A d \in Callers : Active(d)' => Active(d)
    <3>1. pc[c] \notin Ended
      BY <1>4 DEF Search, Revalidate, Enter, Finish, Index, Follow, Ended
    <3> QED
      BY <2>1, <3>1 DEF Active, Final
  <2>3. Entitled' \subseteq Entitled
    BY <2>1, <2>2, NobodyEntitled
  <2> QED
    BY <2>1, <2>3 DEF Permitted, Final
<1>5. CASE Witness /\ UNCHANGED callVars
  BY <1>5 DEF Witness, Permitted, Final, callVars
<1>6. CASE UNCHANGED <<accessVars, callVars, entitled>>
  <2>1. Entitled' \subseteq Entitled
    BY <1>6, NobodyEntitled DEF callVars, Active
  <2> QED
    BY <1>6, <2>1 DEF Permitted, Final, callVars
<1> QED
  BY <1>1, <1>2, <1>3, <1>4, <1>5, <1>6
  DEF Next, Step, Govern, RegisterAgain, Invalidate, Invalidated, Select, Update, Forget, Rebuild,
      vars, ghostVars

(* An answer about a resource goes only to a user who could read it at     *)
(* some moment of the call.                                                *)
THEOREM OnlyReaders == Spec => []ReadersOnly
<1>1. Init => Permitted
  BY DEF Init, Permitted, Final, Entitled, Active
<1>2. Permitted => ReadersOnly
  BY DEF Permitted, ReadersOnly, Served, Final
<1> QED
  BY <1>1, <1>2, AlwaysTyped, PermittedStep, PTL DEF Spec

---------------------------------------------------------------------------
(* Departures: an entry that has left the store or expired never comes     *)
(* back, so what was gone when a call began is never its answer.           *)
Departed == expired \cup {e \in Callers \ rows : pc[e] \in Ended}

Departures ==
  /\ \A e \in rows \cup expired : pc[e] \in {"index"} \cup Ended
  /\ \A c \in Callers : gone[c] \subseteq Departed /\ c \notin gone[c]
  /\ \A c \in Callers : pc[c] = "follow" =>
       /\ pc[leaderOf[c]] \in {"lead", "index"} \cup Ended
       /\ leaderOf[c] \notin gone[c]
       /\ pc[leaderOf[c]] = "returned" => answer[leaderOf[c]] \notin gone[c]
  /\ \A c \in Callers : pc[c] = "returned" => answer[c] \notin gone[c]

(* What has departed stays away.                                           *)
LEMMA DepartedGrows == TypeOK /\ Departures /\ [Next]_vars => Departed \subseteq Departed'
<1> SUFFICES ASSUME TypeOK, Departures, [Next]_vars PROVE Departed \subseteq Departed'
  OBVIOUS
<1> USE DEF TypeOK, Goto, Return, Departed, Ended, callVars, storeVars
<1>1. ASSUME NEW c \in Callers, Step(c) PROVE Departed \subseteq Departed'
  <2>1. CASE Call(c) \/ Authorize(c) \/ Resolve(c) \/ Search(c)
    BY <2>1 DEF Call, Authorize, Resolve, Search
  <2>2. CASE Revalidate(c) \/ Enter(c) \/ Follow(c)
    BY <2>2 DEF Revalidate, Enter, Follow, Load
  <2>3. CASE Finish(c)
    BY <2>3 DEF Finish, Evict, Load
  <2>4. CASE Index(c)
    <3>1. rows' \subseteq rows /\ UNCHANGED expired /\ pc'[c] \in Ended
      BY <2>4 DEF Index, Evict
    <3>2. \A d \in Callers : d # c => pc'[d] = pc[d]
      BY <2>4 DEF Index, Evict
    <3> QED
      BY <3>1, <3>2
  <2> QED
    BY <1>1, <2>1, <2>2, <2>3, <2>4 DEF Step
<1>2. CASE UNCHANGED callVars /\ rows' \subseteq rows /\ expired \subseteq expired'
  BY <1>2
<1> QED
  BY <1>1, <1>2
  DEF Next, Govern, RegisterAgain, Invalidate, Invalidated, Select, Update, Forget, Rebuild, vars

(* Every step keeps the departed out of answers.                           *)
LEMMA DeparturesStep == TypeOK /\ Bound /\ Departures /\ [Next]_vars => Departures'
<1> SUFFICES ASSUME TypeOK, Bound, Departures, [Next]_vars PROVE Departures'
  OBVIOUS
<1>0. Departed \subseteq Departed'
  BY DepartedGrows
<1> DEFINE Stored == \A e \in rows' \cup expired' : pc'[e] \in {"index"} \cup Ended
           Follows(c) == pc'[c] = "follow" =>
             /\ leaderOf'[c] \in Callers
             /\ pc'[leaderOf'[c]] \in {"lead", "index"} \cup Ended
             /\ leaderOf'[c] \notin gone'[c]
             /\ pc'[leaderOf'[c]] = "returned" => answer'[leaderOf'[c]] \notin gone'[c]
           Returned(c) == pc'[c] = "returned" => answer'[c] \notin gone'[c]
<1>a. ASSUME UNCHANGED gone, Stored, \A c \in Callers : Follows(c) /\ Returned(c)
      PROVE  Departures'
  BY <1>0, <1>a DEF Departures
<1>b. ASSUME NEW c \in Callers, Load(c), NEW d \in Callers
      PROVE  answer'[c] \notin gone[d]
  <2>1. PICK e \in rows \ expired : Return(c, e)
    BY <1>b DEF Load
  <2>2. answer'[c] = e /\ e \notin Departed
    BY <2>1 DEF Return, Departed, TypeOK
  <2> QED
    BY <2>2 DEF Departures
<1> USE DEF TypeOK, Goto, Return, Ended, callVars, storeVars
<1>1. ASSUME NEW c \in Callers, Call(c) PROVE Departures'
  <2>1. /\ gone' = [gone EXCEPT ![c] = Departed]
        /\ UNCHANGED <<rows, expired, leaderOf, answer>>
        /\ pc[c] = "idle" /\ pc'[c] \in {"denied", "authorize", "search"}
        /\ \A d \in Callers : d # c => pc'[d] = pc[d]
    BY <1>1 DEF Call, Departed
  <2>2. c \notin Departed
    BY <2>1 DEF Departures, Departed
  <2>3. \A d \in Callers : pc'[d] = "follow" => d # c /\ leaderOf[d] \in Callers \ {c}
    BY <2>1 DEF Departures, Bound
  <2>4. \A d \in Callers : gone'[d] \subseteq Departed' /\ d \notin gone'[d]
    BY <2>1, <2>2, <1>0 DEF Departures
  <2>5. \A e \in rows \cup expired : e # c
    BY <2>1 DEF Departures
  <2>6. \A d \in Callers : d # c => gone'[d] = gone[d]
    BY <2>1
  <2> QED
    BY <2>1, <2>3, <2>4, <2>5, <2>6 DEF Departures
<1>2. ASSUME NEW c \in Callers,
             Authorize(c) \/ Resolve(c) \/ Search(c) \/ Revalidate(c)
      PROVE  Departures'
  <2>1. /\ UNCHANGED <<gone, rows, expired, leaderOf>>
        /\ pc[c] \in {"authorize", "resolve", "search", "revalidate"}
        /\ pc'[c] # "follow"
        /\ \A d \in Callers : d # c => pc'[d] = pc[d] /\ answer'[d] = answer[d]
    BY <1>2 DEF Authorize, Resolve, Search, Revalidate, ghostVars
  <2>2. pc'[c] = "returned" => answer'[c] \notin gone[c]
    <3>1. ASSUME pc'[c] = "returned" PROVE answer'[c] \in rows \ expired
      BY <1>2, <3>1 DEF Authorize, Resolve, Search, Revalidate, IsEntryValid
    <3> QED
      BY <3>1 DEF Departures, Departed
  <2>3. \A d \in Callers : pc'[d] = "follow" => leaderOf[d] \in Callers \ {c} /\ d # c
    BY <2>1 DEF Departures, Bound
  <2>4. Stored
    BY <2>1 DEF Departures
  <2>5. \A d \in Callers : Follows(d) /\ Returned(d)
    BY <2>1, <2>2, <2>3 DEF Departures
  <2> HIDE DEF Stored, Follows, Returned
  <2> QED
    BY <2>1, <2>4, <2>5, <1>a
<1>3. ASSUME NEW c \in Callers, Enter(c) PROVE Departures'
  <2>1. /\ UNCHANGED <<gone, rows, expired, answer>>
        /\ pc[c] = "flight" /\ pc'[c] \in {"lead", "follow"}
        /\ \A d \in Callers : d # c => pc'[d] = pc[d] /\ leaderOf'[d] = leaderOf[d]
    BY <1>3 DEF Enter, ghostVars
  <2>2. \A d \in Callers : d # c /\ pc[d] = "follow" => leaderOf[d] \in Callers \ {c}
    BY <2>1 DEF Departures, Bound
  <2>3. ASSUME pc'[c] = "follow"
        PROVE  leaderOf'[c] \in Callers \ {c} /\ pc[leaderOf'[c]] = "lead"
    BY <1>3, <2>3, <2>1 DEF Enter
  <2>4. Stored
    BY <2>1 DEF Departures
  <2>5. \A d \in Callers : pc[d] = "lead" => d \notin Departed
    BY DEF Departures, Departed
  <2>6. \A d \in Callers : d # c => Follows(d) /\ Returned(d)
    BY <2>1, <2>2 DEF Departures
  <2>7. Follows(c) /\ Returned(c)
    BY <2>1, <2>3, <2>5 DEF Departures
  <2> HIDE DEF Stored, Follows, Returned
  <2> QED
    BY <2>1, <2>4, <2>6, <2>7, <1>a
<1>4. ASSUME NEW c \in Callers, Finish(c) \/ Index(c) PROVE Departures'
  <2>1. /\ UNCHANGED <<gone, expired, leaderOf>>
        /\ pc[c] \in {"lead", "index"} /\ pc'[c] \in {"index"} \cup Ended
        /\ rows' \subseteq rows \cup {c}
        /\ \A d \in Callers : d # c => pc'[d] = pc[d] /\ answer'[d] = answer[d]
    BY <1>4 DEF Finish, Index, Evict, Load, ghostVars
  <2>2. pc'[c] = "returned" => answer'[c] = c \/ Load(c)
    BY <1>4 DEF Finish, Index, Evict
  <2>3. Stored
    BY <2>1 DEF Departures
  <2>4. \A d \in Callers : (pc'[c] = "returned" /\ c \notin gone[d]) => answer'[c] \notin gone[d]
    BY <2>2, <1>b
  <2>5. \A d \in Callers : Follows(d)
    BY <2>1, <2>4 DEF Departures, Bound
  <2>6. \A d \in Callers : Returned(d)
    BY <2>1, <2>4 DEF Departures
  <2> HIDE DEF Stored, Follows, Returned
  <2> QED
    BY <2>1, <2>3, <2>5, <2>6, <1>a
<1>5. ASSUME NEW c \in Callers, Follow(c) PROVE Departures'
  <2>1. /\ UNCHANGED <<gone, rows, expired, leaderOf>>
        /\ pc[c] = "follow" /\ pc'[c] \in {"lead", "returned", "raised"}
        /\ \A d \in Callers : d # c => pc'[d] = pc[d] /\ answer'[d] = answer[d]
    BY <1>5 DEF Follow, Load, ghostVars
  <2>2. pc'[c] = "returned" => answer'[c] \notin gone[c]
    <3>1. CASE pc[leaderOf[c]] = "returned" /\ Return(c, answer[leaderOf[c]])
      BY <3>1, <2>1 DEF Departures
    <3>2. CASE Load(c)
      BY <3>2, <1>b
    <3>3. CASE Return(c, c)
      BY <3>3 DEF Departures
    <3> QED
      BY <1>5, <3>1, <3>2, <3>3 DEF Follow
  <2>3. \A d \in Callers : pc'[d] = "follow" => leaderOf[d] \in Callers \ {c} /\ d # c
    BY <2>1 DEF Departures, Bound
  <2>4. Stored
    BY <2>1 DEF Departures
  <2>5. \A d \in Callers : Follows(d) /\ Returned(d)
    BY <2>1, <2>2, <2>3 DEF Departures
  <2> HIDE DEF Stored, Follows, Returned
  <2> QED
    BY <2>1, <2>4, <2>5, <1>a
<1>6. CASE /\ UNCHANGED <<callVars, gone>>
           /\ rows' \cup expired' \subseteq rows \cup expired
  <2>1. Stored
    BY <1>6 DEF Departures
  <2>2. \A d \in Callers : Follows(d) /\ Returned(d)
    BY <1>6 DEF Departures, Bound
  <2> HIDE DEF Stored, Follows, Returned
  <2> QED
    BY <1>6, <2>1, <2>2, <1>a
<1> HIDE DEF Stored, Follows, Returned
<1> QED
  BY <1>1, <1>2, <1>3, <1>4, <1>5, <1>6
  DEF Next, Step, Govern, RegisterAgain, Invalidate, Invalidated, Select, Update, Forget, Rebuild,
      vars, ghostVars

(* An entry that had been evicted or had expired before a call began is    *)
(* never its answer.                                                       *)
THEOREM GoneForGood == Spec => []NoGoneAnswer
<1>1. Init => Departures
  BY DEF Init, Departures, Departed, Ended
<1>2. Departures => NoGoneAnswer
  BY DEF Departures, NoGoneAnswer, Served
<1> QED
  BY <1>1, <1>2, AlwaysTyped, DeparturesStep, PTL DEF Spec
=============================================================================
