--------------------------- MODULE AccessControl ---------------------------
(***************************************************************************)
(* Users, roles, permissions, resources and their access lists, as the     *)
(* relational store keeps them (store/sqlite_store.py) and as              *)
(* AuthorizationService and ResourceService (rbac/) read them.             *)
(*                                                                         *)
(* One action per administrative operation of the store; each is a single  *)
(* transaction.  Of the permissions, "read" stands for resource:read and   *)
(* "write" for cache:write, the two that a cache query asks for.           *)
(***************************************************************************)
EXTENDS Naturals, FiniteSets

CONSTANTS Users, Tenants, Resources,
          Roles,         \* the roles of the store
          Admin,         \* the role that needs no permission
          NoTenant,      \* the tenant of a user who does not exist
          FirstTenant,   \* the tenant of each user, or NoTenant, at first
          FirstRoles,    \* the roles of each user at first
          DefaultRights, \* the permissions each role is seeded with
          FirstOwner     \* the tenant of each resource at first

Permissions == {"read", "write"}

ASSUME AccessAssumption ==
  /\ Admin \in Roles
  /\ NoTenant \notin Tenants
  /\ FirstTenant \in [Users -> Tenants \cup {NoTenant}]
  /\ FirstRoles \in [Users -> SUBSET Roles]
  /\ DefaultRights \subseteq Roles \X Permissions
  /\ FirstOwner \in [Resources -> Tenants]

VARIABLES
  tenantOf, \* users.tenant_id
  roles,    \* user_roles
  rights,   \* role_permissions
  acl,      \* resource_access
  owner,    \* resources.tenant_id
  version   \* resources.current_version

userVars == <<tenantOf, roles>>
grantVars == <<rights, acl>>
resourceVars == <<owner, version>>
accessVars == <<userVars, grantVars, resourceVars>>

AccessTypeOK ==
  /\ tenantOf \in [Users -> Tenants \cup {NoTenant}]
  /\ roles \in [Users -> SUBSET Roles]
  /\ rights \subseteq Roles \X Permissions
  /\ acl \in [Resources -> SUBSET (Roles \X Permissions)]
  /\ owner \in [Resources -> Tenants]
  /\ version \in [Resources -> Nat]

AccessInit ==
  /\ tenantOf = FirstTenant
  /\ roles = FirstRoles
  /\ rights = DefaultRights
  /\ acl = [r \in Resources |-> {}]
  /\ owner = FirstOwner
  /\ version = [r \in Resources |-> 1]

---------------------------------------------------------------------------
(* Decisions *)

Known(u) == tenantOf[u] # NoTenant

HasRight(u, permission) == \E role \in roles[u] : <<role, permission>> \in rights

(* check_user_permission without a resource. *)
Allowed(u, permission) == Known(u) /\ (Admin \in roles[u] \/ HasRight(u, permission))

(* check_user_permission on a resource: a resource with an access list is  *)
(* open to the roles listed with the permission, any other to the roles    *)
(* that have it; a user without a role is never let in.                    *)
AllowedOn(u, permission, r) ==
  /\ Known(u)
  /\ owner[r] = tenantOf[u]
  /\ \/ Admin \in roles[u]
     \/ acl[r] = {} /\ HasRight(u, permission)
     \/ acl[r] # {} /\ \E role \in roles[u] : <<role, permission>> \in acl[r]

---------------------------------------------------------------------------
(* Administration *)

CreateUser(u, t) ==
  /\ tenantOf' = [tenantOf EXCEPT ![u] = t]
  /\ UNCHANGED <<roles, grantVars, resourceVars>>

(* The user's roles go with the user (ON DELETE CASCADE). *)
DeleteUser(u) ==
  /\ tenantOf' = [tenantOf EXCEPT ![u] = NoTenant]
  /\ roles' = [roles EXCEPT ![u] = {}]
  /\ UNCHANGED <<grantVars, resourceVars>>

AssignRole(u, role) ==
  /\ Known(u)
  /\ roles' = [roles EXCEPT ![u] = @ \cup {role}]
  /\ UNCHANGED <<tenantOf, grantVars, resourceVars>>

RemoveRole(u, role) ==
  /\ roles' = [roles EXCEPT ![u] = @ \ {role}]
  /\ UNCHANGED <<tenantOf, grantVars, resourceVars>>

GrantPermission(role, permission) ==
  /\ rights' = rights \cup {<<role, permission>>}
  /\ UNCHANGED <<userVars, acl, resourceVars>>

RevokePermission(role, permission) ==
  /\ rights' = rights \ {<<role, permission>>}
  /\ UNCHANGED <<userVars, acl, resourceVars>>

GrantAccess(r, role, permission) ==
  /\ acl' = [acl EXCEPT ![r] = @ \cup {<<role, permission>>}]
  /\ UNCHANGED <<userVars, rights, resourceVars>>

RevokeAccess(r, role, permission) ==
  /\ acl' = [acl EXCEPT ![r] = @ \ {<<role, permission>>}]
  /\ UNCHANGED <<userVars, rights, resourceVars>>

(* create_resource of a resource that exists: the registration wins.       *)
Register(r, t, v) ==
  /\ owner' = [owner EXCEPT ![r] = t]
  /\ version' = [version EXCEPT ![r] = v]
  /\ UNCHANGED <<userVars, grantVars>>

(* The UPDATE of increment_resource_version, v being one more than what    *)
(* its SELECT has read.                                                    *)
SetVersion(r, v) ==
  /\ version' = [version EXCEPT ![r] = v]
  /\ UNCHANGED <<userVars, grantVars, owner>>

Administer ==
  \/ \E u \in Users : \/ \E t \in Tenants : CreateUser(u, t)
                      \/ DeleteUser(u)
                      \/ \E role \in Roles : AssignRole(u, role) \/ RemoveRole(u, role)
  \/ \E role \in Roles, permission \in Permissions :
       \/ GrantPermission(role, permission)
       \/ RevokePermission(role, permission)
       \/ \E r \in Resources : \/ GrantAccess(r, role, permission)
                               \/ RevokeAccess(r, role, permission)
============================================================================
