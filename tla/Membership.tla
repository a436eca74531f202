------------------------------ MODULE Membership ------------------------------
(* Who belongs to an organization and to a project of it (enterprise.service, *)
(* organizations.repository, api-keys.service), and the checks every request  *)
(* passes before it changes that (authorize.middleware, api-key-auth): one    *)
(* query after another, none of them in a transaction with the change.        *)
EXTENDS Naturals, FiniteSets

CONSTANTS
  People,      \* users; Founder made the organization
  Founder,
  Keys,        \* API keys that can be made, each with ScopesOf
  ScopesOf,
  Doors,       \* requests under way at a time
  Roles,       \* the roles given, of those of permissionsForRole
  TeamLimit,   \* team_members_max of the plan
  KeyLimit,    \* api_keys_max
  MaxAsked     \* bound: requests

ASSUME MembershipAssumption ==
  /\ Founder \in People /\ ScopesOf \in [Keys -> SUBSET STRING]
  /\ People \cap Keys = {} /\ "OWNER" \in Roles
  /\ {TeamLimit, KeyLimit, MaxAsked} \subseteq Nat

VARIABLES
  members,   \* [People -> the row of OrganizationMember, NoMember when there is none]
  onProject, \* [People -> the row of ProjectMember]
  keys,      \* [Keys -> "none", "ACTIVE" or "REVOKED"]
  org,       \* of Organization: "ACTIVE" or "DELETED"
  fuzzingAllowed, \* of SecuritySetting
  door,      \* [Doors -> the request it serves]
  asked

orgRows == <<members, onProject, keys, org, fuzzingAllowed>>
memberVars == <<orgRows, door, asked>>

NoMember == [status |-> "none"]
Active(row) == row.status = "ACTIVE"
Live(row) == row.status \notin {"none", "REMOVED"}   \* deletedAt is null
IsOwner(row) == row.status # "none" /\ row.role = "OWNER"
Owners == {u \in People : IsOwner(members[u]) /\ Active(members[u])}
ActiveKeys == {k \in Keys : keys[k] = "ACTIVE"}

Closed == [at |-> "closed"]
Asks(d, at) == door[d].at = at
Enter(d, state) == door' = [door EXCEPT ![d] = state]
Move(d, to) == Enter(d, [door[d] EXCEPT !.at = to])
Refuse(d) == Enter(d, Closed)

(* OrganizationsRepository.create, in a transaction. *)
MembershipInit ==
  /\ members = [u \in People |-> IF u = Founder THEN [status |-> "ACTIVE", role |-> "OWNER"] ELSE NoMember]
  /\ onProject = [u \in People |-> NoMember]
  /\ keys = [k \in Keys |-> "none"] /\ org = "ACTIVE" /\ fuzzingAllowed = TRUE
  /\ asked = 0
  /\ door = [d \in Doors |-> Closed]

-----------------------------------------------------------------------------
(* What a role may do (of the permissions that the routes below ask for).    *)

Reads == {"project:read", "vulnerabilities:read", "finding:review"}
Develops == Reads \cup {"fuzz:run", "vulnerabilities:update"}
Audits == Reads \cup {"audit_log:read"}
Leads == Develops \cup Audits \cup
  {"threat:intel:manage", "api_key:create", "api_key:revoke", "api-keys:create", "api-keys:revoke"}
Administers == Leads \cup
  {"project:create", "project:update", "project:delete", "org:manage", "billing:manage",
   "organizations:read", "organizations:update", "organizations:delete", "api-keys:read"}

permissionsForRole(role) ==
  CASE role = "OWNER" -> Administers \cup {"*"}
    [] role = "ADMIN" -> Administers
    [] role = "SECURITY_LEAD" -> Leads
    [] role = "AUDITOR" -> Audits
    [] role = "DEVELOPER" -> Develops
    [] role = "BILLING_ADMIN" -> Reads \cup {"billing:manage"}
    [] OTHER -> Reads

(* The other names a permission goes by. Several share one, which only goes  *)
(* back to the last of them (threat:intel:manage).                           *)
OfOrganization == {"organizations:read", "organizations:update", "organizations:delete"}
permissionAliases(p) ==
  CASE p = "api_key:create" -> {"api-keys:create"}
    [] p = "api_key:revoke" -> {"api-keys:revoke"}
    [] p = "org:manage" -> OfOrganization
    [] p = "project:update" -> {"projects:update", "vulnerabilities:update"}
    [] p = "finding:review" -> {"vulnerabilities:read", "vulnerabilities:update"}
    [] p \in {"project:create", "project:delete", "fuzz:run", "threat:intel:manage"} -> {"vulnerabilities:update"}
    [] p = "api-keys:create" -> {"api_key:create"}
    [] p = "api-keys:revoke" -> {"api_key:revoke"}
    [] p \in OfOrganization -> {"org:manage"}
    [] p = "projects:update" -> {"project:update"}
    [] p = "vulnerabilities:update" -> {"threat:intel:manage"}
    [] OTHER -> {}

AllOfThem == {"project:create", "project:read", "project:update", "project:delete", "finding:review",
              "fuzz:run", "threat:intel:manage", "api_key:create", "api_key:revoke", "org:manage",
              "billing:manage", "audit_log:read"}
expandPermissions(granted) ==
  granted \cup UNION {permissionAliases(p) : p \in granted} \cup (IF "*" \in granted THEN AllOfThem ELSE {})

requirePermissions(granted, p) ==
  ({p} \cup permissionAliases(p)) \cap expandPermissions(granted) # {}

Needs(op) ==
  CASE op \in {"invite", "update", "remove", "settings"} -> "org:manage"
    [] op \in {"add to project", "update on project", "remove from project"} -> "project:update"
    [] op = "fuzz" -> "fuzz:run"
    [] op = "make key" -> "api_key:create"
    [] op = "revoke key" -> "api_key:revoke"
    [] op = "rename" -> "organizations:update"
    [] op = "delete" -> "organizations:delete"

-----------------------------------------------------------------------------
(* A request at the door.                                                    *)

Asking(d, by, what) ==
  /\ Asks(d, "closed") /\ asked < MaxAsked /\ asked' = asked + 1
  /\ by \in Keys => keys[by] = "ACTIVE" /\ what.op # "delete"  \* authenticateApiKey, and not its route
  /\ Enter(d, [at |-> "organization", by |-> by, what |-> what, everywhere |-> FALSE])
  /\ UNCHANGED orgRows

requireOrganizationParam(d) ==
  /\ Asks(d, "organization")
  /\ LET by == door[d].by
     IN IF by \in Keys THEN Enter(d, [door[d] EXCEPT !.at = "permissions"])
        ELSE IF Active(members[by]) THEN Move(d, "role") ELSE Refuse(d)
  /\ UNCHANGED <<orgRows, asked>>

(* The membership is read a second time. What is required of the permissions *)
(* comes after the access to the project, but depends on nothing it reads.   *)
(* Further roles of a user (UserRole), made by seeds only, are left out.      *)
loadOrganizationPermissions(d) ==
  /\ door[d].at \in {"role", "permissions"}
  /\ LET by == door[d].by  op == door[d].what.op
         granted == IF by \in Keys THEN ScopesOf[by]
                    ELSE IF Active(members[by]) THEN permissionsForRole(members[by].role) ELSE {}
     IN IF ~requirePermissions(granted, Needs(op)) THEN Refuse(d)
        ELSE Enter(d, [door[d] EXCEPT !.at = CASE Needs(op) = "project:update" -> "project"
                                               [] op = "fuzz" -> "finding"
                                               [] OTHER -> "admitted",
                              !.everywhere = by \in Keys \/ granted \cap {"org:manage", "organizations:update", "*"} # {}])
  /\ UNCHANGED <<orgRows, asked>>

OnItsProject(d) == door[d].everywhere \/ Active(onProject[door[d].by])
Pass(d, allowed, to) == (IF allowed THEN Move(d, to) ELSE Refuse(d)) /\ UNCHANGED <<orgRows, asked>>

requireProjectAccess(d) == Asks(d, "project") /\ Pass(d, OnItsProject(d), "admitted")

(* A finding may be gone, and may be of a scan without a project.            *)
requireFindingProjectAccess(d) ==
  Asks(d, "finding") /\ Pass(d, door[d].what.finding # "none", "resource")
authorizeResourceProject(d) ==
  Asks(d, "resource") /\ Pass(d, door[d].what.finding = "loose" \/ OnItsProject(d), "setting")
requireOrgSecuritySetting(d) == Asks(d, "setting") /\ Pass(d, fuzzingAllowed, "admitted")

-----------------------------------------------------------------------------
(* Members.                                                                  *)

(* A row is written, and then the AdminActionEvent, which nothing reads.      *)
(* Whoever has counted members, or keys, and has yet to write is overtaken.  *)
MakesKey(d) == door[d].what.op = "make key"
Counted(d) == {e \in Doors : door[e].at \in {"recheck", "write"} /\ MakesKey(e) = MakesKey(d)}
Overtake(d, to) ==
  door' = [e \in Doors |->
    IF e = d THEN [at |-> to]
    ELSE IF e \in Counted(d) THEN [door[e] EXCEPT !.overtaken = TRUE] ELSE door[e]]
Write(d, who, row) ==
  /\ members' = [members EXCEPT ![who] = row] /\ Overtake(d, "event")
  /\ UNCHANGED <<onProject, keys, org, fuzzingAllowed, asked>>

Admitted(d, op) == Asks(d, "admitted") /\ door[d].what.op = op
Ready(d, op) == Asks(d, "write") /\ door[d].what.op = op
Go(d, to) == Enter(d, [at |-> to, what |-> door[d].what, overtaken |-> FALSE])
Peek(d, to) == Go(d, to) /\ UNCHANGED <<orgRows, asked>>
Reject(d) == Refuse(d) /\ UNCHANGED <<orgRows, asked>>

inviteMember(d) ==
  /\ Admitted(d, "invite")
  /\ IF Cardinality({u \in People : Active(members[u])}) + 1 > TeamLimit THEN Reject(d) ELSE Peek(d, "write")

upsertMember(d) ==
  /\ Ready(d, "invite")
  /\ Write(d, door[d].what.who, [status |-> "INVITED", role |-> door[d].what.role])

(* updateMember: a role, a status or both; "" is one that is not given.      *)
Demotes(what) == what.role \notin {"", "OWNER"}

updateMember(d) ==
  /\ Admitted(d, "update")
  /\ LET row == members[door[d].what.who]
     IN IF ~Live(row) THEN Reject(d)
        ELSE Peek(d, IF IsOwner(row) /\ Demotes(door[d].what) THEN "owners" ELSE "write")

removeMember(d) ==
  /\ Admitted(d, "remove")
  /\ LET row == members[door[d].what.who]
     IN IF ~Live(row) THEN Reject(d)
        ELSE Peek(d, IF IsOwner(row) THEN "owners" ELSE "write")

AnyOwner(d) ==  \* mutant: the owners are not counted
  Asks(d, "owners") /\ Peek(d, "write")

(* assertNotLastOwner: the owners are counted, then the row is read again.   *)
countOwners(d) ==
  /\ Asks(d, "owners")
  /\ Peek(d, IF Cardinality(Owners) <= 1 THEN "recheck" ELSE "write")

assertNotLastOwner(d) ==
  /\ Asks(d, "recheck")
  /\ IF IsOwner(members[door[d].what.who]) THEN Reject(d)
     ELSE Move(d, "write") /\ UNCHANGED <<orgRows, asked>>

putMember(d) ==
  /\ Ready(d, "update")
  /\ LET what == door[d].what  row == members[what.who]
     IN Write(d, what.who, [status |-> IF what.status = "" THEN row.status ELSE what.status,
                            role |-> IF what.role = "" THEN row.role ELSE what.role])

takeOut(d) ==
  /\ Ready(d, "remove")
  /\ Write(d, door[d].what.who, [members[door[d].what.who] EXCEPT !.status = "REMOVED"])

-----------------------------------------------------------------------------
(* Members of the project, keys, the organization.                           *)

WriteOnProject(d, who, status) ==
  /\ onProject' = [onProject EXCEPT ![who] = [status |-> status]]
  /\ Enter(d, [at |-> "event"])
  /\ UNCHANGED <<members, keys, org, fuzzingAllowed, asked>>

addProjectMember(d) ==
  /\ Admitted(d, "add to project")
  /\ IF Live(members[door[d].what.who]) THEN Peek(d, "write") ELSE Reject(d)
upsertProjectMember(d) == Ready(d, "add to project") /\ WriteOnProject(d, door[d].what.who, "ACTIVE")

(* updateMany: the row is written if it is still there.                      *)
updateProjectMember(d) ==
  /\ Asks(d, "admitted") /\ door[d].what.op \in {"update on project", "remove from project"}
  /\ LET who == door[d].what.who
     IN IF ~Live(onProject[who]) THEN Reject(d)
        ELSE WriteOnProject(d, who, IF door[d].what.op = "update on project" THEN "ACTIVE" ELSE "REMOVED")

createKey(d) ==
  /\ Admitted(d, "make key")
  /\ IF Cardinality(ActiveKeys) + 1 > KeyLimit THEN Reject(d) ELSE Peek(d, "write")
insertKey(d) ==
  /\ Ready(d, "make key") /\ Overtake(d, "closed")
  /\ \E k \in Keys : keys[k] = "none" /\ keys' = [keys EXCEPT ![k] = "ACTIVE"]
  /\ UNCHANGED <<members, onProject, org, fuzzingAllowed, asked>>
revokeKey(d) ==
  /\ Admitted(d, "revoke key") /\ Refuse(d)
  /\ keys' = [keys EXCEPT ![door[d].what.who] = IF @ = "none" THEN @ ELSE "REVOKED"]
  /\ UNCHANGED <<members, onProject, org, fuzzingAllowed, asked>>

updateOrganization(d) ==
  /\ Asks(d, "admitted") /\ door[d].what.op \in {"rename", "delete"} /\ Refuse(d)
  /\ org' = IF door[d].what.op = "delete" THEN "DELETED" ELSE org
  /\ UNCHANGED <<members, onProject, keys, fuzzingAllowed, asked>>

(* updateSecuritySettings; SSO, retention and requests for data are a row of *)
(* their own each, which nothing reads.                                      *)
updateSettings(d) ==
  /\ Admitted(d, "settings") /\ Enter(d, [at |-> "event"])
  /\ fuzzingAllowed' = door[d].what.fuzzing
  /\ UNCHANGED <<members, onProject, keys, org, asked>>

(* What the service does then is EvidenceRuns.                               *)
fuzzFinding(d) == Admitted(d, "fuzz") /\ Reject(d)

adminEvent(d) == Asks(d, "event") /\ Reject(d)

RequestDies(d) == ~Asks(d, "closed") /\ Reject(d)

DoorStep(d) ==
  \/ requireOrganizationParam(d) \/ loadOrganizationPermissions(d) \/ requireProjectAccess(d)
  \/ requireFindingProjectAccess(d) \/ authorizeResourceProject(d) \/ requireOrgSecuritySetting(d)
  \/ inviteMember(d) \/ upsertMember(d) \/ updateMember(d) \/ removeMember(d)
  \/ countOwners(d) \/ assertNotLastOwner(d) \/ putMember(d) \/ takeOut(d)
  \/ addProjectMember(d) \/ upsertProjectMember(d) \/ updateProjectMember(d)
  \/ createKey(d) \/ insertKey(d) \/ revokeKey(d) \/ updateOrganization(d) \/ updateSettings(d)
  \/ fuzzFinding(d)
  \/ adminEvent(d) \/ RequestDies(d)

Statuses == {"", "INVITED", "ACTIVE", "SUSPENDED", "REMOVED"}
Wishes ==
       [op : {"invite"}, who : People, role : Roles]
  \cup [op : {"update"}, who : People, role : Roles \cup {""}, status : Statuses]
  \cup [op : {"remove", "add to project", "update on project", "remove from project"}, who : People]
  \cup [op : {"make key", "rename", "delete"}]
  \cup [op : {"settings"}, fuzzing : BOOLEAN]
  \cup [op : {"fuzz"}, finding : {"none", "on project", "loose"}]
  \cup [op : {"revoke key"}, who : Keys]

MembershipNext ==
  \E d \in Doors :
    \/ \E by \in People \cup Keys, what \in Wishes : Asking(d, by, what)
    \/ DoorStep(d)

MembershipSpec == MembershipInit /\ [][MembershipNext]_memberVars

-----------------------------------------------------------------------------
(* Properties.                                                               *)

(* An organization that has an owner only loses its last one by a request    *)
(* that another one's change overtook after the owners were counted, by one  *)
(* that gives an owner another status, or by one that invites him again:     *)
(* demoting and removing, one at a time, never leave it without.             *)
Excused(d) ==
  \/ door[d].overtaken
  \/ door[d].what.op = "update" /\ door[d].what.status \notin {"", "ACTIVE"}
  \/ door[d].what.op = "invite"
OwnerStays ==
  [][Owners # {} /\ Owners' = {} => \E d \in Doors : Asks(d, "write") /\ door'[d] # door[d] /\ Excused(d)]_memberVars

=============================================================================
