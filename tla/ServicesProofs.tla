---------------------------- MODULE ServicesProofs ----------------------------
(* What TLAPS proves of the members of an organization, of the monitor and of *)
(* the knowledge of threats, for any number of people, requests, targets,     *)
(* runs, blocks, signatures, findings and rows.                               *)
EXTENDS MonitorRuns, ThreatKnowledge, Membership, FiniteSetTheorems, SequenceTheorems,
        WellFoundedInduction, TLAPS

-----------------------------------------------------------------------------
(* Members. What a request found out about its member before it writes holds  *)
(* until somebody else's write, which marks the request as overtaken.         *)

Entrances == {"organization", "role", "permissions", "project", "finding", "resource", "setting", "admitted"}
Arrivals == [at : Entrances, by : People \cup Keys, what : Wishes, everywhere : BOOLEAN]
Writers == [at : {"owners", "recheck", "write"}, what : Wishes, overtaken : BOOLEAN]
DoorStates == [at : {"closed", "event"}] \cup Arrivals \cup Writers

MemberTypes ==
  /\ door \in [Doors -> DoorStates]
  /\ members = [u \in People |-> members[u]]

TakesOwner(what) == what.op = "remove" \/ (what.op = "update" /\ Demotes(what))

(* A request about to take an owner away, and not overtaken, has counted      *)
(* another one.                                                               *)
Sound(state) ==
  state.at = "write" /\ ~state.overtaken /\ TakesOwner(state.what) =>
    ~IsOwner(members[state.what.who]) \/ ~(Cardinality(Owners) <= 1)

MemberInv == MemberTypes /\ \A d \in Doors : Sound(door[d])

LEMMA MemberInitInv == MembershipInit => MemberInv
<1> SUFFICES ASSUME MembershipInit PROVE MemberInv
  OBVIOUS
<1>1. MemberTypes
  BY DEF MembershipInit, MemberTypes, DoorStates, Closed
<1>2. \A d \in Doors : door[d].at # "write"
  BY DEF MembershipInit, Closed
<1> QED BY <1>1, <1>2 DEF MemberInv, Sound

(* A request that moves on without a write to the members.                    *)
LEMMA Enters ==
  ASSUME MemberInv, members' = members, NEW d \in Doors, NEW x \in DoorStates, Enter(d, x), Sound(x)
  PROVE  MemberInv'
<1>1. /\ door' \in [Doors -> DoorStates] /\ door'[d] = x
      /\ \A e \in Doors \ {d} : door'[e] = door[e]
  BY DEF MemberInv, MemberTypes, Enter
<1>2. MemberTypes'
  BY <1>1 DEF MemberInv, MemberTypes
<1>3. Owners' = Owners
  BY DEF Owners
<1>4. ASSUME NEW e \in Doors PROVE Sound(door[e])'
  <2>1. Sound(door'[e])
    BY <1>1 DEF MemberInv
  <2> QED BY <1>3, <2>1 DEF Sound
<1> QED BY <1>2, <1>4 DEF MemberInv

LEMMA Refused ==
  ASSUME MemberInv, members' = members, NEW d \in Doors, Refuse(d) \/ Enter(d, [at |-> "event"])
  PROVE  MemberInv'
<1>1. Closed \in DoorStates /\ [at |-> "event"] \in DoorStates
  BY DEF DoorStates, Closed
<1>2. Sound(Closed) /\ Sound([at |-> "event"])
  BY DEF Sound, Closed
<1> QED BY <1>1, <1>2, Enters DEF Refuse

(* A request that is let in further, or is seen to be in order.               *)
LEMMA Proceeds ==
  ASSUME MemberInv, members' = members, NEW d \in Doors, door[d] \in Arrivals,
         NEW to \in Entrances, NEW every \in BOOLEAN,
         Enter(d, [door[d] EXCEPT !.at = to, !.everywhere = every]) \/ Move(d, to)
  PROVE  MemberInv'
<1>1. PICK x : x = [door[d] EXCEPT !.at = to, !.everywhere = every]
  OBVIOUS
<1>2. PICK y : y = [door[d] EXCEPT !.at = to]
  OBVIOUS
<1>3. x \in DoorStates /\ x.at # "write" /\ y \in DoorStates /\ y.at # "write"
  BY <1>1, <1>2 DEF DoorStates, Arrivals, Entrances
<1>4. Sound(x) /\ Sound(y)
  BY <1>3 DEF Sound
<1> QED BY <1>1, <1>2, <1>3, <1>4, Enters DEF Move

LEMMA Peeks ==
  ASSUME MemberInv, NEW d \in Doors, door[d].what \in Wishes, NEW to \in {"owners", "recheck", "write"},
         Peek(d, to),
         to = "write" /\ TakesOwner(door[d].what) =>
           ~IsOwner(members[door[d].what.who]) \/ ~(Cardinality(Owners) <= 1)
  PROVE  MemberInv'
<1>1. PICK x : x = [at |-> to, what |-> door[d].what, overtaken |-> FALSE]
  OBVIOUS
<1>2. x \in DoorStates
  BY <1>1 DEF DoorStates, Writers
<1>3. Sound(x)
  BY <1>1 DEF Sound
<1>4. Enter(d, x) /\ members' = members
  BY <1>1 DEF Peek, Go, orgRows
<1> QED BY <1>2, <1>3, <1>4, Enters

LEMMA Rejected == ASSUME MemberInv, NEW d \in Doors, Reject(d) PROVE MemberInv'
BY Refused DEF Reject, orgRows

(* Somebody writes a member: whoever has looked at members is overtaken.      *)
LEMMA Writes ==
  ASSUME MemberInv, NEW d \in Doors, ~MakesKey(d), NEW who, NEW row, Write(d, who, row)
  PROVE  MemberInv'
<1>0. door \in [Doors -> DoorStates]
  BY DEF MemberInv, MemberTypes
<1>1. \A e \in Doors : door'[e] = IF e = d THEN [at |-> "event"]
                                  ELSE IF e \in Counted(d) THEN [door[e] EXCEPT !.overtaken = TRUE] ELSE door[e]
  BY DEF Write, Overtake
<1>2. ASSUME NEW e \in Counted(d) \ {d}
      PROVE  door'[e] \in Writers /\ door'[e].overtaken
  <2>1. e \in Doors /\ door[e] \in Writers
    BY <1>0 DEF Counted, DoorStates, Arrivals, Entrances
  <2>2. PICK x : x = [door[e] EXCEPT !.overtaken = TRUE]
    OBVIOUS
  <2>3. x \in Writers /\ x.overtaken
    BY <2>1, <2>2 DEF Writers
  <2> QED BY <1>1, <2>1, <2>2, <2>3
<1>3. ASSUME NEW e \in Doors PROVE door'[e] \in DoorStates /\ Sound(door[e])'
  <2>1. CASE e = d
    <3>1. door'[e] = [at |-> "event"]
      BY <1>1, <2>1
    <3>2. [at |-> "event"] \in DoorStates
      BY DEF DoorStates
    <3>3. door'[e].at = "event"
      BY <3>1
    <3>4. Sound(door[e])'
      BY <3>3 DEF Sound
    <3> QED BY <3>1, <3>2, <3>4
  <2>2. CASE e \in Counted(d) \ {d}
    BY <1>2, <2>2 DEF DoorStates, Sound
  <2>3. CASE e # d /\ e \notin Counted(d)
    <3>1. door'[e] = door[e]
      BY <1>1, <2>3
    <3>2. CASE door[e].at = "write"
      <4>1. MakesKey(e)
        BY <2>3, <3>2 DEF Counted, MakesKey
      <4>2. ~TakesOwner(door[e].what)
        BY <4>1 DEF MakesKey, TakesOwner
      <4> QED BY <1>0, <3>1, <4>2 DEF Sound, TakesOwner, Demotes
    <3>3. CASE door[e].at # "write"
      BY <1>0, <3>1, <3>3 DEF Sound
    <3> QED BY <3>2, <3>3
  <2> QED BY <2>1, <2>2, <2>3
<1>4. MemberTypes'
  BY <1>3 DEF MemberInv, MemberTypes, Write, Overtake
<1> QED BY <1>3, <1>4 DEF MemberInv

(* The permissions and the access to the project. *)
LEMMA EntranceKeeps ==
  ASSUME MemberInv, NEW d \in Doors,
         \/ requireOrganizationParam(d) \/ loadOrganizationPermissions(d) \/ requireProjectAccess(d)
         \/ requireFindingProjectAccess(d) \/ authorizeResourceProject(d) \/ requireOrgSecuritySetting(d)
  PROVE  MemberInv'
<1>0. /\ door[d] \in Arrivals /\ door[d].everywhere \in BOOLEAN /\ members' = members
      /\ {"permissions", "role", "project", "finding", "admitted", "resource", "setting"} \subseteq Entrances
  <2>1. door[d] \in DoorStates /\ door[d].at \in Entrances
    BY DEF MemberInv, MemberTypes, requireOrganizationParam, loadOrganizationPermissions,
           requireProjectAccess, requireFindingProjectAccess, authorizeResourceProject,
           requireOrgSecuritySetting, Asks, Entrances
  <2>2. door[d] \in Arrivals
    BY <2>1 DEF DoorStates, Writers, Entrances
  <2>3. door[d].everywhere \in BOOLEAN
    BY <2>2 DEF Arrivals
  <2>4. members' = members
    BY DEF requireOrganizationParam, loadOrganizationPermissions, requireProjectAccess, Pass,
           requireFindingProjectAccess, authorizeResourceProject, requireOrgSecuritySetting, orgRows
  <2> QED BY <2>2, <2>3, <2>4 DEF Entrances
<1>1. CASE Refuse(d)
  BY <1>0, <1>1, Refused
<1>2. CASE \E to \in Entrances : Move(d, to)
  BY <1>0, <1>2, Proceeds
<1>3. CASE requireOrganizationParam(d) /\ door[d].by \in Keys
  <2>1. Enter(d, [door[d] EXCEPT !.at = "permissions"])
    BY <1>3 DEF requireOrganizationParam
  <2>2. Move(d, "permissions")
    BY <2>1 DEF Move
  <2> QED BY <1>0, <1>2, <2>2
<1>4. CASE requireOrganizationParam(d) /\ door[d].by \notin Keys
  BY <1>0, <1>1, <1>2, <1>4 DEF requireOrganizationParam
<1>5. CASE loadOrganizationPermissions(d) /\ ~Refuse(d)
  <2>1. PICK to \in Entrances, every \in BOOLEAN :
          Enter(d, [door[d] EXCEPT !.at = to, !.everywhere = every])
    BY <1>0, <1>5 DEF loadOrganizationPermissions
  <2> QED BY <1>0, <2>1, Proceeds
<1>6. CASE \/ requireProjectAccess(d) \/ requireFindingProjectAccess(d)
           \/ authorizeResourceProject(d) \/ requireOrgSecuritySetting(d)
  BY <1>0, <1>1, <1>2, <1>6 DEF requireProjectAccess, requireFindingProjectAccess, Pass,
     authorizeResourceProject, requireOrgSecuritySetting
<1> QED BY <1>1, <1>3, <1>4, <1>5, <1>6

(* Everything after the request was admitted. *)
LEMMA AdmittedKeeps ==
  ASSUME MemberInv, NEW d \in Doors,
         \/ inviteMember(d) \/ upsertMember(d) \/ updateMember(d) \/ removeMember(d)
         \/ countOwners(d) \/ assertNotLastOwner(d) \/ putMember(d) \/ takeOut(d)
  PROVE  MemberInv'
<1>0. /\ door[d] \in Arrivals \cup Writers /\ door[d].what \in Wishes
      /\ door[d].at \in {"owners", "recheck", "write"} => door[d] \in Writers
  <2>1. door[d] \in DoorStates /\ door[d].at \in {"admitted", "owners", "recheck", "write"}
    BY DEF MemberInv, MemberTypes, inviteMember, upsertMember, updateMember, removeMember,
           countOwners, assertNotLastOwner, putMember, takeOut, Admitted, Ready, Asks
  <2>2. door[d] \in Arrivals \cup Writers
    BY <2>1 DEF DoorStates
  <2> QED BY <2>1, <2>2 DEF Arrivals, Writers, Entrances
<1>1. CASE Reject(d)
  BY <1>1, Rejected
<1>2. CASE inviteMember(d) /\ ~Reject(d)
  <2>1. Peek(d, "write") /\ ~TakesOwner(door[d].what)
    BY <1>2 DEF inviteMember, Admitted, TakesOwner
  <2> QED BY <1>0, <2>1, Peeks
<1>3. CASE updateMember(d) /\ ~Reject(d)
  <2> DEFINE row == members[door[d].what.who]
  <2>1. CASE IsOwner(row) /\ Demotes(door[d].what)
    <3>1. Peek(d, "owners")
      BY <1>3, <2>1 DEF updateMember
    <3> QED BY <1>0, <3>1, Peeks
  <2>2. CASE ~(IsOwner(row) /\ Demotes(door[d].what))
    <3>1. Peek(d, "write")
      BY <1>3, <2>2 DEF updateMember
    <3>2. TakesOwner(door[d].what) => ~IsOwner(row)
      BY <1>3, <2>2 DEF updateMember, Admitted, TakesOwner
    <3> QED BY <1>0, <3>1, <3>2, Peeks
  <2> QED BY <2>1, <2>2
<1>4. CASE removeMember(d) /\ ~Reject(d)
  <2> DEFINE row == members[door[d].what.who]
  <2>1. CASE IsOwner(row)
    <3>1. Peek(d, "owners")
      BY <1>4, <2>1 DEF removeMember
    <3> QED BY <1>0, <3>1, Peeks
  <2>2. CASE ~IsOwner(row)
    <3>1. Peek(d, "write")
      BY <1>4, <2>2 DEF removeMember
    <3> QED BY <1>0, <2>2, <3>1, Peeks
  <2> QED BY <2>1, <2>2
<1>5. CASE countOwners(d)
  <2>1. CASE Cardinality(Owners) <= 1
    <3>1. Peek(d, "recheck")
      BY <1>5, <2>1 DEF countOwners
    <3> QED BY <1>0, <3>1, Peeks
  <2>2. CASE ~(Cardinality(Owners) <= 1)
    <3>1. Peek(d, "write")
      BY <1>5, <2>2 DEF countOwners
    <3> QED BY <1>0, <2>2, <3>1, Peeks
  <2> QED BY <2>1, <2>2
<1>6. CASE assertNotLastOwner(d) /\ ~Reject(d)
  <2>1. /\ Move(d, "write") /\ ~IsOwner(members[door[d].what.who]) /\ members' = members
        /\ door[d] \in Writers
    BY <1>0, <1>6 DEF assertNotLastOwner, orgRows, Asks
  <2>2. PICK x : x = [door[d] EXCEPT !.at = "write"]
    OBVIOUS
  <2>3. x \in DoorStates /\ x.what = door[d].what
    BY <2>1, <2>2 DEF DoorStates, Writers
  <2>4. Sound(x)
    BY <2>1, <2>3 DEF Sound
  <2> QED BY <2>1, <2>2, <2>3, <2>4, Enters DEF Move
<1>7. CASE upsertMember(d) \/ putMember(d) \/ takeOut(d)
  <2>1. PICK who, row : Write(d, who, row)
    BY <1>7 DEF upsertMember, putMember, takeOut
  <2>2. ~MakesKey(d)
    BY <1>7 DEF upsertMember, putMember, takeOut, Ready, MakesKey
  <2> QED BY <2>1, <2>2, Writes
<1> QED BY <1>1, <1>2, <1>3, <1>4, <1>5, <1>6, <1>7

(* The other requests: projects, keys, the organization, the end.             *)
LEMMA OtherKeeps ==
  ASSUME MemberInv, NEW d \in Doors,
         \/ addProjectMember(d) \/ upsertProjectMember(d) \/ updateProjectMember(d) \/ createKey(d)
         \/ revokeKey(d) \/ updateOrganization(d) \/ updateSettings(d) \/ fuzzFinding(d)
         \/ adminEvent(d) \/ RequestDies(d)
  PROVE  MemberInv'
<1>1. CASE Reject(d)
  BY <1>1, Rejected
<1>2. CASE members' = members /\ (Refuse(d) \/ Enter(d, [at |-> "event"]))
  BY <1>2, Refused
<1>3. CASE (addProjectMember(d) \/ createKey(d)) /\ ~Reject(d)
  <2>1. Peek(d, "write") /\ ~TakesOwner(door[d].what) /\ door[d].at = "admitted"
    BY <1>3 DEF addProjectMember, createKey, Admitted, Asks, TakesOwner
  <2>2. door[d].what \in Wishes
    BY <2>1 DEF MemberInv, MemberTypes, DoorStates, Arrivals, Writers
  <2> QED BY <2>1, <2>2, Peeks
<1> QED BY <1>1, <1>2, <1>3 DEF addProjectMember, upsertProjectMember, updateProjectMember, createKey,
        WriteOnProject, revokeKey, updateOrganization, updateSettings, fuzzFinding, adminEvent, RequestDies

(* A new key overtakes those who make keys, and no one who looks at members.  *)
LEMMA InsertKeyKeeps ==
  ASSUME MemberInv, NEW d \in Doors, insertKey(d)
  PROVE  MemberInv'
<1>0. door \in [Doors -> DoorStates] /\ members' = members
  BY DEF MemberInv, MemberTypes, insertKey
<1>1. door' = [e \in Doors |-> IF e = d THEN Closed
                ELSE IF e \in Counted(d) THEN [door[e] EXCEPT !.overtaken = TRUE] ELSE door[e]]
  BY DEF insertKey, Overtake, Closed
<1>2. Owners' = Owners
  BY <1>0 DEF Owners
<1>3. ASSUME NEW e \in Doors PROVE door'[e] \in DoorStates /\ Sound(door[e])'
  <2>1. CASE e = d
    <3>1. door'[e] = Closed /\ Closed \in DoorStates /\ Closed.at = "closed"
      BY <1>1, <2>1 DEF DoorStates, Closed
    <3>2. Sound(door[e])'
      BY <3>1 DEF Sound
    <3> QED BY <3>1, <3>2
  <2>2. CASE e # d /\ e \in Counted(d)
    <3>1. door[e] \in Writers
      BY <1>0, <2>2 DEF Counted, DoorStates, Arrivals, Entrances
    <3>2. PICK x : x = [door[e] EXCEPT !.overtaken = TRUE]
      OBVIOUS
    <3>3. x \in Writers /\ x.overtaken /\ door'[e] = x
      BY <1>1, <2>2, <3>1, <3>2 DEF Writers
    <3>4. door'[e] \in Writers /\ door'[e].overtaken
      BY <3>3
    <3> QED BY <3>4 DEF DoorStates, Sound
  <2>3. CASE e # d /\ e \notin Counted(d)
    <3>1. door'[e] = door[e]
      BY <1>1, <2>3
    <3>2. Sound(door[e])
      BY DEF MemberInv
    <3> QED BY <1>0, <1>2, <3>1, <3>2 DEF Sound
  <2> QED BY <2>1, <2>2, <2>3
<1>4. MemberTypes'
  BY <1>0, <1>1, <1>3 DEF MemberInv, MemberTypes
<1> QED BY <1>3, <1>4 DEF MemberInv

LEMMA MemberStepInv ==
  ASSUME MemberInv, [MembershipNext]_memberVars
  PROVE  MemberInv'
<1>1. CASE UNCHANGED memberVars
  <2>1. door' = door /\ members' = members /\ Owners' = Owners
    BY <1>1 DEF memberVars, orgRows, Owners
  <2>2. MemberTypes'
    BY <2>1 DEF MemberInv, MemberTypes
  <2>3. ASSUME NEW d \in Doors PROVE Sound(door[d])'
    BY <2>1 DEF MemberInv, Sound
  <2> QED BY <2>2, <2>3 DEF MemberInv
<1>2. ASSUME NEW d \in Doors, NEW by \in People \cup Keys, NEW what \in Wishes, Asking(d, by, what)
      PROVE  MemberInv'
  <2>1. PICK x : x = [at |-> "organization", by |-> by, what |-> what, everywhere |-> FALSE]
    OBVIOUS
  <2>2. x \in DoorStates /\ x.at = "organization"
    BY <2>1 DEF DoorStates, Arrivals, Entrances
  <2>3. Enter(d, x) /\ members' = members
    BY <1>2, <2>1 DEF Asking, orgRows
  <2> QED BY <2>2, <2>3, Enters DEF Sound
<1>3. ASSUME NEW d \in Doors, DoorStep(d) PROVE MemberInv'
  BY <1>3, EntranceKeeps, AdmittedKeeps, OtherKeeps, InsertKeyKeeps DEF DoorStep
<1> QED BY <1>1, <1>2, <1>3 DEF MembershipNext

(* A member written over leaves the organization an owner: another one, or     *)
(* the member himself.                                                        *)
LEMMA OwnerRemains ==
  ASSUME MemberTypes, NEW who, NEW row, members' = [members EXCEPT ![who] = row], Owners # {},
         \/ who \notin Owners
         \/ ~(Cardinality(Owners) <= 1)
         \/ IsOwner(row) /\ Active(row)
  PROVE  Owners' # {}
<1>1. \A u \in People \ {who} : u \in Owners => u \in Owners'
  BY DEF MemberTypes, Owners
<1>2. CASE \E u \in Owners : u # who
  BY <1>1, <1>2 DEF Owners
<1>3. CASE Owners = {who}
  <2>1. Cardinality(Owners) = 1
    BY <1>3, FS_Singleton
  <2>2. IsOwner(row) /\ Active(row) /\ who \in People
    BY <1>3, <2>1 DEF Owners
  <2>3. members'[who] = row
    BY <2>2 DEF MemberTypes
  <2> QED BY <2>2, <2>3 DEF Owners
<1> QED BY <1>2, <1>3

(* An organization loses its last owner only by a request that another write  *)
(* overtook, that sets a status, or that invites the owner again.             *)
THEOREM LastOwnerStays == MembershipSpec => OwnerStays
<1> DEFINE Excuse == \E d \in Doors : Asks(d, "write") /\ door'[d] # door[d] /\ Excused(d)
<1>1. ASSUME MemberInv, [MembershipNext]_memberVars, Owners # {}, Owners' = {}
      PROVE  Excuse
  <2>0. MemberTypes /\ door \in [Doors -> DoorStates] /\ \A d \in Doors : Sound(door[d])
    BY <1>1 DEF MemberInv, MemberTypes
  <2>1. members' # members
    BY <1>1 DEF Owners
  <2>2. PICK d \in Doors : upsertMember(d) \/ putMember(d) \/ takeOut(d)
    BY <1>1, <2>1 DEF MembershipNext, DoorStep, memberVars, orgRows, Asking, requireOrganizationParam,
       loadOrganizationPermissions, requireProjectAccess, requireFindingProjectAccess, Pass,
       authorizeResourceProject, requireOrgSecuritySetting, inviteMember, updateMember, removeMember,
       countOwners, assertNotLastOwner, addProjectMember, upsertProjectMember, updateProjectMember,
       createKey, insertKey, revokeKey, updateOrganization, updateSettings, fuzzFinding, adminEvent,
       RequestDies, Peek, Reject, WriteOnProject
  <2>3. Asks(d, "write") /\ door'[d].at = "event" /\ door'[d] # door[d]
    <3>1. Asks(d, "write") /\ Overtake(d, "event")
      BY <2>2 DEF upsertMember, putMember, takeOut, Ready, Write
    <3>2. door'[d] = [at |-> "event"]
      BY <3>1 DEF Overtake
    <3>3. door'[d].at = "event"
      BY <3>2
    <3> QED BY <3>1, <3>3 DEF Asks
  <2>4. Excused(d)
    <3> DEFINE what == door[d].what  row == members[what.who]
    <3> SUFFICES ASSUME ~Excused(d) PROVE FALSE
      OBVIOUS
    <3>1. ~door[d].overtaken /\ what.op # "invite" /\ (what.op = "update" => what.status \in {"", "ACTIVE"})
      BY DEF Excused
    <3>2. TakesOwner(what) => ~IsOwner(row) \/ ~(Cardinality(Owners) <= 1)
      BY <2>0, <2>3, <3>1 DEF Sound, Asks
    <3>3. ~IsOwner(row) => what.who \notin Owners
      BY DEF Owners
    <3>4. CASE takeOut(d)
      <4>1. TakesOwner(what)
        BY <3>4 DEF takeOut, Ready, TakesOwner
      <4>2. PICK next : members' = [members EXCEPT ![what.who] = next]
        BY <3>4 DEF takeOut, Write
      <4> QED BY <1>1, <2>0, <3>2, <3>3, <4>1, <4>2, OwnerRemains
    <3>5. CASE putMember(d)
      <4>1. PICK next : next = [status |-> IF what.status = "" THEN row.status ELSE what.status,
                                role |-> IF what.role = "" THEN row.role ELSE what.role]
        OBVIOUS
      <4>2. members' = [members EXCEPT ![what.who] = next] /\ what.op = "update"
        BY <3>5, <4>1 DEF putMember, Write, Ready
      <4>3. CASE Demotes(what)
        BY <1>1, <2>0, <3>2, <3>3, <4>2, <4>3, OwnerRemains DEF TakesOwner
      <4>4. CASE ~Demotes(what) /\ what.who \in Owners
        <5>1. row.role = "OWNER" /\ row.status = "ACTIVE"
          BY <4>4 DEF Owners, IsOwner, Active
        <5>2. next.role = "OWNER" /\ next.status = "ACTIVE"
          BY <3>1, <4>1, <4>2, <4>4, <5>1 DEF Demotes
        <5>3. IsOwner(next) /\ Active(next)
          BY <5>2 DEF IsOwner, Active
        <5> QED BY <1>1, <2>0, <4>2, <5>3, OwnerRemains
      <4>5. CASE what.who \notin Owners
        BY <1>1, <2>0, <4>2, <4>5, OwnerRemains
      <4> QED BY <4>3, <4>4, <4>5
    <3>6. CASE upsertMember(d)
      BY <3>1, <3>6 DEF upsertMember, Ready
    <3> QED BY <2>2, <3>4, <3>5, <3>6
  <2> QED BY <2>3, <2>4
<1>2. MemberInv /\ [MembershipNext]_memberVars => [Owners # {} /\ Owners' = {} => Excuse]_memberVars
  BY <1>1
<1>3. MemberInv /\ [MembershipNext]_memberVars => MemberInv'
  BY MemberStepInv
<1> QED BY <1>2, <1>3, MemberInitInv, PTL DEF MembershipSpec, OwnerStays

-----------------------------------------------------------------------------
(* The monitor. A block a run may read is too deep to be replaced, and what   *)
(* is in it stays: for a run under way, the alerts of the items in its range  *)
(* are in its hand or its queue; what it read of the cursor was covered.      *)

Deep(b) == b = 0 \/ b + ReorgDepth <= head
DeepItem(i) == blockOf[i] > 0 /\ Deep(blockOf[i])

KeyOK(k) ==
  k[1] = "drift" \/ (k = <<k[1], k[2]>> /\ k[2] \in Items /\ k[1] \in RulesOf[k[2]] /\ DeepItem(k[2]))

Covered(t, first, last) ==
  \A i \in Items \ cut : TargetOf[i] = t /\ blockOf[i] > 0 /\ blockOf[i] \in first .. last =>
    \A k \in RulesOf[i] : <<k, i>> \in alerts

CursorShape(c) == c \in [block : Nat, since : Nat, baseline : {c.baseline}, row : BOOLEAN]
CursorFits(t, c) ==
  CursorShape(c) /\ (c.row => Deep(c.block) /\ Covered(t, c.since, c.block))

Busy == {"logs", "events", "calls", "advance"}
Hand(q) == q.found \cup q.cands \cup q.missing

RunShape(q) ==
  q \in [at : {"idle", "next", "deliver"} \cup Busy, todo : SUBSET Targets, final : Nat,
         target : Targets \cup {0}, read : {q.read}, queue : SUBSET Items, cands : {q.cands},
         missing : {q.missing}, found : {q.found}, events : {q.events}, here : {q.here}]

(* The alerts of what is in the range, as far as the run is.                  *)
InHand(q) ==
  \A i \in InRange(q) \ cut : \A k \in RulesOf[i] :
    \/ <<k, i>> \in Hand(q) \/ i \in q.queue \/ q.at = "logs"
    \/ i \in Calls /\ q.at = "events"

RunFits(q) ==
  /\ RunShape(q) /\ Deep(q.final) /\ CursorShape(q.read)
  /\ q.at \in Busy <=> q.target # 0
  /\ q.at \in Busy => CursorFits(q.target, q.read) /\ InHand(q)
  /\ q.at \in {"calls", "advance"} => q.queue = {}
  /\ \A i \in q.queue : DeepItem(i)
  /\ \A k \in Hand(q) : KeyOK(k)
  /\ q.found \subseteq alerts /\ (q.at = "idle" => Hand(q) = {})
  /\ \A k, l \in q.missing : k = l

MonitorTypes ==
  /\ head \in Nat /\ blockOf \in [Items -> Nat] /\ active \subseteq Targets
  /\ cursor = [t \in Targets |-> cursor[t]] /\ run = [r \in Runs |-> run[r]]

MonitorInv ==
  /\ MonitorTypes
  /\ \A t \in Targets : CursorFits(t, cursor[t])
  /\ \A r \in Runs : RunFits(run[r])
  /\ \A k \in alerts : KeyOK(k)
  /\ NothingForgotten

LEMMA MinOfIs ==
  ASSUME NEW S \in SUBSET Nat, S # {}
  PROVE  MinOf(S) \in S /\ \A y \in S : MinOf(S) <= y
<1>1. PICK R : R = OpToRel(<, Nat)
  OBVIOUS
<1>2. R = {p \in Nat \X Nat : p[1] < p[2]}
  BY <1>1, Zenon DEF OpToRel
<1>3. IsWellFoundedOn(R, Nat)
  BY <1>1, NatLessThanWellFounded
<1>4. PICK x \in S : \A y \in S : ~(<<y, x>> \in R)
  BY <1>3, WFMin
<1>5. \A y \in S : x <= y
  <2> TAKE y \in S
  <2>1. x \in Nat /\ y \in Nat /\ <<y, x>> \notin R
    BY <1>4
  <2>2. ~(y < x)
    BY <1>2, <2>1
  <2> QED BY <2>1, <2>2
<1> QED BY <1>5 DEF MinOf

(* The range of a run ends no later than the last block it may read.          *)
LEMMA RangeEnds ==
  ASSUME NEW q, RunShape(q), CursorShape(q.read)
  PROVE  FromBlock(q) \in Nat /\ ToBlock(q) \in Nat /\ ToBlock(q) <= q.final
<1>1. q.final \in Nat /\ q.read.block \in Nat /\ q.read.row \in BOOLEAN
  BY DEF RunShape, CursorShape
<1>2. FromBlock(q) \in Nat
  BY <1>1, MonitorAssumption DEF FromBlock, computeFromBlock
<1>3. FromBlock(q) + MaxRange - 1 \in Nat
  BY <1>2, MonitorAssumption
<1>4. PICK b : b = FromBlock(q) + MaxRange - 1
  OBVIOUS
<1>5. {q.final, b} \in SUBSET Nat /\ {q.final, b} # {}
  BY <1>1, <1>3, <1>4
<1>6. MinOf({q.final, b}) \in {q.final, b} /\ MinOf({q.final, b}) <= q.final
  BY <1>5, MinOfIs
<1> QED BY <1>1, <1>2, <1>3, <1>4, <1>6 DEF ToBlock

(* What no step does: take an alert back, replace a block too deep for it, or *)
(* put an item into one that is there.                                        *)
Steady ==
  /\ alerts \subseteq alerts' /\ cut \subseteq cut'
  /\ head' \in Nat /\ head <= head' /\ blockOf' \in [Items -> Nat]
  /\ \A i \in Items : \/ blockOf'[i] = blockOf[i]
                      \/ blockOf[i] = 0 /\ blockOf'[i] > head
                      \/ blockOf'[i] = 0 /\ ~Deep(blockOf[i])

LEMMA DeepStays ==
  ASSUME MonitorTypes, Steady, NEW b \in Nat, Deep(b)
  PROVE  /\ Deep(b)'
         /\ \A c \in Nat : c <= b => Deep(c)
         /\ \A i \in Items : 0 < blockOf[i] /\ blockOf[i] <= b => blockOf'[i] = blockOf[i]
         /\ \A i \in Items : 0 < blockOf'[i] /\ blockOf'[i] <= b => blockOf'[i] = blockOf[i]
<1>1. head \in Nat /\ head' \in Nat /\ head <= head' /\ ReorgDepth \in Nat
  BY MonitorAssumption DEF MonitorTypes, Steady
<1>2. Deep(b)' /\ \A c \in Nat : c <= b => Deep(c)
  BY <1>1 DEF Deep
<1>3. ASSUME NEW i \in Items PROVE blockOf[i] \in Nat /\ blockOf'[i] \in Nat
  BY DEF MonitorTypes, Steady
<1>4. ASSUME NEW i \in Items, 0 < blockOf[i], blockOf[i] <= b PROVE blockOf'[i] = blockOf[i]
  BY <1>2, <1>3, <1>4 DEF Steady
<1>5. ASSUME NEW i \in Items, 0 < blockOf'[i], blockOf'[i] <= b PROVE blockOf'[i] = blockOf[i]
  BY <1>1, <1>3, <1>5 DEF Steady, Deep
<1> QED BY <1>2, <1>4, <1>5

LEMMA KeyStays ==
  ASSUME MonitorTypes, Steady
  PROVE  /\ \A i \in Items : DeepItem(i) => DeepItem(i)' /\ blockOf'[i] = blockOf[i]
         /\ \A k : KeyOK(k) => KeyOK(k)'
<1>1. ASSUME NEW i \in Items, DeepItem(i) PROVE DeepItem(i)' /\ blockOf'[i] = blockOf[i]
  <2>1. blockOf[i] \in Nat /\ Deep(blockOf[i]) /\ blockOf[i] > 0
    BY <1>1 DEF MonitorTypes, DeepItem
  <2>2. PICK b \in Nat : b = blockOf[i]
    BY <2>1
  <2>3. blockOf'[i] = b /\ Deep(b)'
    BY <2>1, <2>2, DeepStays
  <2> QED BY <2>1, <2>2, <2>3 DEF DeepItem
<1>2. ASSUME NEW k, KeyOK(k) PROVE KeyOK(k)'
  BY <1>1, <1>2 DEF KeyOK
<1> QED BY <1>1, <1>2

LEMMA CursorStays ==
  ASSUME MonitorTypes, Steady, NEW t, NEW c, CursorFits(t, c)
  PROVE  CursorFits(t, c)'
<1>1. CASE c.row
  <2>1. c.block \in Nat /\ c.since \in Nat /\ Deep(c.block) /\ Covered(t, c.since, c.block)
    BY <1>1 DEF CursorFits, CursorShape
  <2>2. Deep(c.block)' /\ \A i \in Items : 0 < blockOf'[i] /\ blockOf'[i] <= c.block => blockOf'[i] = blockOf[i]
    BY <2>1, DeepStays
  <2>3. Covered(t, c.since, c.block)'
    BY <2>1, <2>2 DEF Covered, Steady
  <2> QED BY <2>2, <2>3 DEF CursorFits, CursorShape
<1>2. CASE ~c.row
  BY <1>2 DEF CursorFits, CursorShape
<1> QED BY <1>1, <1>2

LEMMA RangeStays ==
  ASSUME MonitorTypes, Steady, NEW q, RunShape(q), CursorShape(q.read), Deep(q.final)
  PROVE  InRange(q)' = InRange(q) /\ Deep(q.final)' /\ \A i \in InRange(q) : DeepItem(i)
<1>1. PICK from, to : from = FromBlock(q) /\ to = ToBlock(q)
  OBVIOUS
<1>2. from \in Nat /\ to \in Nat /\ to <= q.final /\ q.final \in Nat
  BY <1>1, RangeEnds DEF RunShape
<1>3. /\ Deep(q.final)' /\ \A c \in Nat : c <= q.final => Deep(c)
      /\ \A i \in Items : 0 < blockOf[i] /\ blockOf[i] <= q.final => blockOf'[i] = blockOf[i]
      /\ \A i \in Items : 0 < blockOf'[i] /\ blockOf'[i] <= q.final => blockOf'[i] = blockOf[i]
  BY <1>2, DeepStays
<1>4. blockOf \in [Items -> Nat] /\ blockOf' \in [Items -> Nat]
  BY DEF MonitorTypes, Steady
<1>5. InRange(q) = {i \in Items : TargetOf[i] = q.target /\ blockOf[i] > 0 /\ blockOf[i] \in from .. to}
  BY <1>1 DEF InRange
<1>6. InRange(q)' = {i \in Items : TargetOf[i] = q.target /\ blockOf'[i] > 0 /\ blockOf'[i] \in from .. to}
  BY <1>1 DEF InRange
<1>7. InRange(q)' = InRange(q)
  BY <1>2, <1>3, <1>4, <1>5, <1>6
<1>8. \A i \in InRange(q) : DeepItem(i)
  BY <1>2, <1>3, <1>4, <1>5 DEF DeepItem
<1> QED BY <1>3, <1>7, <1>8

LEMMA RunStays ==
  ASSUME MonitorTypes, Steady, NEW q, RunFits(q)
  PROVE  RunFits(q)'
<1>1. RunShape(q) /\ Deep(q.final) /\ CursorShape(q.read)
  BY DEF RunFits
<1>2. InRange(q)' = InRange(q) /\ Deep(q.final)'
  BY <1>1, RangeStays
<1>3. CursorFits(q.target, q.read) => CursorFits(q.target, q.read)'
  BY CursorStays
<1>4. (\A i \in q.queue : DeepItem(i)') /\ \A k \in Hand(q) : KeyOK(k)'
  BY <1>1, KeyStays DEF RunFits, RunShape
<1>5. InHand(q) => InHand(q)'
  BY <1>2 DEF InHand, Hand, Steady
<1>6. q.found \subseteq alerts'
  BY DEF RunFits, Steady
<1>7. (RunShape(q) /\ CursorShape(q.read))'
  BY <1>1 DEF RunShape, CursorShape
<1> QED BY <1>2, <1>3, <1>4, <1>5, <1>6, <1>7 DEF RunFits, Hand

(* How a run goes on without moving a cursor: it gives its target up, keeps   *)
(* it, or takes one with its cursor, and lets no alert go untold that is not  *)
(* lost or ahead.                                                             *)
Goes(p, q) ==
  /\ \/ q.target = 0
     \/ q.target = p.target /\ q.read = p.read /\ q.final = p.final
     \/ q.read = cursor[q.target]
  /\ \A k \in p.found : k \in told' \cup lost' \cup q.found \/ Ahead(k)

LEMMA AheadStays ==
  ASSUME MonitorInv, Steady, cursor' = cursor, \A s \in Runs : Goes(run[s], run'[s]),
         NEW k \in alerts, k[1] # "drift", Ahead(k)
  PROVE  Ahead(k)'
<1>1. k[2] \in Items /\ DeepItem(k[2]) /\ MonitorTypes
  BY DEF MonitorInv, KeyOK
<1>2. blockOf'[k[2]] = blockOf[k[2]] /\ blockOf[k[2]] \in Nat /\ TargetOf[k[2]] \in Targets
  BY <1>1, KeyStays, MonitorAssumption DEF MonitorTypes
<1>3. PICK t, b : t = TargetOf[k[2]] /\ b = blockOf[k[2]]
  OBVIOUS
<1>4. /\ t \in Targets /\ cursor[t].row /\ cursor[t].block < b /\ b \in Nat
      /\ \A s \in Runs : run[s].target = t => FromBlock(run[s]) <= b
  BY <1>2, <1>3 DEF Ahead
<1>5. cursor[t].block \in Nat /\ t # 0
  BY <1>4, MonitorAssumption DEF MonitorInv, CursorFits, CursorShape
<1>6. ASSUME NEW s \in Runs, run'[s].target = t PROVE FromBlock(run'[s]) <= b
  <2>1. CASE run'[s].target = run[s].target /\ run'[s].read = run[s].read /\ run'[s].final = run[s].final
    BY <1>4, <1>6, <2>1 DEF FromBlock
  <2>2. CASE run'[s].read = cursor[t]
    BY <1>4, <1>5, <2>2 DEF FromBlock, computeFromBlock
  <2> QED BY <1>5, <1>6, <2>1, <2>2 DEF Goes
<1> QED BY <1>2, <1>3, <1>4, <1>6 DEF Ahead, FromBlock

LEMMA KeptStays ==
  ASSUME MonitorInv, Steady, cursor' = cursor, told \subseteq told', lost \subseteq lost',
         \A s \in Runs : Goes(run[s], run'[s]),
         \A k \in alerts' \ alerts : \E s \in Runs : k \in run'[s].found
  PROVE  NothingForgotten'
<1> SUFFICES ASSUME NEW k \in alerts' \ (told' \cup lost'), k[1] # "drift", k[2] \notin cut',
                    \A s \in Runs : k \notin run'[s].found
             PROVE  Ahead(k)'
  BY DEF NothingForgotten
<1>1. k \in alerts /\ k \notin told \cup lost /\ k[2] \notin cut
  BY DEF Steady
<1>2. Ahead(k)
  <2>1. CASE \E s \in Runs : k \in run[s].found
    BY <2>1 DEF Goes
  <2>2. CASE \A s \in Runs : k \notin run[s].found
    BY <1>1, <2>2 DEF MonitorInv, NothingForgotten
  <2> QED BY <2>1, <2>2
<1> QED BY <1>1, <1>2, AheadStays

(* What is left to show of a step that moves the run r on, to q.              *)
LEMMA RunMoves ==
  ASSUME MonitorInv, UNCHANGED <<head, blockOf, active, cursor>>,
         alerts \subseteq alerts', cut \subseteq cut', told \subseteq told', lost \subseteq lost',
         NEW r \in Runs, NEW q, run' = [run EXCEPT ![r] = q], RunFits(q)', Goes(run[r], q),
         \A k \in alerts' \ alerts : k \in q.found /\ KeyOK(k)
  PROVE  MonitorInv'
<1>1. /\ MonitorTypes /\ Steady /\ MonitorTypes'
      /\ run'[r] = q /\ \A s \in Runs \ {r} : run'[s] = run[s]
  BY DEF MonitorInv, MonitorTypes, Steady
<1>2. ASSUME NEW t \in Targets PROVE CursorFits(t, cursor[t])'
  <2>1. PICK c : c = cursor[t]
    OBVIOUS
  <2>2. CursorFits(t, c)'
    BY <1>1, <2>1, CursorStays DEF MonitorInv
  <2> QED BY <2>1, <2>2 DEF CursorFits, CursorShape
<1>3. ASSUME NEW s \in Runs PROVE RunFits(run[s])'
  <2>1. PICK p : p = run'[s]
    OBVIOUS
  <2>2. RunFits(p)'
    BY <1>1, <2>1, RunStays DEF MonitorInv
  <2> QED BY <2>1, <2>2
<1>4. \A k \in alerts' : KeyOK(k)'
  BY <1>1, KeyStays DEF MonitorInv
<1>5. \A s \in Runs : Goes(run[s], run'[s])
  BY <1>1 DEF Goes
<1>6. NothingForgotten'
  BY <1>1, <1>5, KeptStays
<1> QED BY <1>1, <1>2, <1>3, <1>4, <1>6 DEF MonitorInv

(* A step that changes nothing but the run r, which goes on as q.             *)
LEMMA OnlyMoves ==
  ASSUME MonitorInv, UNCHANGED <<head, blockOf, active, cursor, alerts, cut, told, lost>>,
         NEW r \in Runs, NEW q, run' = [run EXCEPT ![r] = q], RunFits(q), Goes(run[r], q)
  PROVE  MonitorInv'
<1>1. MonitorTypes /\ Steady
  BY DEF MonitorInv, MonitorTypes, Steady
<1>2. RunFits(q)'
  BY <1>1, RunStays
<1> QED BY <1>2, RunMoves

LEMMA Resting ==
  ASSUME MonitorInv
  PROVE  RunFits(NoRun) /\ RunShape(NoRun) /\ CursorShape(NoCursor)
<1>1. CursorShape(NoCursor)
  BY DEF CursorShape, NoCursor
<1>2. PICK n : n = NoRun
  OBVIOUS
<1>3. n.read = NoCursor /\ n.at = "idle" /\ n.target = 0 /\ n.final = 0
  BY <1>2 DEF NoRun
<1>4. n.queue = {} /\ n.found = {} /\ n.cands = {} /\ n.missing = {}
  BY <1>2 DEF NoRun
<1>5. RunShape(n)
  BY <1>2 DEF RunShape, NoRun
<1>6. Deep(n.final) /\ Hand(n) = {} /\ n.at \notin Busy
  BY <1>3, <1>4 DEF Deep, Hand, Busy
<1> QED BY <1>1, <1>2, <1>3, <1>4, <1>5, <1>6 DEF RunFits

LEMMA RunBegins == ASSUME MonitorInv, NEW r \in Runs, runOnce(r) PROVE MonitorInv'
<1>1. PICK q : q = createRun
  OBVIOUS
<1>2. RunShape(q) /\ q.at = "next" /\ q.final = Finalized(head) /\ q.target = 0 /\ q.read = NoCursor
  <2>1. Finalized(head) \in Nat /\ active \subseteq Targets
    BY MonitorAssumption DEF MonitorInv, MonitorTypes, Finalized
  <2>2. q.at = "next" /\ q.final = Finalized(head) /\ q.target = 0 /\ q.read = NoCursor
    BY <1>1 DEF createRun, NoRun
  <2>3. RunShape(q)
    BY <1>1, <2>1 DEF RunShape, createRun, NoRun
  <2> QED BY <2>2, <2>3
<1>3. q.queue = {} /\ q.found = {} /\ q.cands = {} /\ q.missing = {}
  BY <1>1 DEF createRun, NoRun
<1>4. Deep(q.final)
  BY <1>2, MonitorAssumption DEF MonitorInv, MonitorTypes, Finalized, Deep
<1>5. RunFits(q)
  BY <1>2, <1>3, <1>4, Resting DEF RunFits, Hand, Busy
<1>6. Goes(run[r], q)
  BY <1>2 DEF Goes, runOnce, MonitorInv, RunFits, Hand
<1> QED BY <1>1, <1>5, <1>6, OnlyMoves DEF runOnce

LEMMA TargetIsTaken == ASSUME MonitorInv, NEW r \in Runs, NextTarget(r) PROVE MonitorInv'
<1>1. PICK p : p = run[r]
  OBVIOUS
<1>2. RunFits(p) /\ RunShape(p) /\ p.at = "next" /\ p.todo # {} /\ p.todo \subseteq Targets
  BY <1>1 DEF MonitorInv, NextTarget, RunFits, RunShape
<1>3. PICK t : t = MinOf(p.todo)
  OBVIOUS
<1>4. t \in Targets /\ t # 0
  <2>1. p.todo \in SUBSET Nat
    BY <1>2, MonitorAssumption
  <2>2. t \in p.todo
    BY <1>2, <1>3, <2>1, MinOfIs
  <2> QED BY <1>2, <2>2, MonitorAssumption
<1>5. PICK c : c = cursor[t]
  OBVIOUS
<1>6. CursorFits(t, c) /\ CursorShape(c)
  BY <1>4, <1>5 DEF MonitorInv, CursorFits
<1>7. PICK d : d = [p EXCEPT !.todo = @ \ {t}, !.target = t, !.read = c]
  OBVIOUS
<1>8. PICK x : x = [d EXCEPT !.target = 0]
  OBVIOUS
<1>9. PICK y : y = [d EXCEPT !.at = "logs"]
  OBVIOUS
<1>10. run' = [run EXCEPT ![r] = x] \/ run' = [run EXCEPT ![r] = y]
  BY <1>1, <1>3, <1>5, <1>7, <1>8, <1>9 DEF NextTarget
<1>11. /\ RunShape(x) /\ x.at = "next" /\ x.target = 0 /\ x.read = c /\ x.final = p.final
       /\ x.queue = p.queue /\ x.found = p.found /\ x.cands = p.cands /\ x.missing = p.missing
  BY <1>2, <1>7, <1>8 DEF RunShape
<1>12. /\ RunShape(y) /\ y.at = "logs" /\ y.target = t /\ y.read = c /\ y.final = p.final
       /\ y.queue = p.queue /\ y.found = p.found /\ y.cands = p.cands /\ y.missing = p.missing
  BY <1>2, <1>4, <1>7, <1>9 DEF RunShape, Busy
<1>13. Hand(x) = Hand(p) /\ Hand(y) = Hand(p) /\ InHand(y)
  BY <1>11, <1>12 DEF Hand, InHand
<1>14. RunFits(x) /\ RunFits(y)
  BY <1>2, <1>4, <1>6, <1>11, <1>12, <1>13 DEF RunFits, Busy
<1>15. Goes(run[r], x) /\ Goes(run[r], y)
  BY <1>1, <1>5, <1>11, <1>12 DEF Goes
<1> QED BY <1>10, <1>14, <1>15, OnlyMoves DEF NextTarget

(* The events a run leaves out are in cut, the others in its queue.           *)
LEMMA LogsAreRead == ASSUME MonitorInv, NEW r \in Runs, getLogs(r) PROVE MonitorInv'
<1>1. PICK p : p = run[r]
  OBVIOUS
<1>2. RunFits(p) /\ RunShape(p) /\ CursorShape(p.read) /\ Deep(p.final) /\ p.at = "logs"
  BY <1>1 DEF MonitorInv, getLogs, RunFits
<1>3. PICK S \in SUBSET (InRange(p) \ Calls) :
        run' = [run EXCEPT ![r] = [p EXCEPT !.at = "events", !.queue = S, !.here = S]]
        /\ cut' = cut \cup ((InRange(p) \ Calls) \ S)
  BY <1>1 DEF getLogs
<1>4. PICK q : q = [p EXCEPT !.at = "events", !.queue = S, !.here = S]
  OBVIOUS
<1>5. MonitorTypes /\ Steady
  BY <1>3 DEF MonitorInv, MonitorTypes, Steady, getLogs
<1>6. RunShape(q) /\ q.at = "events" /\ q.queue = S
  BY <1>2, <1>3, <1>4 DEF RunShape, Busy, InRange
<1>7. /\ q.target = p.target /\ q.read = p.read /\ q.final = p.final
      /\ q.found = p.found /\ q.cands = p.cands /\ q.missing = p.missing
  BY <1>2, <1>4 DEF RunShape
<1>8. InRange(q) = InRange(p) /\ InRange(p)' = InRange(p) /\ InRange(q)' = InRange(q) /\ \A i \in S : DeepItem(i)'
  <2>1. InRange(q) = InRange(p)
    BY <1>7 DEF InRange, FromBlock, ToBlock
  <2>2. InRange(q)' = InRange(q) /\ InRange(p)' = InRange(p) /\ \A i \in InRange(p) : DeepItem(i)
    BY <1>2, <1>5, <1>6, <1>7, RangeStays
  <2>3. \A i \in S : i \in Items /\ DeepItem(i)
    BY <1>3, <2>2 DEF InRange
  <2> QED BY <1>5, <2>1, <2>2, <2>3, KeyStays
<1>9. InHand(q)'
  BY <1>3, <1>6, <1>8 DEF InHand
<1>10. RunFits(p)'
  BY <1>2, <1>5, RunStays
<1>11. RunFits(q)'
  BY <1>2, <1>6, <1>7, <1>8, <1>9, <1>10 DEF RunFits, Hand, Busy, RunShape
<1>12. Goes(run[r], q)
  BY <1>1, <1>7 DEF Goes
<1> QED BY <1>3, <1>4, <1>11, <1>12, RunMoves DEF getLogs

(* An event leaves the queue, and its alerts are the next to look up.         *)
LEMMA EventIsStored ==
  ASSUME MonitorInv, NEW r \in Runs, NEW i \in Items, persistEvent(r, i)
  PROVE  MonitorInv'
<1>1. PICK p : p = run[r]
  OBVIOUS
<1>2. /\ RunFits(p) /\ RunShape(p) /\ p.at = "events" /\ i \in p.queue
      /\ p.cands = {} /\ p.missing = {}
  BY <1>1 DEF MonitorInv, persistEvent, Settled, RunFits
<1>3. PICK q : q = [p EXCEPT !.queue = @ \ {i}, !.events = @ + 1, !.cands = Candidates(i)]
  OBVIOUS
<1>4. RunShape(q) /\ q.queue = p.queue \ {i} /\ q.cands = Candidates(i)
  BY <1>2, <1>3 DEF RunShape
<1>5. /\ q.at = p.at /\ q.target = p.target /\ q.read = p.read /\ q.final = p.final
      /\ q.found = p.found /\ q.missing = p.missing
  BY <1>2, <1>3 DEF RunShape
<1>6. InRange(q) = InRange(p)
  BY <1>5 DEF InRange, FromBlock, ToBlock
<1>7. InHand(q)
  <2>1. InHand(p)
    BY <1>2 DEF RunFits, Busy
  <2> QED BY <1>2, <1>4, <1>5, <1>6, <2>1 DEF InHand, Hand, Candidates
<1>8. \A k \in Hand(q) : KeyOK(k)
  <2>1. DeepItem(i) /\ \A k \in Hand(p) : KeyOK(k)
    BY <1>2 DEF RunFits
  <2>2. \A k \in Candidates(i) : KeyOK(k)
    BY <2>1 DEF Candidates, KeyOK
  <2> QED BY <1>4, <1>5, <2>1, <2>2 DEF Hand
<1>9. RunFits(q)
  BY <1>2, <1>4, <1>5, <1>7, <1>8 DEF RunFits
<1>10. Goes(run[r], q)
  BY <1>1, <1>5 DEF Goes
<1> QED BY <1>1, <1>3, <1>9, <1>10, OnlyMoves DEF persistEvent

(* The calls in the range, whose alerts are the next to look up.              *)
LEMMA CallsAreRead == ASSUME MonitorInv, NEW r \in Runs, scanTargetTransactions(r) PROVE MonitorInv'
<1>1. PICK p : p = run[r]
  OBVIOUS
<1>2. /\ RunFits(p) /\ RunShape(p) /\ p.at = "events" /\ p.queue = {} /\ p.cands = {} /\ p.missing = {}
      /\ CursorShape(p.read) /\ Deep(p.final) /\ InHand(p) /\ MonitorTypes
  BY <1>1 DEF MonitorInv, scanTargetTransactions, Settled, RunFits, Busy
<1>3. PICK C : C = UNION {Candidates(i) : i \in InRange(p) \cap Calls}
  OBVIOUS
<1>4. PICK q : q = [p EXCEPT !.at = "calls", !.cands = C]
  OBVIOUS
<1>5. RunShape(q) /\ q.at = "calls" /\ q.cands = C
  BY <1>2, <1>4 DEF RunShape, Busy
<1>6. /\ q.target = p.target /\ q.read = p.read /\ q.final = p.final /\ q.queue = p.queue
      /\ q.found = p.found /\ q.missing = p.missing
  BY <1>2, <1>4 DEF RunShape
<1>7. InRange(q) = InRange(p)
  BY <1>6 DEF InRange, FromBlock, ToBlock
<1>8. InHand(q)
  <2>1. \A i \in InRange(p) \cap Calls : \A k \in RulesOf[i] : <<k, i>> \in C
    BY <1>3 DEF Candidates
  <2> QED BY <1>2, <1>5, <1>6, <1>7, <2>1 DEF InHand, Hand
<1>9. \A k \in Hand(q) : KeyOK(k)
  <2>1. \A i \in InRange(p) : i \in Items /\ DeepItem(i)
    <3>1. PICK b : b = ToBlock(p)
      OBVIOUS
    <3>2. b \in Nat /\ b <= p.final /\ p.final \in Nat /\ FromBlock(p) \in Nat
      BY <1>2, <3>1, RangeEnds DEF RunShape
    <3>3. blockOf \in [Items -> Nat] /\ head \in Nat
      BY <1>2 DEF MonitorTypes
    <3> QED BY <1>2, <3>1, <3>2, <3>3, MonitorAssumption DEF InRange, DeepItem, Deep
  <2>2. \A k \in C : KeyOK(k)
    BY <1>3, <2>1 DEF Candidates, KeyOK
  <2> QED BY <1>2, <1>5, <1>6, <2>2 DEF Hand, RunFits
<1>10. RunFits(q)
  BY <1>2, <1>5, <1>6, <1>8, <1>9 DEF RunFits, Busy
<1>11. Goes(run[r], q)
  BY <1>1, <1>6 DEF Goes
<1> QED BY <1>1, <1>3, <1>4, <1>10, <1>11, OnlyMoves DEF scanTargetTransactions

LEMMA DriftIsSeen == ASSUME MonitorInv, NEW r \in Runs, evaluateActivityDrift(r) PROVE MonitorInv'
<1>1. PICK p : p = run[r]
  OBVIOUS
<1>2. /\ RunFits(p) /\ RunShape(p) /\ p.at = "calls" /\ p.queue = {} /\ p.cands = {} /\ p.missing = {}
      /\ InHand(p)
  BY <1>1 DEF MonitorInv, evaluateActivityDrift, Settled, RunFits, Busy
<1>0. PICK i : run' = [run EXCEPT ![r] = [p EXCEPT !.at = "advance",
                                             !.cands = IF i = 0 THEN {} ELSE {<<"drift", i>>}]]
  BY <1>1 DEF evaluateActivityDrift
<1>3. PICK C : C = IF i = 0 THEN {} ELSE {<<"drift", i>>}
  OBVIOUS
<1>4. PICK q : q = [p EXCEPT !.at = "advance", !.cands = C]
  OBVIOUS
<1>5. RunShape(q) /\ q.at = "advance" /\ q.cands = C
  BY <1>2, <1>4 DEF RunShape, Busy
<1>6. /\ q.target = p.target /\ q.read = p.read /\ q.final = p.final /\ q.queue = p.queue
      /\ q.found = p.found /\ q.missing = p.missing
  BY <1>2, <1>4 DEF RunShape
<1>7. InRange(q) = InRange(p)
  BY <1>6 DEF InRange, FromBlock, ToBlock
<1>8. InHand(q) /\ \A k \in Hand(q) : KeyOK(k)
  <2>1. \A k \in C : k[1] = "drift"
    BY <1>3
  <2> QED BY <1>2, <1>5, <1>6, <1>7, <2>1 DEF InHand, Hand, KeyOK, RunFits
<1>9. RunFits(q)
  BY <1>2, <1>5, <1>6, <1>8 DEF RunFits, Busy
<1>10. Goes(run[r], q)
  BY <1>1, <1>6 DEF Goes
<1> QED BY <1>0, <1>3, <1>4, <1>9, <1>10, OnlyMoves DEF evaluateActivityDrift

(* What a run has in hand it keeps, looked up, missing or found.              *)
LEMMA AlertIsLookedUp ==
  ASSUME MonitorInv, NEW r \in Runs, NEW k, k \in run[r].cands, createAlert(r, k)
  PROVE  MonitorInv'
<1>1. PICK p : p = run[r]
  OBVIOUS
<1>2. RunFits(p) /\ RunShape(p) /\ p.missing = {} /\ k \in p.cands /\ p.found \subseteq alerts
  BY <1>1 DEF MonitorInv, createAlert, RunFits
<1>3. PICK found, missing :
        found = (IF k \in alerts THEN p.found \cup {k} ELSE p.found)
        /\ missing = IF k \in alerts THEN {} ELSE {k}
  OBVIOUS
<1>4. PICK q : q = [p EXCEPT !.cands = @ \ {k}, !.found = found, !.missing = missing]
  OBVIOUS
<1>5. run' = [run EXCEPT ![r] = q]
  BY <1>1, <1>3, <1>4 DEF createAlert, MonitorInv, MonitorTypes
<1>6. RunShape(q) /\ q.cands = p.cands \ {k} /\ q.found = found /\ q.missing = missing
  BY <1>2, <1>4 DEF RunShape
<1>7. /\ q.at = p.at /\ q.target = p.target /\ q.read = p.read /\ q.final = p.final /\ q.queue = p.queue
  BY <1>2, <1>4 DEF RunShape
<1>8. InRange(q) = InRange(p) /\ Hand(q) = Hand(p)
  BY <1>2, <1>3, <1>6, <1>7 DEF InRange, FromBlock, ToBlock, Hand
<1>9. InHand(p) => InHand(q)
  BY <1>7, <1>8 DEF InHand
<1>10. q.found \subseteq alerts /\ q.at # "idle" /\ \A a, b \in q.missing : a = b
  <2>1. p.at # "idle"
    BY <1>2 DEF RunFits, Hand
  <2> QED BY <1>2, <1>3, <1>6, <1>7, <2>1
<1>11. RunFits(q)
  BY <1>2, <1>6, <1>7, <1>8, <1>9, <1>10 DEF RunFits
<1>12. Goes(run[r], q)
  BY <1>1, <1>3, <1>6, <1>7 DEF Goes
<1> QED BY <1>5, <1>11, <1>12, OnlyMoves DEF createAlert

(* Whatever is missing is the one alert the run inserts.                      *)
LEMMA AlertIsInserted ==
  ASSUME MonitorInv, NEW r \in Runs, NEW k, InsertAlert(r, k)
  PROVE  MonitorInv'
<1>1. PICK p : p = run[r]
  OBVIOUS
<1>2. RunFits(p) /\ RunShape(p) /\ k \in p.missing /\ p.found \subseteq alerts /\ KeyOK(k)
  BY <1>1 DEF MonitorInv, InsertAlert, RunFits, Hand
<1>3. PICK q : q = [p EXCEPT !.missing = {}, !.found = p.found \cup {k}]
  OBVIOUS
<1>4. run' = [run EXCEPT ![r] = q] /\ alerts' = alerts \cup {k}
  BY <1>1, <1>3 DEF InsertAlert, MonitorInv, MonitorTypes
<1>5. RunShape(q) /\ q.found = p.found \cup {k} /\ q.missing = {}
  BY <1>2, <1>3 DEF RunShape
<1>6. /\ q.at = p.at /\ q.target = p.target /\ q.read = p.read /\ q.final = p.final
      /\ q.queue = p.queue /\ q.cands = p.cands
  BY <1>2, <1>3 DEF RunShape
<1>7. MonitorTypes /\ Steady
  BY <1>4 DEF MonitorInv, MonitorTypes, Steady, InsertAlert
<1>8. RunFits(p)'
  BY <1>2, <1>7, RunStays
<1>9. Hand(q) = Hand(p) /\ p.at # "idle"
  <2>1. p.missing = {k}
    BY <1>2 DEF RunFits
  <2> QED BY <1>2, <1>5, <1>6, <2>1 DEF Hand, RunFits
<1>10. InRange(q)' = InRange(p)'
  BY <1>6 DEF InRange, FromBlock, ToBlock
<1>11. InHand(p)' => InHand(q)'
  BY <1>6, <1>9, <1>10 DEF InHand
<1>12. RunShape(q)' /\ q.found \subseteq alerts'
  BY <1>2, <1>4, <1>5 DEF RunShape
<1>13. RunFits(q)'
  BY <1>5, <1>6, <1>8, <1>9, <1>11, <1>12 DEF RunFits
<1>14. Goes(run[r], q)
  BY <1>1, <1>5, <1>6 DEF Goes
<1> QED BY <1>2, <1>4, <1>5, <1>13, <1>14, RunMoves DEF InsertAlert

LEMMA RunCompletes == ASSUME MonitorInv, NEW r \in Runs, completeRun(r) PROVE MonitorInv'
<1>1. PICK p : p = run[r]
  OBVIOUS
<1>2. RunFits(p) /\ (\A k \in p.found : KeyOK(k)) /\ p.found \subseteq alerts
  BY <1>1 DEF MonitorInv, RunFits, Hand
<1>3. PICK n : n = NoRun
  OBVIOUS
<1>4. PICK q : q = [n EXCEPT !.at = "deliver", !.found = p.found]
  OBVIOUS
<1>5. run' = [run EXCEPT ![r] = n] \/ run' = [run EXCEPT ![r] = q]
  BY <1>1, <1>3, <1>4 DEF completeRun
<1>6. RunShape(n) /\ RunFits(n) /\ n.target = 0 /\ n.at = "idle"
  BY <1>3, Resting DEF NoRun
<1>7. RunShape(q) /\ q.at = "deliver" /\ q.found = p.found
  BY <1>4, <1>6 DEF RunShape
<1>8. /\ q.target = 0 /\ q.read = n.read /\ q.final = n.final /\ q.queue = n.queue
      /\ q.cands = n.cands /\ q.missing = n.missing
  BY <1>4, <1>6 DEF RunShape
<1>9. n.cands = {} /\ n.missing = {}
  BY <1>3 DEF NoRun
<1>10. RunFits(q)
  BY <1>2, <1>6, <1>7, <1>8, <1>9 DEF RunFits, Hand, Busy
<1>11. CASE p.found = {}
  <2>1. run' = [run EXCEPT ![r] = n]
    BY <1>1, <1>3, <1>11 DEF completeRun
  <2>2. Goes(run[r], n)
    BY <1>1, <1>6, <1>11 DEF Goes
  <2> QED BY <1>6, <2>1, <2>2, OnlyMoves DEF completeRun
<1>12. CASE p.found # {}
  <2>1. run' = [run EXCEPT ![r] = q]
    BY <1>1, <1>3, <1>4, <1>12 DEF completeRun
  <2>2. Goes(run[r], q)
    BY <1>1, <1>7, <1>8 DEF Goes
  <2> QED BY <1>10, <2>1, <2>2, OnlyMoves DEF completeRun
<1> QED BY <1>11, <1>12

LEMMA AlertIsTold ==
  ASSUME MonitorInv, NEW r \in Runs, NEW k, deliverAlert(r, k)
  PROVE  MonitorInv'
<1>1. PICK p : p = run[r]
  OBVIOUS
<1>2. RunFits(p) /\ RunShape(p) /\ p.at = "deliver" /\ k \in p.found
  BY <1>1 DEF MonitorInv, deliverAlert, RunFits
<1>3. PICK n : n = NoRun
  OBVIOUS
<1>4. PICK q : q = [p EXCEPT !.found = @ \ {k}]
  OBVIOUS
<1>5. told' = told \cup {k}
      /\ (run' = [run EXCEPT ![r] = q] \/ (p.found = {k} /\ run' = [run EXCEPT ![r] = n]))
  <2>1. told' = told \cup {k} /\ run[r] = p
    BY <1>1 DEF deliverAlert
  <2>2. run' = [run EXCEPT ![r] = IF p.found = {k} THEN NoRun ELSE [p EXCEPT !.found = @ \ {k}]]
    BY <1>1 DEF deliverAlert
  <2>3. CASE p.found = {k}
    BY <1>3, <2>1, <2>2, <2>3
  <2>4. CASE p.found # {k}
    BY <1>4, <2>1, <2>2, <2>4
  <2> QED BY <2>3, <2>4
<1>6. MonitorTypes /\ Steady
  BY DEF MonitorInv, MonitorTypes, Steady, deliverAlert
<1>7. RunFits(n) /\ n.target = 0
  BY <1>3, Resting DEF NoRun
<1>8. RunShape(q) /\ q.found = p.found \ {k}
  BY <1>2, <1>4 DEF RunShape
<1>9. /\ q.at = p.at /\ q.target = p.target /\ q.read = p.read /\ q.final = p.final
      /\ q.queue = p.queue /\ q.cands = p.cands /\ q.missing = p.missing
  BY <1>2, <1>4 DEF RunShape
<1>10. RunFits(q)
  BY <1>2, <1>8, <1>9 DEF RunFits, Hand, Busy
<1>11. RunFits(n)' /\ RunFits(q)'
  BY <1>6, <1>7, <1>10, RunStays
<1>12. Goes(run[r], q)
  BY <1>1, <1>5, <1>8, <1>9 DEF Goes
<1>13. p.found = {k} => Goes(run[r], n)
  BY <1>1, <1>5, <1>7 DEF Goes
<1> QED BY <1>5, <1>11, <1>12, <1>13, RunMoves DEF deliverAlert

LEMMA RunIsLost == ASSUME MonitorInv, NEW r \in Runs, Fails(r) PROVE MonitorInv'
<1>1. PICK n : n = NoRun
  OBVIOUS
<1>2. RunFits(n) /\ n.target = 0 /\ run' = [run EXCEPT ![r] = n]
  BY <1>1, Resting DEF NoRun, Fails
<1>3. MonitorTypes /\ Steady
  BY DEF MonitorInv, MonitorTypes, Steady, Fails
<1>4. RunFits(n)'
  BY <1>2, <1>3, RunStays
<1>5. Goes(run[r], n)
  BY <1>2 DEF Goes, Fails
<1> QED BY <1>2, <1>4, <1>5, RunMoves DEF Fails

(* The cursor moves over the range. The items the run read in it have their    *)
(* alerts; those before it had them when the run read the cursor.             *)
LEMMA CursorIsMoved == ASSUME MonitorInv, NEW r \in Runs, upsertCursor(r) PROVE MonitorInv'
<1>1. PICK p : p = run[r]
  OBVIOUS
<1>2. /\ RunFits(p) /\ RunShape(p) /\ p.at = "advance" /\ p.queue = {} /\ p.cands = {} /\ p.missing = {}
      /\ InHand(p) /\ CursorFits(p.target, p.read) /\ CursorShape(p.read) /\ Deep(p.final)
      /\ p.found \subseteq alerts /\ p.target \in Targets
  <2>1. RunFits(p) /\ p.at = "advance" /\ p.cands = {} /\ p.missing = {}
    BY <1>1 DEF MonitorInv, upsertCursor, Settled
  <2> QED BY <2>1 DEF RunFits, RunShape, Busy
<1>3. PICK from, to, since : from = FromBlock(p) /\ to = ToBlock(p)
                             /\ since = IF p.read.row THEN p.read.since ELSE from
  OBVIOUS
<1>4. from \in Nat /\ to \in Nat /\ to <= p.final /\ since \in Nat /\ p.final \in Nat
  BY <1>2, <1>3, RangeEnds DEF RunShape, CursorShape
<1>5. PICK c : c = [block |-> to, since |-> since, baseline |-> Cardinality(p.here), row |-> TRUE]
  OBVIOUS
<1>6. PICK q : q = [p EXCEPT !.at = "next", !.target = 0, !.read = NoCursor, !.here = {}]
  OBVIOUS
<1>7. cursor' = [cursor EXCEPT ![p.target] = c] /\ run' = [run EXCEPT ![r] = q]
      /\ UNCHANGED <<head, blockOf, active, alerts, told, cut, lost>>
  BY <1>1, <1>3, <1>5, <1>6 DEF upsertCursor
<1>8. MonitorTypes /\ Steady /\ MonitorTypes'
  BY <1>7 DEF MonitorInv, MonitorTypes, Steady
<1>9. RunShape(q) /\ q.at = "next" /\ q.target = 0 /\ q.read = NoCursor
  BY <1>2, <1>6 DEF RunShape
<1>10. /\ q.final = p.final /\ q.queue = p.queue
       /\ q.found = p.found /\ q.cands = p.cands /\ q.missing = p.missing
  BY <1>2, <1>6 DEF RunShape
<1>11. RunFits(q)
  BY <1>2, <1>9, <1>10, Resting DEF RunFits, Hand, Busy
<1>12. \A i \in Items \ cut : TargetOf[i] = p.target /\ blockOf[i] > 0 /\ blockOf[i] \in from .. to
         => \A k \in RulesOf[i] : <<k, i>> \in p.found
  <2>1. \A i \in InRange(p) \ cut : \A k \in RulesOf[i] : <<k, i>> \in p.found
    BY <1>2 DEF InHand, Hand
  <2> QED BY <1>3, <2>1 DEF InRange
<1>13. Covered(p.target, since, to)
  <2>1. CASE p.read.row
    <3>1. from = p.read.block + 1 /\ Covered(p.target, since, p.read.block) /\ p.read.block \in Nat
      BY <1>2, <1>3, <2>1 DEF CursorFits, CursorShape, FromBlock, computeFromBlock
    <3>2. \A i \in Items : blockOf[i] \in Nat
      BY <1>8 DEF MonitorTypes
    <3>3. \A b \in since .. to : b \in since .. p.read.block \/ b \in from .. to
      BY <1>4, <3>1
    <3> QED BY <1>2, <1>12, <3>1, <3>3 DEF Covered
  <2>2. CASE ~p.read.row
    BY <1>2, <1>3, <1>12, <2>2 DEF Covered
  <2> QED BY <2>1, <2>2
<1>14. CursorShape(c) /\ c.block = to /\ c.since = since /\ c.row
  BY <1>4, <1>5 DEF CursorShape
<1>15. CursorFits(p.target, c)
  <2>1. Deep(to)
    BY <1>2, <1>4, <1>8, DeepStays
  <2> QED BY <1>13, <1>14, <2>1 DEF CursorFits
<1>16. ASSUME NEW t \in Targets PROVE CursorFits(t, cursor[t])'
  <2>1. PICK d : d = cursor'[t]
    OBVIOUS
  <2>2. CursorFits(t, d)
    BY <1>7, <1>8, <1>15, <2>1 DEF MonitorInv, MonitorTypes
  <2>3. CursorFits(t, d)'
    BY <1>8, <2>2, CursorStays
  <2> QED BY <2>1, <2>3
<1>17. ASSUME NEW s \in Runs PROVE RunFits(run[s])'
  <2>1. PICK d : d = run'[s]
    OBVIOUS
  <2>2. RunFits(d)
    BY <1>7, <1>8, <1>11, <2>1 DEF MonitorInv, MonitorTypes
  <2>3. RunFits(d)'
    BY <1>8, <2>2, RunStays
  <2> QED BY <2>1, <2>3
<1>18. \A k \in alerts' : KeyOK(k)'
  BY <1>7, <1>8, KeyStays DEF MonitorInv
<1>19. run'[r] = q /\ \A s \in Runs \ {r} : run'[s] = run[s]
  BY <1>7, <1>8 DEF MonitorTypes
<1>20. ASSUME NEW k \in alerts, k[1] # "drift", k[2] \notin cut, k \notin p.found, Ahead(k)
       PROVE  Ahead(k)'
  <2>1. /\ k = <<k[1], k[2]>> /\ k[2] \in Items /\ k[1] \in RulesOf[k[2]] /\ blockOf[k[2]] > 0
        /\ blockOf[k[2]] \in Nat
    BY <1>8, <1>20 DEF MonitorInv, KeyOK, DeepItem, MonitorTypes
  <2>2. PICK t, b : t = TargetOf[k[2]] /\ b = blockOf[k[2]]
    OBVIOUS
  <2>3. t \in Targets /\ t # 0 /\ b \in Nat
    BY <2>1, <2>2, MonitorAssumption
  <2>4. cursor[t].row /\ cursor[t].block < b /\ \A s \in Runs : run[s].target = t => FromBlock(run[s]) <= b
    BY <1>20, <2>2 DEF Ahead
  <2>5. cursor'[t].row /\ cursor'[t].block < b
    <3>1. CASE t = p.target
      <4>1. from <= b
        BY <1>1, <1>3, <2>4, <3>1
      <4>2. ~(b \in from .. to)
        BY <1>12, <1>20, <2>1, <2>2, <3>1
      <4>3. to < b
        BY <1>4, <2>3, <4>1, <4>2
      <4>4. cursor'[t] = c
        BY <1>7, <1>8, <2>3, <3>1 DEF MonitorTypes
      <4> QED BY <1>14, <4>3, <4>4
    <3>2. CASE t # p.target
      BY <1>7, <1>8, <2>3, <2>4, <3>2 DEF MonitorTypes
    <3> QED BY <3>1, <3>2
  <2>6. ASSUME NEW s \in Runs, run'[s].target = t PROVE FromBlock(run'[s]) <= b
    BY <1>9, <1>19, <2>3, <2>4, <2>6
  <2> QED BY <1>7, <2>2, <2>5, <2>6 DEF Ahead, FromBlock
<1>21. NothingForgotten'
  <2> SUFFICES ASSUME NEW k \in alerts, k \notin told \cup lost, k[1] # "drift", k[2] \notin cut,
                      \A s \in Runs : k \notin run'[s].found
               PROVE  Ahead(k)'
    BY <1>7 DEF NothingForgotten
  <2>1. k \notin p.found /\ \A s \in Runs : k \notin run[s].found
    BY <1>1, <1>10, <1>19
  <2>2. Ahead(k)
    BY <2>1 DEF MonitorInv, NothingForgotten
  <2> QED BY <1>20, <2>1, <2>2
<1> QED BY <1>8, <1>16, <1>17, <1>18, <1>21 DEF MonitorInv

(* A step of the chain or of the targets: no run moves.                       *)
LEMMA NoRunMoves ==
  ASSUME MonitorInv, Steady, MonitorTypes', UNCHANGED <<cursor, alerts, run, told, cut, lost>>
  PROVE  MonitorInv'
<1>1. ASSUME NEW t \in Targets PROVE CursorFits(t, cursor[t])'
  <2>1. PICK d : d = cursor[t]
    OBVIOUS
  <2>2. CursorFits(t, d)'
    BY <2>1, CursorStays DEF MonitorInv
  <2> QED BY <2>1, <2>2
<1>2. ASSUME NEW s \in Runs PROVE RunFits(run[s])'
  <2>1. PICK d : d = run[s]
    OBVIOUS
  <2>2. RunFits(d)'
    BY <2>1, RunStays DEF MonitorInv
  <2> QED BY <2>1, <2>2
<1>3. \A k \in alerts' : KeyOK(k)'
  BY KeyStays DEF MonitorInv
<1>4. \A s \in Runs : Goes(run[s], run'[s])
  BY DEF Goes
<1>5. NothingForgotten'
  BY <1>4, KeptStays
<1> QED BY <1>1, <1>2, <1>3, <1>5 DEF MonitorInv

(* The chain goes on, and replaces no block a run may have read.              *)
LEMMA ChainKeeps ==
  ASSUME MonitorInv, NEW S \in SUBSET Items, Mine(S) \/ Reorg(S)
  PROVE  MonitorInv'
<1>1. MonitorTypes /\ UNCHANGED <<active, cursor, alerts, run, told, cut, lost>>
  BY DEF MonitorInv, Mine, Reorg
<1>2. head \in Nat /\ blockOf \in [Items -> Nat] /\ ReorgDepth \in Nat
  BY <1>1, MonitorAssumption DEF MonitorTypes
<1>3. head' \in Nat /\ head <= head' /\ blockOf' \in [Items -> Nat]
  BY <1>2 DEF Mine, Reorg
<1>4. ASSUME NEW i \in Items
      PROVE  \/ blockOf'[i] = blockOf[i]
             \/ blockOf[i] = 0 /\ blockOf'[i] > head
             \/ blockOf'[i] = 0 /\ ~Deep(blockOf[i])
  <2>1. CASE Mine(S)
    BY <1>2, <2>1 DEF Mine
  <2>2. CASE Reorg(S)
    <3>1. blockOf[i] \in Nat /\ (i \in S => blockOf[i] + ReorgDepth > head)
      BY <1>2, <2>2 DEF Reorg
    <3>2. blockOf'[i] = IF i \in S THEN 0 ELSE blockOf[i]
      BY <2>2 DEF Reorg
    <3> QED BY <1>2, <3>1, <3>2 DEF Deep
  <2> QED BY <2>1, <2>2
<1> QED BY <1>1, <1>3, <1>4, NoRunMoves DEF Steady, MonitorTypes

LEMMA MonitorInitInv == MonitorInit => MonitorInv
<1> SUFFICES ASSUME MonitorInit PROVE MonitorInv
  OBVIOUS
<1>1. MonitorTypes /\ NothingForgotten
  BY DEF MonitorInit, MonitorTypes, NothingForgotten
<1>2. \A t \in Targets : CursorFits(t, cursor[t])
  <2>1. ~NoCursor.row /\ CursorShape(NoCursor)
    BY DEF NoCursor, CursorShape
  <2> QED BY <2>1 DEF MonitorInit, CursorFits
<1>3. ASSUME NEW s \in Runs PROVE RunFits(run[s])
  <2>1. PICK n : n = NoRun
    OBVIOUS
  <2>2. /\ n.at = "idle" /\ n.target = 0 /\ n.read = NoCursor /\ n.final = 0
        /\ n.queue = {} /\ n.found = {} /\ n.cands = {} /\ n.missing = {}
    BY <2>1 DEF NoRun
  <2>3. RunShape(n) /\ CursorShape(NoCursor)
    BY <2>1 DEF RunShape, NoRun, CursorShape, NoCursor
  <2>4. RunFits(n)
    BY <2>2, <2>3 DEF RunFits, Hand, Busy, Deep
  <2> QED BY <2>1, <2>4 DEF MonitorInit
<1> QED BY <1>1, <1>2, <1>3 DEF MonitorInv, MonitorInit

LEMMA MonitorStepInv ==
  ASSUME MonitorInv, [MonitorNext]_monitorVars
  PROVE  MonitorInv'
<1>1. CASE UNCHANGED monitorVars
  BY <1>1, NoRunMoves DEF monitorVars, MonitorInv, MonitorTypes, Steady
<1>2. CASE \E S \in SUBSET Items : Mine(S) \/ Reorg(S)
  BY <1>2, ChainKeeps
<1>3. ASSUME NEW t \in Targets, createTarget(t) \/ stopTarget(t) PROVE MonitorInv'
  <2>1. active' \subseteq Targets /\ UNCHANGED <<head, blockOf, cursor, alerts, run, told, cut, lost>>
    BY <1>3 DEF MonitorInv, MonitorTypes, createTarget, upsertTarget, stopTarget
  <2> QED BY <2>1, NoRunMoves DEF MonitorInv, MonitorTypes, Steady
<1>4. ASSUME NEW r \in Runs,
             \/ runOnce(r) \/ NextTarget(r) \/ getLogs(r) \/ scanTargetTransactions(r)
             \/ evaluateActivityDrift(r) \/ upsertCursor(r) \/ completeRun(r) \/ RunFails(r) \/ LosesRace(r)
      PROVE  MonitorInv'
  BY <1>4, RunBegins, TargetIsTaken, LogsAreRead, CallsAreRead, DriftIsSeen, CursorIsMoved, RunCompletes,
     RunIsLost DEF RunFails, LosesRace
<1>5. ASSUME NEW r \in Runs,
             \/ \E i \in Items : persistEvent(r, i)
             \/ \E k \in run[r].cands : createAlert(r, k)
             \/ \E k \in run[r].missing : InsertAlert(r, k)
             \/ \E k \in run[r].found : deliverAlert(r, k)
      PROVE  MonitorInv'
  BY <1>5, EventIsStored, AlertIsLookedUp, AlertIsInserted, AlertIsTold
<1> QED BY <1>1, <1>2, <1>3, <1>4, <1>5 DEF MonitorNext

(* However many runs overlap or fail, no cursor passes over an item that a    *)
(* rule names before the item has its alerts.                                 *)
THEOREM NoItemIsSkipped == MonitorSpec => []NothingPassedOver
<1>1. MonitorInv => NothingPassedOver
  BY MonitorAssumption DEF MonitorInv, CursorFits, CursorShape, Covered, NothingPassedOver
<1> QED BY <1>1, MonitorInitInv, MonitorStepInv, PTL DEF MonitorSpec

(* An alert the webhooks have not been told of is in the hand of a run or     *)
(* ahead of every run, unless a failed run had it when it was not.            *)
THEOREM AlertsAreKept == MonitorSpec => []NothingForgotten
<1>1. MonitorInv => NothingForgotten
  BY DEF MonitorInv
<1> QED BY <1>1, MonitorInitInv, MonitorStepInv, PTL DEF MonitorSpec

-----------------------------------------------------------------------------
(* Threat knowledge: the states of a request, and what it has of the rows.    *)

RowKinds == {"entry", "source", "reference", "entry revised", "signature", "condition",
             "signature revised", "label", "refused", "import revised"}
Matched == [signature : Signatures, about : Subjects, status : {"MATCHED", "PARTIAL", "INCONCLUSIVE"},
            used : SUBSET Phases, missing : SUBSET Phases]
Todos == UNION {[I -> Matched] : I \in SUBSET (DOMAIN Order)}
Snapshots == [rule : Rules, truePositives : Nat, falsePositives : Nat, reports : Nat]

MatchStates ==
  [at : {"match"}, signature : Signatures]
    \cup [at : {"pay", "find"}, signature : Signatures, todo : Todos]
    \cup [at : {"put"}, signature : Signatures, todo : Todos, id : Nat]
ReportStates ==
  [at : {"report", "measure"}, finding : Findings, met : Nat]
    \cup [at : {"seek"}, finding : Findings, met : Nat, snapshot : Snapshots]
    \cup [at : {"store"}, finding : Findings, met : Nat, snapshot : Snapshots, id : Nat]
WriteStates == [at : {"write"}, left : Seq(RowKinds), entry : Nat \ {0}]
CallStates == {Idle} \cup MatchStates \cup ReportStates \cup WriteStates

MatchAt == {"match", "pay", "find", "put"}
ReportAt == {"report", "measure", "seek", "store"}

LEMMA StateIs ==
  ASSUME NEW q \in CallStates
  PROVE  /\ q.at \in {"idle", "write"} \cup MatchAt \cup ReportAt
         /\ q.at = "idle" <=> q = Idle
         /\ q.at = "write" <=> q \in WriteStates
         /\ q.at \in MatchAt <=> q \in MatchStates
         /\ q.at \in ReportAt <=> q \in ReportStates
<1>1. q \in WriteStates => q.at = "write"
  BY DEF WriteStates
<1>2. q \in MatchStates => q.at \in MatchAt
  BY DEF MatchStates, MatchAt
<1>3. q \in ReportStates => q.at \in ReportAt
  BY DEF ReportStates, ReportAt
<1>4. q = Idle => q.at = "idle"
  BY DEF Idle
<1>5. q = Idle \/ q \in WriteStates \/ q \in MatchStates \/ q \in ReportStates
  BY DEF CallStates
<1> QED BY <1>1, <1>2, <1>3, <1>4, <1>5 DEF MatchAt, ReportAt

(* A match is of a signature, about a finding or an alert of the scan.        *)
About(s, x) == [signature |-> s, about |-> x]
MatchesOf(s, x) == {i \in DOMAIN matches : Same(matches[i], About(s, x))}
Adding(s, x) == {c \in Callers : call[c].at = "put" /\ call[c].id = 0 /\ Same(Candidate(c), About(s, x))}

(* What is left to write for a request is about its signature.                *)
TodoFits(c) ==
  call[c].at \in {"pay", "find", "put"} =>
    \A i \in DOMAIN call[c].todo : Same(call[c].todo[i], About(call[c].signature, Order[i]))

(* There is one more, and the row that was found is of it.                    *)
TurnFits(c) ==
  /\ call[c].at \in {"find", "put"} => DOMAIN call[c].todo # {}
  /\ call[c].at = "put" /\ call[c].id # 0 =>
       call[c].id \in DOMAIN matches /\ Same(matches[call[c].id], Candidate(c))

(* Each finding has its match or is still to come.                            *)
FindingsFit(c) ==
  call[c].at \in {"pay", "find", "put"} =>
    \A f \in Findings : \/ MatchesOf(call[c].signature, f) # {}
                        \/ \E i \in DOMAIN call[c].todo : Order[i] = f

(* Whoever adds a row found none, and is one of those that match at a time.   *)
RowsCounted ==
  \A s \in Signatures :
    /\ Cardinality(Matching(s)) <= together[s]
    /\ \A x \in Subjects : Cardinality(MatchesOf(s, x)) + Cardinality(Adding(s, x)) <= together[s]

MatchTypes ==
  /\ call \in [Callers -> CallStates]
  /\ matches \in Seq(Matched) /\ together \in [Signatures -> Nat]

MatchFits ==
  /\ \A c \in Callers : TodoFits(c) /\ TurnFits(c) /\ FindingsFit(c)
  /\ \A s \in matched, f \in Findings : MatchesOf(s, f) # {}

MatchInv == MatchTypes /\ RowsCounted /\ MatchFits

LEMMA OrderIs ==
  /\ Order \in Seq(Subjects) /\ DOMAIN Order \subseteq Nat
  /\ \A i \in DOMAIN Order : Order[i] \in Subjects
  /\ \A f \in Findings : \E i \in DOMAIN Order : Order[i] = f
<1>1. FindingOrder \in Seq(Subjects) /\ AlertOrder \in Seq(Subjects)
  <2>1. FindingOrder \in Seq(Findings) /\ AlertOrder \in Seq(Alerts)
    BY ThreatAssumption
  <2>2. Findings \subseteq Subjects /\ Alerts \subseteq Subjects
    BY DEF Subjects
  <2> QED BY <2>1, <2>2, SeqMonotonic
<1>2. /\ Order \in Seq(Subjects) /\ Len(Order) = Len(FindingOrder) + Len(AlertOrder)
      /\ \A i \in 1 .. Len(FindingOrder) + Len(AlertOrder) :
           Order[i] = IF i <= Len(FindingOrder) THEN FindingOrder[i] ELSE AlertOrder[i - Len(FindingOrder)]
  BY <1>1, ConcatProperties DEF Order
<1>3. /\ DOMAIN Order = 1 .. Len(Order) /\ Len(FindingOrder) \in Nat /\ Len(AlertOrder) \in Nat
      /\ DOMAIN FindingOrder = 1 .. Len(FindingOrder)
  BY <1>1, <1>2, LenProperties
<1>4. \A i \in DOMAIN Order : Order[i] \in Subjects
  BY <1>2, <1>3, ElementOfSeq
<1>5. ASSUME NEW f \in Findings PROVE \E i \in DOMAIN Order : Order[i] = f
  <2>1. PICK i \in DOMAIN FindingOrder : FindingOrder[i] = f
    BY DEF Findings, ToSet
  <2> QED BY <1>2, <1>3, <2>1
<1> QED BY <1>2, <1>3, <1>4, <1>5

(* What a signature is to a finding or an alert.                              *)
LEMMA EvaluatedIs ==
  ASSUME NEW s \in Signatures, NEW x \in Subjects
  PROVE  /\ evaluateFinding(s, x) \in Matched /\ Same(evaluateFinding(s, x), About(s, x))
         /\ evaluateAlert(s, x) \in Matched /\ Same(evaluateAlert(s, x), About(s, x))
<1>1. /\ missingRequiredEvidence(s, x) \subseteq Phases /\ Here(x) \subseteq Phases
  BY ThreatAssumption DEF missingRequiredEvidence, Here
<1>2. ASSUME NEW status \in {"MATCHED", "PARTIAL", "INCONCLUSIVE"}, NEW used \in SUBSET Phases
      PROVE  Row(s, x, status, used) \in Matched /\ Same(Row(s, x, status, used), About(s, x))
  BY <1>1, <1>2 DEF Row, Matched, Same, About
<1>3. /\ Here(x) \cap {"p8"} \in SUBSET Phases /\ Here(x) \cap {"p7"} \in SUBSET Phases
      /\ {"p1"} \in SUBSET Phases /\ {} \in SUBSET Phases
  BY <1>1 DEF Phases
<1>4. evaluateFinding(s, x) \in Matched /\ Same(evaluateFinding(s, x), About(s, x))
  BY <1>1, <1>2, <1>3 DEF evaluateFinding
<1>5. evaluateAlert(s, x) \in Matched /\ Same(evaluateAlert(s, x), About(s, x))
  <2>1. PICK r : r = Row(s, x, "MATCHED", Here(x))
    OBVIOUS
  <2>2. r \in Matched /\ Same(r, About(s, x))
    BY <1>1, <1>2, <2>1
  <2>3. {"p9"} \ Here(x) \subseteq Phases
    BY DEF Phases
  <2>4. evaluateAlert(s, x) = [r EXCEPT !.missing = {"p9"} \ Here(x)]
    BY <2>1 DEF evaluateAlert
  <2> QED BY <2>2, <2>3, <2>4 DEF Matched, Same, About
<1> QED BY <1>4, <1>5

LEMMA EvaluationIs ==
  ASSUME NEW s \in Signatures, NEW t, t = evaluateSignatureAgainstScan(s)
  PROVE  /\ t \in Todos /\ DOMAIN t \subseteq DOMAIN Order
         /\ \A i \in DOMAIN t : Same(t[i], About(s, Order[i]))
         /\ \A f \in Findings : \E i \in DOMAIN t : Order[i] = f
<1> DEFINE I == {j \in DOMAIN Order : Order[j] \in Findings \/ FamilyOf[s] \in OfKind[Order[j]]}
<1>1. /\ DOMAIN t = I
      /\ \A i \in I : t[i] = IF Order[i] \in Findings THEN evaluateFinding(s, Order[i])
                             ELSE evaluateAlert(s, Order[i])
      /\ t = [i \in I |-> t[i]]
  BY DEF evaluateSignatureAgainstScan
<1>2. I \in SUBSET (DOMAIN Order)
  OBVIOUS
<1>3. \A f \in Findings : \E i \in I : Order[i] = f
  BY OrderIs
<1> HIDE DEF I
<1>4. ASSUME NEW i \in I PROVE t[i] \in Matched /\ Same(t[i], About(s, Order[i]))
  BY <1>1, <1>2, EvaluatedIs, OrderIs
<1>5. t \in [I -> Matched]
  BY <1>1, <1>4
<1>6. t \in Todos
  BY <1>2, <1>5 DEF Todos
<1> QED BY <1>1, <1>2, <1>3, <1>4, <1>6

LEMMA TodoIs ==
  ASSUME NEW t \in Todos
  PROVE  /\ DOMAIN t \subseteq DOMAIN Order /\ t \in [DOMAIN t -> Matched]
         /\ \A D \in SUBSET (DOMAIN t) : Restrict(t, D) \in Todos
<1>1. PICK I \in SUBSET (DOMAIN Order) : t \in [I -> Matched]
  BY DEF Todos
<1>2. ASSUME NEW D \in SUBSET (DOMAIN t) PROVE Restrict(t, D) \in Todos
  <2>1. Restrict(t, D) \in [D -> Matched]
    BY <1>1 DEF Restrict
  <2>2. D \in SUBSET (DOMAIN Order)
    BY <1>1
  <2> QED BY <2>1, <2>2 DEF Todos
<1> QED BY <1>1, <1>2

LEMMA FirstIs ==
  ASSUME NEW t \in Todos, DOMAIN t # {}
  PROVE  Min(DOMAIN t) \in DOMAIN t /\ t[Min(DOMAIN t)] \in Matched
<1>1. PICK S : S = DOMAIN t
  OBVIOUS
<1>2. S \in SUBSET Nat /\ S # {}
  BY <1>1, TodoIs, OrderIs
<1>3. \E x \in S : \A y \in S : x <= y
  BY <1>2, MinOfIs
<1>4. Min(S) \in S
  BY <1>3 DEF Min
<1> QED BY <1>1, <1>4, TodoIs

LEMMA TurnIs ==
  ASSUME NEW c \in Callers, call[c].todo \in Todos, DOMAIN call[c].todo # {}
  PROVE  Turn(c) \in DOMAIN call[c].todo /\ Candidate(c) \in Matched
BY FirstIs DEF Turn, Candidate

LEMMA MaxIs ==
  ASSUME NEW m \in Nat, NEW n \in Nat
  PROVE  Max({m, n}) \in Nat /\ m <= Max({m, n}) /\ n <= Max({m, n})
<1>1. \E x \in {m, n} : \A y \in {m, n} : x >= y
  <2>1. CASE m >= n
    BY <2>1
  <2>2. CASE n >= m
    BY <2>2
  <2> QED BY <2>1, <2>2
<1>2. Max({m, n}) \in {m, n} /\ \A y \in {m, n} : Max({m, n}) >= y
  BY <1>1 DEF Max
<1> QED BY <1>2

LEMMA CallersFinite ==
  ASSUME NEW S \in SUBSET Callers
  PROVE  IsFiniteSet(S) /\ Cardinality(S) \in Nat
BY ThreatAssumption, FS_Subset, FS_CardinalityType

LEMMA FewerCallers ==
  ASSUME NEW S \in SUBSET Callers, NEW T \in SUBSET S
  PROVE  Cardinality(T) <= Cardinality(S)
BY CallersFinite, FS_Subset

LEMMA MatchesFinite ==
  ASSUME matches \in Seq(Matched), NEW s, NEW x
  PROVE  IsFiniteSet(MatchesOf(s, x)) /\ Cardinality(MatchesOf(s, x)) \in Nat
<1>1. Len(matches) \in Nat /\ DOMAIN matches = 1 .. Len(matches)
  BY LenProperties
<1>2. IsFiniteSet(1 .. Len(matches))
  BY <1>1, FS_Interval
<1>3. MatchesOf(s, x) \in SUBSET (1 .. Len(matches))
  BY <1>1 DEF MatchesOf
<1> QED BY <1>2, <1>3, FS_Subset, FS_CardinalityType

LEMMA MatchInitInv == ThreatInit => MatchInv
<1> SUFFICES ASSUME ThreatInit PROVE MatchInv
  OBVIOUS
<1>1. MatchTypes
  BY DEF ThreatInit, MatchTypes, CallStates
<1>2. \A c \in Callers : call[c].at = "idle"
  BY DEF ThreatInit, Idle
<1>3. MatchFits
  BY <1>2 DEF ThreatInit, MatchFits, TodoFits, TurnFits, FindingsFit
<1>4. ASSUME NEW s \in Signatures, NEW x \in Subjects
      PROVE  Matching(s) = {} /\ MatchesOf(s, x) = {} /\ Adding(s, x) = {}
  BY <1>2 DEF ThreatInit, Matching, MatchesOf, Adding
<1>5. \A s \in Signatures : together[s] = 0 /\ Matching(s) = {}
  BY <1>2 DEF ThreatInit, Matching
<1>6. RowsCounted
  BY <1>4, <1>5, FS_EmptySet DEF RowsCounted
<1> QED BY <1>1, <1>3, <1>6 DEF MatchInv

(* What requests that match nothing do, and requests that end.                *)
LEMMA OthersMove ==
  ASSUME MatchInv, UNCHANGED <<matches, together>>, call' \in [Callers -> CallStates],
         \A s \in matched', f \in Findings : MatchesOf(s, f) # {},
         \A d \in Callers : call'[d] = call[d] \/ call'[d].at \notin MatchAt
  PROVE  MatchInv'
<1>1. MatchTypes'
  BY DEF MatchInv, MatchTypes
<1>2. \A s, x : (MatchesOf(s, x))' = MatchesOf(s, x)
  BY DEF MatchesOf
<1>3. \A c \in Callers : TodoFits(c)' /\ TurnFits(c)' /\ FindingsFit(c)'
  <2> TAKE c \in Callers
  <2>1. CASE call'[c] = call[c]
    <3>1. Candidate(c)' = Candidate(c)
      BY <2>1 DEF Candidate, Turn
    <3> QED BY <1>2, <2>1, <3>1 DEF MatchInv, MatchFits, TodoFits, TurnFits, FindingsFit
  <2>2. CASE call'[c].at \notin MatchAt
    BY <2>2 DEF TodoFits, TurnFits, FindingsFit, MatchAt
  <2> QED BY <2>1, <2>2
<1>4. MatchFits'
  BY <1>2, <1>3 DEF MatchInv, MatchFits
<1>5. ASSUME NEW s \in Signatures
      PROVE  Cardinality(Matching(s)') <= together[s]
  <2>1. Matching(s)' \in SUBSET Matching(s)
    BY DEF Matching, MatchAt
  <2>2. Cardinality(Matching(s)') <= Cardinality(Matching(s))
    BY <2>1, FewerCallers DEF Matching
  <2>3. Cardinality(Matching(s)) \in Nat /\ Cardinality(Matching(s)') \in Nat
    BY <2>1, CallersFinite DEF Matching
  <2> QED BY <2>2, <2>3 DEF MatchInv, RowsCounted, MatchTypes
<1>6. ASSUME NEW s \in Signatures, NEW x \in Subjects
      PROVE  Cardinality(MatchesOf(s, x)) + Cardinality(Adding(s, x)') <= together[s]
  <2>1. Adding(s, x)' \in SUBSET Adding(s, x)
    BY DEF Adding, MatchAt, Candidate, Turn
  <2>2. Cardinality(Adding(s, x)') <= Cardinality(Adding(s, x))
    BY <2>1, FewerCallers DEF Adding
  <2>3. Cardinality(Adding(s, x)) \in Nat /\ Cardinality(Adding(s, x)') \in Nat
    BY <2>1, CallersFinite DEF Adding
  <2>4. Cardinality(MatchesOf(s, x)) \in Nat
    BY MatchesFinite DEF MatchInv, MatchTypes
  <2>5. Cardinality(MatchesOf(s, x)) + Cardinality(Adding(s, x)) <= together[s] /\ together[s] \in Nat
    BY DEF MatchInv, RowsCounted, MatchTypes
  <2> QED BY <2>2, <2>3, <2>4, <2>5
<1>7. RowsCounted'
  BY <1>2, <1>5, <1>6 DEF RowsCounted
<1> QED BY <1>1, <1>4, <1>7 DEF MatchInv

(* A request of a matching that goes on without writing.                      *)
LEMMA MatchingGoesOn ==
  ASSUME MatchInv, UNCHANGED <<matches, matched, together>>, NEW c \in Callers, call[c] \in MatchStates,
         NEW to \in MatchStates, Goto(c, to), to.signature = call[c].signature,
         TodoFits(c)', TurnFits(c)', FindingsFit(c)',
         to.at = "put" /\ to.id = 0 =>
           \A s, x : Same(Candidate(c)', About(s, x)) => MatchesOf(s, x) = {}
  PROVE  MatchInv'
<1>0. /\ call' \in [Callers -> CallStates] /\ call'[c] = to
      /\ \A d \in Callers \ {c} : call'[d] = call[d] /\ Candidate(d)' = Candidate(d)
  BY DEF MatchInv, MatchTypes, Goto, CallStates, Candidate, Turn
<1>1. MatchTypes'
  BY <1>0 DEF MatchInv, MatchTypes
<1>2. \A s, x : (MatchesOf(s, x))' = MatchesOf(s, x)
  BY DEF MatchesOf
<1>3. \A d \in Callers : TodoFits(d)' /\ TurnFits(d)' /\ FindingsFit(d)'
  <2> TAKE d \in Callers
  <2>1. CASE d # c
    BY <1>0, <1>2, <2>1 DEF MatchInv, MatchFits, TodoFits, TurnFits, FindingsFit
  <2> QED BY <2>1
<1>4. MatchFits'
  BY <1>2, <1>3 DEF MatchInv, MatchFits
<1>5. \A s \in Signatures : Matching(s)' = Matching(s)
  <2>1. call[c].at \in MatchAt /\ to.at \in MatchAt
    BY StateIs DEF CallStates
  <2> QED BY <1>0, <2>1 DEF Matching, MatchAt
<1>6. ASSUME NEW s \in Signatures, NEW x \in Subjects
      PROVE  Cardinality(MatchesOf(s, x)) + Cardinality(Adding(s, x)') <= together[s]
  <2>0. /\ Cardinality(MatchesOf(s, x)) \in Nat /\ together[s] \in Nat
        /\ Cardinality(MatchesOf(s, x)) + Cardinality(Adding(s, x)) <= together[s]
        /\ Cardinality(Matching(s)) <= together[s]
    BY MatchesFinite DEF MatchInv, RowsCounted, MatchTypes
  <2>f. /\ Matching(s) \in SUBSET Callers /\ Adding(s, x) \in SUBSET Callers
        /\ Adding(s, x)' \in SUBSET Callers
    BY DEF Matching, Adding
  <2>n. /\ Cardinality(Adding(s, x)) \in Nat /\ Cardinality(Adding(s, x)') \in Nat
        /\ Cardinality(Matching(s)) \in Nat
    BY <2>f, CallersFinite
  <2>1. CASE c \in Adding(s, x)'
    <3>1. MatchesOf(s, x) = {}
      BY <1>0, <2>1 DEF Adding
    <3>2. Adding(s, x)' \in SUBSET Matching(s)
      <4>1. MatchTypes' /\ \A d \in Callers : TodoFits(d)' /\ TurnFits(d)'
        BY <1>1, <1>3
      <4>2. Adding(s, x)' \subseteq Matching(s)'
        <5> SUFFICES ASSUME NEW d \in Adding(s, x)' PROVE d \in Matching(s)'
          OBVIOUS
        <5>1. d \in Callers /\ call'[d].at = "put" /\ Same(Candidate(d)', About(s, x))
          BY DEF Adding
        <5>2. call'[d] \in MatchStates
          BY <1>0, <5>1, StateIs DEF MatchAt
        <5>3. call'[d].todo \in Todos /\ DOMAIN call'[d].todo # {}
          BY <4>1, <5>1, <5>2 DEF MatchStates, TurnFits
        <5>4. Same(Candidate(d)', About(call'[d].signature, Order[Turn(d)']))
          <6>1. Turn(d)' \in DOMAIN call'[d].todo
            BY <5>3, FirstIs DEF Turn
          <6> QED BY <4>1, <5>1, <6>1 DEF TodoFits, Candidate
        <5> QED BY <5>1, <5>4 DEF Matching, Same, About
      <4> QED BY <1>5, <4>2
    <3>3. Cardinality(Adding(s, x)') <= Cardinality(Matching(s))
      BY <2>f, <3>2, FewerCallers
    <3>4. Cardinality(MatchesOf(s, x)) = 0
      BY <3>1, FS_EmptySet
    <3> QED BY <2>0, <2>n, <3>3, <3>4
  <2>2. CASE c \notin Adding(s, x)'
    <3>1. Adding(s, x)' \in SUBSET Adding(s, x)
      BY <1>0, <2>2 DEF Adding
    <3>2. Cardinality(Adding(s, x)') <= Cardinality(Adding(s, x))
      BY <2>f, <3>1, FewerCallers
    <3> QED BY <2>0, <2>n, <3>2
  <2> QED BY <2>1, <2>2
<1>7. RowsCounted'
  BY <1>2, <1>5, <1>6 DEF MatchInv, RowsCounted
<1> QED BY <1>1, <1>4, <1>7 DEF MatchInv

LEMMA ScanIsRead == ASSUME MatchInv, NEW c \in Callers, scanForMatching(c) PROVE MatchInv'
<1>1. call[c] \in [at : {"match"}, signature : Signatures]
  <2>1. call[c] \in CallStates /\ call[c].at = "match"
    BY DEF MatchInv, MatchTypes, scanForMatching
  <2> QED BY <2>1, StateIs DEF MatchAt, MatchStates
<1>2. PICK s \in Signatures : s = call[c].signature
  BY <1>1
<1>3. PICK t : t = evaluateSignatureAgainstScan(s)
  OBVIOUS
<1>4. /\ t \in Todos /\ \A i \in DOMAIN t : Same(t[i], About(s, Order[i]))
      /\ \A f \in Findings : \E i \in DOMAIN t : Order[i] = f
  BY <1>3, EvaluationIs
<1>5. PICK to : to = [at |-> "pay", signature |-> s, todo |-> t]
  OBVIOUS
<1>6. to \in MatchStates /\ call[c] \in MatchStates
  BY <1>1, <1>4, <1>5 DEF MatchStates
<1>7. Goto(c, to) /\ UNCHANGED <<matches, matched, together>>
  BY <1>2, <1>3, <1>5 DEF scanForMatching, matchVars
<1>8. call'[c] = to
  BY <1>7 DEF MatchInv, MatchTypes, Goto
<1>9. TodoFits(c)' /\ TurnFits(c)' /\ FindingsFit(c)'
  BY <1>4, <1>5, <1>8 DEF TodoFits, TurnFits, FindingsFit
<1> QED BY <1>2, <1>5, <1>6, <1>7, <1>9, MatchingGoesOn

LEMMA OneIsPaid == ASSUME MatchInv, NEW c \in Callers, assertAndConsume(c) PROVE MatchInv'
<1>1. call[c] \in [at : {"pay", "find"}, signature : Signatures, todo : Todos] /\ DOMAIN call[c].todo # {}
  <2>1. call[c] \in CallStates /\ call[c].at = "pay"
    BY DEF MatchInv, MatchTypes, assertAndConsume
  <2> QED BY <2>1, StateIs DEF MatchAt, MatchStates, assertAndConsume
<1>5. PICK to : to = [call[c] EXCEPT !.at = "find"]
  OBVIOUS
<1>6. /\ to \in MatchStates /\ call[c] \in MatchStates /\ to.at = "find"
      /\ to.signature = call[c].signature /\ to.todo = call[c].todo
  BY <1>1, <1>5 DEF MatchStates
<1>7. Goto(c, to) /\ UNCHANGED <<matches, matched, together>>
  BY <1>5 DEF assertAndConsume, matchVars
<1>8. call'[c] = to
  BY <1>7 DEF MatchInv, MatchTypes, Goto
<1>9. TodoFits(c)' /\ TurnFits(c)' /\ FindingsFit(c)'
  <2>1. TodoFits(c) /\ FindingsFit(c) /\ call[c].at \in {"pay", "find"}
    BY <1>1 DEF MatchInv, MatchFits
  <2> QED BY <1>1, <1>6, <1>7, <1>8, <2>1 DEF TodoFits, TurnFits, FindingsFit, MatchesOf
<1> QED BY <1>6, <1>7, <1>9, MatchingGoesOn

LEMMA RowIsSought == ASSUME MatchInv, NEW c \in Callers, findMatch(c) PROVE MatchInv'
<1>1. call[c] \in [at : {"pay", "find"}, signature : Signatures, todo : Todos] /\ DOMAIN call[c].todo # {}
  <2>1. call[c] \in CallStates /\ call[c].at = "find"
    BY DEF MatchInv, MatchTypes, findMatch
  <2> QED BY <2>1, StateIs DEF MatchInv, MatchFits, MatchAt, MatchStates, TurnFits
<1> DEFINE there == {i \in DOMAIN matches : Same(matches[i], Candidate(c))}
<1>2. PICK i \in IF there = {} THEN {0} ELSE there :
        Goto(c, [at |-> "put", signature |-> call[c].signature, todo |-> call[c].todo, id |-> i])
  BY DEF findMatch, KeyOfMatch
<1>3. i \in Nat /\ (i = 0 <=> there = {}) /\ (i # 0 => i \in there)
  <2>1. DOMAIN matches = 1 .. Len(matches) /\ Len(matches) \in Nat
    BY LenProperties DEF MatchInv, MatchTypes
  <2> QED BY <2>1
<1>5. PICK to : to = [at |-> "put", signature |-> call[c].signature, todo |-> call[c].todo, id |-> i]
  OBVIOUS
<1>6. to \in MatchStates /\ call[c] \in MatchStates
  BY <1>1, <1>3, <1>5 DEF MatchStates
<1>7. Goto(c, to) /\ UNCHANGED <<matches, matched, together>>
  BY <1>2, <1>5 DEF findMatch, matchVars
<1>8. call'[c] = to
  BY <1>7 DEF MatchInv, MatchTypes, Goto
<1>a. Candidate(c)' = Candidate(c)
  BY <1>5, <1>8 DEF Candidate, Turn
<1>9. TodoFits(c)' /\ TurnFits(c)' /\ FindingsFit(c)'
  <2>1. TodoFits(c) /\ FindingsFit(c) /\ call[c].at \in {"pay", "find"}
    BY <1>1 DEF MatchInv, MatchFits
  <2> QED BY <1>1, <1>3, <1>5, <1>7, <1>8, <1>a, <2>1 DEF TodoFits, TurnFits, FindingsFit, MatchesOf
<1>b. to.id = 0 => \A s, x : Same(Candidate(c)', About(s, x)) => MatchesOf(s, x) = {}
  BY <1>3, <1>5, <1>a DEF Same, MatchesOf, About
<1> QED BY <1>5, <1>6, <1>7, <1>9, <1>b, MatchingGoesOn

(* A row is written: it stays of its signature and what it is about.          *)
LEMMA RowIsWritten == ASSUME MatchInv, NEW c \in Callers, putMatch(c) PROVE MatchInv'
<1>1. call[c] \in [at : {"put"}, signature : Signatures, todo : Todos, id : Nat] /\ DOMAIN call[c].todo # {}
  <2>1. call[c] \in CallStates /\ call[c].at = "put"
    BY DEF MatchInv, MatchTypes, putMatch
  <2> QED BY <2>1, StateIs DEF MatchInv, MatchFits, MatchAt, MatchStates, TurnFits
<1>2. PICK row : row = Candidate(c)
  OBVIOUS
<1>3. PICK k : k = Turn(c)
  OBVIOUS
<1>4. PICK q : q = call[c]
  OBVIOUS
<1>5. /\ q.signature \in Signatures /\ q.todo \in Todos /\ q.id \in Nat /\ q.at = "put"
      /\ k \in DOMAIN q.todo /\ row = q.todo[k] /\ row \in Matched
      /\ Same(row, About(q.signature, Order[k])) /\ k \in DOMAIN Order /\ Order[k] \in Subjects
  <2>1. k \in DOMAIN q.todo /\ row \in Matched /\ row = q.todo[k]
    BY <1>1, <1>2, <1>3, <1>4, TurnIs DEF Candidate
  <2>2. TodoFits(c)
    BY DEF MatchInv, MatchFits
  <2>3. k \in DOMAIN Order
    BY <1>1, <1>4, <2>1, TodoIs
  <2> QED BY <1>1, <1>4, <2>1, <2>2, <2>3, OrderIs DEF TodoFits
<1>6. PICK rest : rest = Restrict(q.todo, DOMAIN q.todo \ {k})
  OBVIOUS
<1>7. /\ rest \in Todos /\ DOMAIN rest = DOMAIN q.todo \ {k} /\ \A i \in DOMAIN rest : rest[i] = q.todo[i]
  <2>1. DOMAIN q.todo \ {k} \in SUBSET (DOMAIN q.todo)
    OBVIOUS
  <2> QED BY <1>5, <1>6, <2>1, TodoIs DEF Restrict
<1>8. PICK to : to = [at |-> "pay", signature |-> q.signature, todo |-> rest]
  OBVIOUS
<1>9. to \in MatchStates
  BY <1>5, <1>7, <1>8 DEF MatchStates
<1>10. /\ Goto(c, to) /\ UNCHANGED <<matched, together>>
       /\ matches' = IF q.id = 0 THEN Append(matches, row) ELSE [matches EXCEPT ![q.id] = row]
  BY <1>2, <1>3, <1>4, <1>6, <1>8 DEF putMatch
<1>11. /\ call' \in [Callers -> CallStates] /\ call'[c] = to
       /\ \A d \in Callers \ {c} : call'[d] = call[d] /\ Candidate(d)' = Candidate(d)
  BY <1>9, <1>10 DEF MatchInv, MatchTypes, Goto, CallStates, Candidate, Turn
<1>12. /\ matches \in Seq(Matched) /\ Len(matches) \in Nat /\ DOMAIN matches = 1 .. Len(matches)
  BY LenProperties DEF MatchInv, MatchTypes
<1>13. q.id # 0 => q.id \in DOMAIN matches /\ Same(matches[q.id], row)
  BY <1>2, <1>4, <1>5 DEF MatchInv, MatchFits, TurnFits
<1>14. /\ matches' \in Seq(Matched)
       /\ DOMAIN matches \subseteq DOMAIN matches'
       /\ q.id # 0 => DOMAIN matches' = DOMAIN matches
       /\ q.id = 0 => DOMAIN matches' = DOMAIN matches \cup {Len(matches) + 1} /\ matches'[Len(matches) + 1] = row
       /\ \A i \in DOMAIN matches : Same(matches'[i], matches[i])
       /\ q.id # 0 => matches'[q.id] = row
  <2>1. CASE q.id = 0
    <3>1. /\ matches' = Append(matches, row) /\ Append(matches, row) \in Seq(Matched)
          /\ DOMAIN matches' = 1 .. Len(matches) + 1
          /\ \A i \in 1 .. Len(matches) : matches'[i] = matches[i]
          /\ matches'[Len(matches) + 1] = row
      BY <1>5, <1>10, <1>12, <2>1
    <3> QED BY <1>12, <2>1, <3>1 DEF Same
  <2>2. CASE q.id # 0
    <3>1. matches' = [matches EXCEPT ![q.id] = row]
      BY <1>10, <2>2
    <3>2. q.id \in 1 .. Len(matches)
      BY <1>12, <1>13, <2>2
    <3>3. matches' \in Seq(Matched) /\ Len(matches') = Len(matches)
      BY <1>5, <1>12, <3>1, <3>2, ExceptSeq
    <3>4. DOMAIN matches' = DOMAIN matches
      BY <1>12, <3>1
    <3>5. \A i \in DOMAIN matches : matches'[i] = IF i = q.id THEN row ELSE matches[i]
      BY <3>1
    <3> QED BY <1>12, <1>13, <2>2, <3>2, <3>3, <3>4, <3>5 DEF Same
  <2> QED BY <2>1, <2>2
<1>15. \A s, x : MatchesOf(s, x)' = IF q.id = 0 /\ Same(row, About(s, x))
                                     THEN MatchesOf(s, x) \cup {Len(matches) + 1} ELSE MatchesOf(s, x)
  <2> TAKE s, x
  <2>1. \A i \in DOMAIN matches : Same(matches'[i], About(s, x)) <=> Same(matches[i], About(s, x))
    BY <1>14 DEF Same
  <2>2. CASE q.id = 0
    BY <1>12, <1>14, <2>1, <2>2 DEF MatchesOf
  <2>3. CASE q.id # 0
    BY <1>14, <2>1, <2>3 DEF MatchesOf
  <2> QED BY <2>2, <2>3
<1>16. MatchTypes'
  BY <1>10, <1>11, <1>14 DEF MatchInv, MatchTypes
<1>17. MatchesOf(q.signature, Order[k])' # {}
  <2>1. CASE q.id = 0
    BY <1>5, <1>15, <2>1
  <2>2. CASE q.id # 0
    <3>1. q.id \in MatchesOf(q.signature, Order[k])
      BY <1>5, <1>13, <2>2 DEF MatchesOf, Same
    <3> QED BY <1>15, <3>1
  <2> QED BY <2>1, <2>2
<1>18. ASSUME NEW d \in Callers PROVE TodoFits(d)' /\ TurnFits(d)' /\ FindingsFit(d)'
  <2>0. \A s, x : MatchesOf(s, x) # {} => MatchesOf(s, x)' # {}
    BY <1>15
  <2>1. CASE d = c
    <3>1. TodoFits(c) /\ FindingsFit(c)
      BY DEF MatchInv, MatchFits
    <3>2. TodoFits(c)' /\ TurnFits(c)'
      BY <1>4, <1>5, <1>7, <1>8, <1>11, <3>1 DEF TodoFits, TurnFits
    <3>3. ASSUME NEW f \in Findings
          PROVE  MatchesOf(q.signature, f)' # {} \/ \E i \in DOMAIN rest : Order[i] = f
      <4>1. MatchesOf(q.signature, f) # {} \/ \E i \in DOMAIN q.todo : Order[i] = f
        BY <1>4, <1>5, <3>1 DEF FindingsFit
      <4> QED BY <1>7, <1>17, <2>0, <4>1
    <3>4. FindingsFit(c)'
      BY <1>8, <1>11, <3>3 DEF FindingsFit
    <3> QED BY <2>1, <3>2, <3>4
  <2>2. CASE d # c
    <3>1. TodoFits(d) /\ TurnFits(d) /\ FindingsFit(d) /\ call'[d] = call[d] /\ Candidate(d)' = Candidate(d)
      BY <1>11, <2>2 DEF MatchInv, MatchFits
    <3>2. TodoFits(d)'
      BY <3>1 DEF TodoFits
    <3>3. TurnFits(d)'
      BY <1>14, <3>1 DEF TurnFits, Same
    <3>4. FindingsFit(d)'
      BY <2>0, <3>1 DEF FindingsFit
    <3> QED BY <3>2, <3>3, <3>4
  <2> QED BY <2>1, <2>2
<1>19. MatchFits'
  BY <1>10, <1>15, <1>18 DEF MatchInv, MatchFits
<1>20. \A s \in Signatures : Matching(s)' = Matching(s)
  BY <1>4, <1>5, <1>8, <1>11 DEF Matching
<1>21. ASSUME NEW s \in Signatures, NEW x \in Subjects
       PROVE  Cardinality(MatchesOf(s, x)') + Cardinality(Adding(s, x)') <= together[s]
  <2>0. /\ Cardinality(MatchesOf(s, x)) \in Nat /\ together[s] \in Nat /\ IsFiniteSet(MatchesOf(s, x))
        /\ Cardinality(MatchesOf(s, x)) + Cardinality(Adding(s, x)) <= together[s]
    BY MatchesFinite DEF MatchInv, RowsCounted, MatchTypes
  <2>f. Adding(s, x) \in SUBSET Callers /\ IsFiniteSet(Adding(s, x)) /\ Cardinality(Adding(s, x)) \in Nat
    BY CallersFinite DEF Adding
  <2>1. Adding(s, x)' = Adding(s, x) \ {c}
    BY <1>8, <1>11 DEF Adding
  <2>2. Cardinality(Adding(s, x)') = IF c \in Adding(s, x) THEN Cardinality(Adding(s, x)) - 1
                                      ELSE Cardinality(Adding(s, x))
    BY <2>1, <2>f, FS_RemoveElement
  <2>3. c \in Adding(s, x) <=> q.id = 0 /\ Same(row, About(s, x))
    BY <1>2, <1>4, <1>5 DEF Adding
  <2>4. CASE q.id = 0 /\ Same(row, About(s, x))
    <3>1. Len(matches) + 1 \notin MatchesOf(s, x)
      BY <1>12 DEF MatchesOf
    <3>2. Cardinality(MatchesOf(s, x)') = Cardinality(MatchesOf(s, x)) + 1
      BY <1>15, <2>0, <2>4, <3>1, FS_AddElement
    <3> QED BY <2>0, <2>2, <2>3, <2>4, <2>f, <3>2
  <2>5. CASE ~(q.id = 0 /\ Same(row, About(s, x)))
    BY <1>15, <2>0, <2>2, <2>3, <2>5, <2>f
  <2> QED BY <2>4, <2>5
<1>22. RowsCounted'
  BY <1>10, <1>20, <1>21 DEF MatchInv, RowsCounted
<1> QED BY <1>16, <1>19, <1>22 DEF MatchInv

LEMMA MatchingBegins ==
  ASSUME MatchInv, NEW c \in Callers, NEW s \in Signatures, matchSignatureToScan(c, s)
  PROVE  MatchInv'
<1>1. PICK to : to = [at |-> "match", signature |-> s]
  OBVIOUS
<1>2. /\ to \in CallStates /\ to.at = "match" /\ call[c].at = "idle"
      /\ UNCHANGED <<matches, matched>> /\ Goto(c, to)
  BY <1>1 DEF CallStates, MatchStates, matchSignatureToScan, Idle
<1>3. /\ call' \in [Callers -> CallStates] /\ call'[c] = to
      /\ \A d \in Callers \ {c} : call'[d] = call[d] /\ Candidate(d)' = Candidate(d)
  BY <1>2 DEF MatchInv, MatchTypes, Goto, CallStates, Candidate, Turn
<1>4. /\ Matching(s) \in SUBSET Callers /\ IsFiniteSet(Matching(s)) /\ Cardinality(Matching(s)) \in Nat
      /\ together[s] \in Nat
  BY CallersFinite DEF Matching, MatchInv, MatchTypes
<1>5. PICK n \in Nat : n = Max({together[s], Cardinality(Matching(s)) + 1})
  BY <1>4, MaxIs
<1>6. n >= together[s] /\ n >= Cardinality(Matching(s)) + 1
  BY <1>4, <1>5, MaxIs
<1>7. together' = [together EXCEPT ![s] = n]
  BY <1>5 DEF matchSignatureToScan
<1>8. MatchTypes'
  BY <1>2, <1>3, <1>7 DEF MatchInv, MatchTypes
<1>9. \A r, x : MatchesOf(r, x)' = MatchesOf(r, x)
  BY <1>2 DEF MatchesOf
<1>10. MatchFits'
  <2>1. ASSUME NEW d \in Callers PROVE TodoFits(d)' /\ TurnFits(d)' /\ FindingsFit(d)'
    <3>1. CASE d = c
      BY <1>2, <1>3, <3>1 DEF TodoFits, TurnFits, FindingsFit
    <3>2. CASE d # c
      BY <1>2, <1>3, <1>9, <3>2 DEF MatchInv, MatchFits, TodoFits, TurnFits, FindingsFit
    <3> QED BY <3>1, <3>2
  <2> QED BY <1>2, <1>9, <2>1 DEF MatchInv, MatchFits
<1>11. \A r \in Signatures, x \in Subjects : Adding(r, x)' = Adding(r, x)
  BY <1>2, <1>3 DEF Adding
<1>12. ASSUME NEW r \in Signatures PROVE Cardinality(Matching(r)') <= together'[r] /\ together[r] <= together'[r]
  <2>0. together[r] \in Nat /\ Cardinality(Matching(r)) <= together[r]
    BY DEF MatchInv, MatchTypes, RowsCounted
  <2>1. CASE r = s
    <3>1. Matching(s)' = Matching(s) \cup {c}
      BY <1>1, <1>3 DEF Matching
    <3>2. Cardinality(Matching(s)') <= Cardinality(Matching(s)) + 1
      BY <1>4, <3>1, FS_AddElement
    <3>3. IsFiniteSet(Matching(s)') /\ Cardinality(Matching(s)') \in Nat
      BY <1>4, <3>1, FS_AddElement, FS_CardinalityType
    <3>4. together'[s] = n
      BY <1>7 DEF MatchInv, MatchTypes
    <3> QED BY <1>4, <1>6, <2>1, <3>2, <3>3, <3>4
  <2>2. CASE r # s
    <3>1. Matching(r)' = Matching(r)
      BY <1>1, <1>2, <1>3, <2>2 DEF Matching
    <3>2. together'[r] = together[r]
      BY <1>7, <2>2 DEF MatchInv, MatchTypes
    <3> QED BY <2>0, <3>1, <3>2
  <2> QED BY <2>1, <2>2
<1>13. ASSUME NEW r \in Signatures, NEW x \in Subjects
       PROVE  Cardinality(MatchesOf(r, x)') + Cardinality(Adding(r, x)') <= together'[r]
  <2>1. /\ Cardinality(MatchesOf(r, x)) \in Nat /\ together[r] \in Nat
        /\ Cardinality(MatchesOf(r, x)) + Cardinality(Adding(r, x)) <= together[r]
    BY MatchesFinite DEF MatchInv, RowsCounted, MatchTypes
  <2>2. Cardinality(Adding(r, x)) \in Nat
    BY CallersFinite DEF Adding
  <2>3. together'[r] \in Nat
    BY <1>8 DEF MatchTypes
  <2> QED BY <1>9, <1>11, <1>12, <2>1, <2>2, <2>3
<1>14. RowsCounted'
  BY <1>12, <1>13 DEF RowsCounted
<1> QED BY <1>8, <1>10, <1>14 DEF MatchInv

LEMMA MatchingEnds == ASSUME MatchInv, NEW c \in Callers, MatchRevision(c) PROVE MatchInv'
<1>1. /\ call[c].at = "pay" /\ DOMAIN call[c].todo = {} /\ matched' = matched \cup {call[c].signature}
      /\ Goto(c, Idle) /\ UNCHANGED <<matches, together>>
  BY DEF MatchRevision
<1>2. \A s \in matched', f \in Findings : MatchesOf(s, f) # {}
  BY <1>1 DEF MatchInv, MatchFits, FindingsFit
<1>3. /\ call' \in [Callers -> CallStates]
      /\ \A d \in Callers : call'[d] = call[d] \/ call'[d].at \notin MatchAt
  BY <1>1 DEF MatchInv, MatchTypes, Goto, CallStates, Idle, MatchAt
<1> QED BY <1>1, <1>2, <1>3, OthersMove

-----------------------------------------------------------------------------
(* Threat knowledge: what else is in its rows.                                *)

Metrics == [snapshot : Snapshots, met : Nat]
Entries == [shape : Shapes, rows : Seq(RowKinds), cut : BOOLEAN]

ThreatTypes ==
  /\ call \in [Callers -> CallStates]
  /\ feedback \in Seq(Findings) /\ metrics \in Seq(Metrics) /\ unmeasured \in Nat
  /\ entries \in Seq(Entries) /\ known \subseteq Signatures

LEMMA FindingsFinite ==
  ASSUME NEW S \in SUBSET Findings
  PROVE  IsFiniteSet(S) /\ Cardinality(S) \in Nat
<1>1. FindingOrder \in Seq(Findings)
  BY ThreatAssumption
<1>2. DOMAIN FindingOrder = 1 .. Len(FindingOrder) /\ Len(FindingOrder) \in Nat
  BY <1>1, LenProperties
<1>3. FindingOrder \in Surjection(1 .. Len(FindingOrder), Findings)
  <2>1. FindingOrder \in [1 .. Len(FindingOrder) -> Findings]
    BY <1>1, LenProperties
  <2>2. \A f \in Findings : \E i \in 1 .. Len(FindingOrder) : FindingOrder[i] = f
    BY <1>2 DEF Findings, ToSet
  <2> QED BY <2>1, <2>2 DEF Surjection
<1>4. IsFiniteSet(Findings)
  <2>1. IsFiniteSet(1 .. Len(FindingOrder))
    BY <1>2, FS_Interval
  <2> QED BY <1>3, <2>1, FS_Surjection
<1> QED BY <1>4, FS_Subset, FS_CardinalityType

LEMMA ReportsFinite ==
  ASSUME feedback \in Seq(Findings), NEW S
  PROVE  IsFiniteSet(Reports(S)) /\ Cardinality(Reports(S)) \in Nat
<1>1. Len(feedback) \in Nat /\ DOMAIN feedback = 1 .. Len(feedback)
  BY LenProperties
<1>2. IsFiniteSet(1 .. Len(feedback))
  BY <1>1, FS_Interval
<1>3. Reports(S) \in SUBSET (1 .. Len(feedback))
  BY <1>1 DEF Reports
<1> QED BY <1>2, <1>3, FS_Subset, FS_CardinalityType

LEMMA SnapshotIs ==
  ASSUME feedback \in Seq(Findings), NEW rule \in Rules, NEW x, x = computePrecisionSnapshot(rule)
  PROVE  x \in Snapshots /\ x.rule = rule /\ x.reports = Cardinality(Reports(Of(rule)))
<1>1. PICK S \in SUBSET Findings : S = findingsForPrecision(rule)
  BY DEF findingsForPrecision
<1>2. PICK a : a = Cardinality({f \in S : verdict[f] = "ACCEPTED"})
  OBVIOUS
<1>3. PICK b : b = Cardinality({f \in S : "reproduced" \in proof[f]})
  OBVIOUS
<1>4. PICK d : d = Cardinality({f \in S : "broken" \in proof[f]})
  OBVIOUS
<1>5. PICK g : g = Cardinality({f \in S : verdict[f] = "FALSE_POSITIVE"})
  OBVIOUS
<1>6. PICK h : h = Cardinality({f \in S : f \in doubted})
  OBVIOUS
<1>7. a \in Nat /\ b \in Nat /\ d \in Nat /\ g \in Nat /\ h \in Nat
  BY <1>2, <1>3, <1>4, <1>5, <1>6, FindingsFinite
<1>8. Cardinality(Reports(S)) \in Nat /\ Cardinality(Reports(Of(rule))) \in Nat
  BY ReportsFinite
<1>9. x = [rule |-> rule, truePositives |-> a + b + d, falsePositives |-> g + h + Cardinality(Reports(S)),
           reports |-> Cardinality(Reports(Of(rule)))]
  BY <1>1, <1>2, <1>3, <1>4, <1>5, <1>6, Zenon DEF computePrecisionSnapshot
<1> QED BY <1>7, <1>8, <1>9 DEF Snapshots

LEMMA CopiesAre ==
  ASSUME NEW n \in Nat, NEW row \in RowKinds
  PROVE  /\ Copies(n, row) \in Seq(RowKinds) /\ Len(Copies(n, row)) = n
         /\ \A i \in 1 .. n : Copies(n, row)[i] = row
<1>1. PICK s : s = [i \in 1 .. n |-> row]
  OBVIOUS
<1>2. s \in [1 .. n -> RowKinds] /\ DOMAIN s = 1 .. n /\ \A i \in 1 .. n : s[i] = row
  BY <1>1
<1>3. s \in Seq(RowKinds)
  BY <1>2
<1>4. Len(s) = n
  BY <1>2, <1>3, LenProperties
<1> QED BY <1>1, <1>2, <1>3, <1>4 DEF Copies

-----------------------------------------------------------------------------
(* Threat knowledge: what the plan of a request holds, and in what order.     *)

Has(s, a) == \E i \in DOMAIN s : s[i] = a
Before(s, a, b) == \A i, j \in DOMAIN s : s[i] = a /\ s[j] = b => i < j

LEMMA CountFinite ==
  ASSUME NEW s \in Seq(RowKinds), NEW a
  PROVE  /\ IsFiniteSet({i \in DOMAIN s : s[i] = a}) /\ Count(s, a) \in Nat
         /\ Count(s, a) > 0 <=> Has(s, a)
<1> DEFINE S == {i \in DOMAIN s : s[i] = a}
<1>1. DOMAIN s = 1 .. Len(s) /\ Len(s) \in Nat
  BY LenProperties
<1>2. IsFiniteSet(S) /\ Cardinality(S) \in Nat
  <2>1. IsFiniteSet(1 .. Len(s)) /\ S \in SUBSET (1 .. Len(s))
    BY <1>1, FS_Interval
  <2> QED BY <2>1, FS_Subset, FS_CardinalityType
<1>3. Cardinality(S) = 0 <=> S = {}
  BY <1>2, FS_EmptySet
<1>4. S # {} <=> Has(s, a)
  BY DEF Has
<1>5. Count(s, a) = Cardinality(S)
  BY DEF Count
<1> HIDE DEF S
<1> QED BY <1>2, <1>3, <1>4, <1>5 DEF S

LEMMA ConcatIs ==
  ASSUME NEW s \in Seq(RowKinds), NEW t \in Seq(RowKinds), NEW a
  PROVE  /\ s \o t \in Seq(RowKinds)
         /\ Count(s \o t, a) = Count(s, a) + Count(t, a)
         /\ Has(s \o t, a) <=> Has(s, a) \/ Has(t, a)
         /\ \A b : Before(s, a, b) /\ Before(t, a, b) /\ ~(Has(s, b) /\ Has(t, a)) => Before(s \o t, a, b)
<1> DEFINE n == Len(s)
           S == {i \in DOMAIN s : s[i] = a}
           T == {i \in DOMAIN t : t[i] = a}
           M == {n + i : i \in T}
<1>1. /\ DOMAIN s = 1 .. n /\ n \in Nat /\ DOMAIN t = 1 .. Len(t) /\ Len(t) \in Nat
  BY LenProperties
<1>2. /\ s \o t \in Seq(RowKinds) /\ DOMAIN (s \o t) = 1 .. n + Len(t)
      /\ \A i \in 1 .. n : (s \o t)[i] = s[i]
      /\ \A i \in 1 .. Len(t) : (s \o t)[n + i] = t[i]
  <2>1. /\ s \o t \in Seq(RowKinds) /\ Len(s \o t) = n + Len(t)
        /\ \A i \in 1 .. n + Len(t) : (s \o t)[i] = IF i <= n THEN s[i] ELSE t[i - n]
    BY ConcatProperties
  <2>2. DOMAIN (s \o t) = 1 .. n + Len(t)
    BY <2>1, LenProperties
  <2>3. \A i \in 1 .. n : (s \o t)[i] = s[i]
    BY <1>1, <2>1
  <2>4. ASSUME NEW i \in 1 .. Len(t) PROVE (s \o t)[n + i] = t[i]
    <3>1. n + i \in 1 .. n + Len(t) /\ ~(n + i <= n) /\ (n + i) - n = i
      BY <1>1
    <3> QED BY <2>1, <3>1
  <2> QED BY <2>1, <2>2, <2>3, <2>4
<1>3. {i \in DOMAIN (s \o t) : (s \o t)[i] = a} = S \cup M
  <2>1. ASSUME NEW i \in DOMAIN (s \o t), (s \o t)[i] = a PROVE i \in S \cup M
    <3>1. CASE i <= n
      <4>1. i \in DOMAIN s
        BY <1>1, <1>2, <3>1
      <4> QED BY <1>1, <1>2, <2>1, <4>1
    <3>2. CASE ~(i <= n)
      <4>1. i - n \in 1 .. Len(t) /\ n + (i - n) = i
        BY <1>1, <1>2, <3>2
      <4> QED BY <1>1, <1>2, <2>1, <4>1
    <3> QED BY <3>1, <3>2
  <2>2. ASSUME NEW i \in S \cup M PROVE i \in DOMAIN (s \o t) /\ (s \o t)[i] = a
    BY <1>1, <1>2, <2>2
  <2> QED BY <2>1, <2>2
<1>4. IsFiniteSet(S) /\ IsFiniteSet(T) /\ Cardinality(S) = Count(s, a) /\ Cardinality(T) = Count(t, a)
  BY CountFinite DEF Count
<1>5. IsFiniteSet(M) /\ Cardinality(M) = Cardinality(T)
  <2> DEFINE f == [i \in T |-> n + i]
  <2>0. T \subseteq Nat /\ n \in Nat
    BY <1>1
  <2>3. /\ f \in [T -> M] /\ \A i \in T : f[i] = n + i
    OBVIOUS
  <2>4. \A i, j \in T : f[i] = f[j] => i = j
    <3>1. \A i, j \in T : n + i = n + j => i = j
      BY <2>0
    <3> QED BY <2>3, <3>1
  <2>5. \A m \in M : \E i \in T : f[i] = m
    BY <2>3
  <2> HIDE DEF f, T, M
  <2>1. f \in Bijection(T, M)
    BY <2>3, <2>4, <2>5 DEF Bijection, Injection, Surjection, IsInjective
  <2>2. ExistsBijection(T, M)
    BY <2>1 DEF ExistsBijection
  <2> QED BY <1>4, <2>2, FS_Bijection
<1>6. S \cap M = {}
  BY <1>1
<1>7. Cardinality(S) \in Nat /\ Cardinality(T) \in Nat
  BY <1>4, FS_CardinalityType
<1>8. Count(s \o t, a) = Count(s, a) + Count(t, a)
  <2>1. Cardinality(S \cup M) = Cardinality(S) + Cardinality(M) - Cardinality(S \cap M)
    BY <1>4, <1>5, FS_Union
  <2>2. Cardinality(S \cap M) = 0
    BY <1>6, FS_EmptySet
  <2>3. Count(s \o t, a) = Cardinality(S \cup M)
    BY <1>3 DEF Count
  <2> HIDE DEF S, T, M
  <2> QED BY <1>4, <1>5, <1>7, <2>1, <2>2, <2>3
<1>9. Has(s \o t, a) <=> Has(s, a) \/ Has(t, a)
  <2>1. Has(s \o t, a) <=> S \cup M # {}
    BY <1>3 DEF Has
  <2>2. (Has(s, a) <=> S # {}) /\ (Has(t, a) <=> M # {})
    BY DEF Has
  <2> QED BY <2>1, <2>2
<1>10. ASSUME NEW b, Before(s, a, b), Before(t, a, b), ~(Has(s, b) /\ Has(t, a)) PROVE Before(s \o t, a, b)
  <2> SUFFICES ASSUME NEW i \in DOMAIN (s \o t), NEW j \in DOMAIN (s \o t), (s \o t)[i] = a, (s \o t)[j] = b
               PROVE  i < j
    BY DEF Before
  <2>1. CASE i <= n /\ j <= n
    <3>1. i \in DOMAIN s /\ j \in DOMAIN s /\ s[i] = a /\ s[j] = b
      BY <1>1, <1>2, <2>1
    <3> QED BY <1>10, <3>1 DEF Before
  <2>2. CASE i <= n /\ ~(j <= n)
    BY <1>1, <1>2, <2>2
  <2>3. CASE ~(i <= n) /\ j <= n
    <3>1. /\ j \in DOMAIN s /\ s[j] = b /\ i - n \in DOMAIN t /\ n + (i - n) = i
      BY <1>1, <1>2, <2>3
    <3>2. t[i - n] = a
      BY <1>1, <1>2, <3>1
    <3> QED BY <1>10, <3>1, <3>2 DEF Has
  <2>4. CASE ~(i <= n) /\ ~(j <= n)
    <3>0. i \in 1 .. n + Len(t) /\ j \in 1 .. n + Len(t) /\ i > n /\ j > n
      BY <1>1, <1>2, <2>4
    <3>1. /\ i - n \in DOMAIN t /\ n + (i - n) = i /\ j - n \in DOMAIN t /\ n + (j - n) = j
      BY <1>1, <3>0
    <3>2. t[i - n] = a /\ t[j - n] = b
      BY <1>1, <1>2, <3>1
    <3>3. i - n < j - n
      BY <1>10, <3>1, <3>2 DEF Before
    <3> QED BY <1>1, <1>2, <3>3
  <2> QED BY <2>1, <2>2, <2>3, <2>4
<1> QED BY <1>2, <1>8, <1>9, <1>10

(* What n copies of `row` come to for the rows `a`.                           *)
Share(a, row, n) == IF a = row THEN n ELSE 0

LEMMA CopiesHold ==
  ASSUME NEW n \in Nat, NEW row \in RowKinds, NEW a
  PROVE  /\ Copies(n, row) \in Seq(RowKinds) /\ Share(a, row, n) \in Nat
         /\ Count(Copies(n, row), a) = Share(a, row, n)
         /\ \A b : a # b => Before(Copies(n, row), a, b)
<1>1. /\ Copies(n, row) \in Seq(RowKinds) /\ DOMAIN Copies(n, row) = 1 .. n
      /\ \A i \in 1 .. n : Copies(n, row)[i] = row
  BY CopiesAre, LenProperties
<1>3. \A b : a # b => Before(Copies(n, row), a, b)
  BY <1>1 DEF Before
<1>4. Count(Copies(n, row), a) = Share(a, row, n)
  <2>1. CASE a = row
    <3>1. {i \in DOMAIN Copies(n, row) : Copies(n, row)[i] = a} = 1 .. n
      BY <1>1, <2>1
    <3>2. Cardinality(1 .. n) = n
      BY FS_Interval
    <3> QED BY <2>1, <3>1, <3>2 DEF Count, Share
  <2>2. CASE a # row
    <3>1. {i \in DOMAIN Copies(n, row) : Copies(n, row)[i] = a} = {}
      BY <1>1, <2>2
    <3> QED BY <2>2, <3>1, FS_EmptySet DEF Count, Share
  <2> QED BY <2>1, <2>2
<1> QED BY <1>1, <1>3, <1>4 DEF Share

LEMMA OneHolds ==
  ASSUME NEW row \in RowKinds, NEW a
  PROVE  /\ <<row>> \in Seq(RowKinds) /\ Share(a, row, 1) \in Nat
         /\ Count(<<row>>, a) = Share(a, row, 1)
         /\ \A b : a # b => Before(<<row>>, a, b)
<1>1. <<row>> \in Seq(RowKinds) /\ DOMAIN <<row>> = {1} /\ <<row>>[1] = row
  OBVIOUS
<1>2. {i \in DOMAIN <<row>> : <<row>>[i] = a} = IF a = row THEN {1} ELSE {}
  BY <1>1
<1>3. Count(<<row>>, a) = Share(a, row, 1)
  BY <1>2, FS_EmptySet, FS_Singleton DEF Count, Share
<1>5. \A b : a # b => Before(<<row>>, a, b)
  BY <1>1 DEF Before
<1> QED BY <1>1, <1>3, <1>5 DEF Share

(* A row that closes a plan comes after all the others.                      *)
LEMMA ClosesIt ==
  ASSUME NEW s \in Seq(RowKinds), NEW b \in RowKinds, Count(s, b) = 0
  PROVE  \A a : a # b => Before(s \o <<b>>, a, b)
<1> SUFFICES ASSUME NEW a, a # b PROVE Before(s \o <<b>>, a, b)
  OBVIOUS
<1>0. Count(s, b) > 0 <=> Has(s, b)
  BY CountFinite, Zenon
<1>1. ~Has(s, b)
  BY <1>0
<1>2. Before(s, a, b)
  BY <1>1 DEF Before, Has
<1>3. <<b>> \in Seq(RowKinds) /\ Before(<<b>>, a, b)
  BY OneHolds
<1> QED BY <1>1, <1>2, <1>3, ConcatIs

LEMMA EntryPlanIs ==
  ASSUME NEW shape \in Shapes
  PROVE  /\ createThreatIntel(shape) \in Seq(RowKinds)
         /\ \A a : Count(createThreatIntel(shape), a)
                     = Share(a, "entry", 1) + Share(a, "source", shape.sources)
                         + Share(a, "reference", shape.references) + Share(a, "entry revised", 1)
         /\ \A a : a # "entry revised" => Before(createThreatIntel(shape), a, "entry revised")
<1>1. shape.sources \in Nat /\ shape.references \in Nat
  BY ThreatAssumption
<1>2. "entry" \in RowKinds /\ "source" \in RowKinds /\ "reference" \in RowKinds /\ "entry revised" \in RowKinds
  BY DEF RowKinds
<1> DEFINE e == <<"entry">>  b == Copies(shape.sources, "source")  d == Copies(shape.references, "reference")
           v == <<"entry revised">>
<1>3. createThreatIntel(shape) = ((e \o b) \o d) \o v
  BY DEF createThreatIntel
<1>4. e \in Seq(RowKinds) /\ b \in Seq(RowKinds) /\ d \in Seq(RowKinds) /\ v \in Seq(RowKinds)
  BY <1>1, <1>2, CopiesHold, OneHolds
<1>5. ASSUME NEW a
      PROVE  /\ Count(e, a) = Share(a, "entry", 1) /\ Count(v, a) = Share(a, "entry revised", 1)
             /\ Count(b, a) = Share(a, "source", shape.sources)
             /\ Count(d, a) = Share(a, "reference", shape.references)
  BY <1>1, <1>2, CopiesHold, OneHolds, Zenon
<1> HIDE DEF e, b, d, v
<1>6. (e \o b) \in Seq(RowKinds) /\ ((e \o b) \o d) \in Seq(RowKinds) /\ (((e \o b) \o d) \o v) \in Seq(RowKinds)
  BY <1>4, ConcatIs
<1>7. ASSUME NEW a
      PROVE  /\ Count((e \o b) \o d, a) = Count(e, a) + Count(b, a) + Count(d, a)
             /\ Count(((e \o b) \o d) \o v, a) = Count(e, a) + Count(b, a) + Count(d, a) + Count(v, a)
  <2>1. Count(e \o b, a) = Count(e, a) + Count(b, a)
    BY <1>4, ConcatIs
  <2>2. Count((e \o b) \o d, a) = Count(e \o b, a) + Count(d, a)
    BY <1>4, <1>6, ConcatIs
  <2>3. Count(((e \o b) \o d) \o v, a) = Count((e \o b) \o d, a) + Count(v, a)
    BY <1>4, <1>6, ConcatIs
  <2> QED BY <2>1, <2>2, <2>3
<1>8. Count((e \o b) \o d, "entry revised") = 0
  <2>1. ASSUME NEW a, Count(e, a) = 0, Count(b, a) = 0, Count(d, a) = 0 PROVE Count((e \o b) \o d, a) = 0
    BY <1>7, <2>1
  <2>2. /\ Share("entry revised", "entry", 1) = 0 /\ Share("entry revised", "source", shape.sources) = 0
        /\ Share("entry revised", "reference", shape.references) = 0
    BY DEF Share
  <2> QED BY <1>5, <2>1, <2>2, Zenon
<1>9. \A a : a # "entry revised" => Before(((e \o b) \o d) \o v, a, "entry revised")
  BY <1>2, <1>6, <1>8, ClosesIt, Zenon DEF v
<1> QED BY <1>3, <1>5, <1>6, <1>7, <1>9

LEMMA SignaturePlanIs ==
  ASSUME NEW shape \in Shapes
  PROVE  /\ createThreatSignature(shape) \in Seq(RowKinds)
         /\ shape.signature = {} => \A a : Count(createThreatSignature(shape), a) = 0
         /\ shape.signature # {} =>
              \A a : Count(createThreatSignature(shape), a)
                       = Share(a, "signature", 1) + Share(a, "condition", shape.conditions)
                           + Share(a, "signature revised", 1)
         /\ \A a : a # "signature revised" => Before(createThreatSignature(shape), a, "signature revised")
<1>1. shape.conditions \in Nat
  BY ThreatAssumption
<1>2. "signature" \in RowKinds /\ "condition" \in RowKinds /\ "signature revised" \in RowKinds
  BY DEF RowKinds
<1>3. CASE shape.signature = {}
  <2>1. createThreatSignature(shape) = <<>>
    BY <1>3 DEF createThreatSignature
  <2> DEFINE p == createThreatSignature(shape)
  <2>2. p \in Seq(RowKinds) /\ DOMAIN p = {}
    BY <2>1
  <2> HIDE DEF p
  <2>3. ASSUME NEW a PROVE Count(p, a) = 0
    <3>1. {i \in DOMAIN p : p[i] = a} = {}
      BY <2>2
    <3> QED BY <3>1, FS_EmptySet DEF Count
  <2>4. \A a : Before(p, a, "signature revised")
    BY <2>2 DEF Before
  <2> QED BY <1>3, <2>2, <2>3, <2>4, Zenon DEF p
<1>4. CASE shape.signature # {}
  <2> DEFINE e == <<"signature">>  b == Copies(shape.conditions, "condition")  v == <<"signature revised">>
  <2>3. createThreatSignature(shape) = (e \o b) \o v
    BY <1>4 DEF createThreatSignature
  <2>4. e \in Seq(RowKinds) /\ b \in Seq(RowKinds) /\ v \in Seq(RowKinds)
    BY <1>1, <1>2, CopiesHold, OneHolds
  <2>5. ASSUME NEW a
        PROVE  /\ Count(e, a) = Share(a, "signature", 1) /\ Count(v, a) = Share(a, "signature revised", 1)
               /\ Count(b, a) = Share(a, "condition", shape.conditions)
    BY <1>1, <1>2, CopiesHold, OneHolds, Zenon
  <2> HIDE DEF e, b, v
  <2>6. (e \o b) \in Seq(RowKinds) /\ ((e \o b) \o v) \in Seq(RowKinds)
    BY <2>4, ConcatIs
  <2>7. ASSUME NEW a
        PROVE  /\ Count(e \o b, a) = Count(e, a) + Count(b, a)
               /\ Count((e \o b) \o v, a) = Count(e, a) + Count(b, a) + Count(v, a)
    <3>1. Count(e \o b, a) = Count(e, a) + Count(b, a)
      BY <2>4, ConcatIs
    <3>2. Count((e \o b) \o v, a) = Count(e \o b, a) + Count(v, a)
      BY <2>4, <2>6, ConcatIs
    <3> QED BY <3>1, <3>2
  <2>8. Count(e \o b, "signature revised") = 0
    <3>1. ASSUME NEW a, Count(e, a) = 0, Count(b, a) = 0 PROVE Count(e \o b, a) = 0
      BY <2>7, <3>1
    <3>2. /\ Share("signature revised", "signature", 1) = 0
          /\ Share("signature revised", "condition", shape.conditions) = 0
      BY DEF Share
    <3> QED BY <2>5, <3>1, <3>2, Zenon
  <2>9. \A a : a # "signature revised" => Before((e \o b) \o v, a, "signature revised")
    BY <1>2, <2>6, <2>8, ClosesIt, Zenon DEF v
  <2> QED BY <1>4, <2>3, <2>5, <2>6, <2>7, <2>9
<1> QED BY <1>3, <1>4

LEMMA ImportPlanIs ==
  ASSUME NEW shape \in Shapes
  PROVE  /\ importThreatIntel(shape) \in Seq(RowKinds)
         /\ \A a : Count(importThreatIntel(shape), a)
                     = Count(createThreatIntel(shape), a) + Count(createThreatSignature(shape), a)
                         + Share(a, createRiskLabel(shape), shape.labels) + Share(a, "import revised", 1)
         /\ \A a \in RowKinds \ {"import revised"} : Before(importThreatIntel(shape), a, "import revised")
         /\ \A a \in {"source", "reference"} : Before(importThreatIntel(shape), a, "entry revised")
         /\ Before(importThreatIntel(shape), "condition", "signature revised")
<1>1. shape.labels \in Nat
  BY ThreatAssumption
<1>2. createRiskLabel(shape) \in RowKinds /\ createRiskLabel(shape) \in {"label", "refused"} /\ "import revised" \in RowKinds
  BY DEF RowKinds, createRiskLabel
<1> DEFINE e == createThreatIntel(shape)  g == createThreatSignature(shape)
           l == Copies(shape.labels, createRiskLabel(shape))  v == <<"import revised">>
           p == importThreatIntel(shape)
<1>3. p = ((e \o g) \o l) \o v
  BY DEF importThreatIntel
<1>4. e \in Seq(RowKinds) /\ g \in Seq(RowKinds) /\ l \in Seq(RowKinds) /\ v \in Seq(RowKinds)
  BY <1>1, <1>2, CopiesHold, OneHolds, EntryPlanIs, SignaturePlanIs
<1>5. ASSUME NEW a
      PROVE  /\ Count(v, a) = Share(a, "import revised", 1)
             /\ Count(l, a) = Share(a, createRiskLabel(shape), shape.labels)
  BY <1>1, <1>2, CopiesHold, OneHolds, Zenon
<1>6. ASSUME NEW a, NEW b, a # b PROVE Before(l, a, b) /\ Before(v, a, b)
  BY <1>1, <1>2, <1>6, CopiesHold, OneHolds, Zenon
<1>7. /\ \A a : a # "entry revised" => Before(e, a, "entry revised")
      /\ \A a : a # "signature revised" => Before(g, a, "signature revised")
  BY EntryPlanIs, SignaturePlanIs
<1>8. ASSUME NEW a
      PROVE  Count(e, a) = Share(a, "entry", 1) + Share(a, "source", shape.sources)
                             + Share(a, "reference", shape.references) + Share(a, "entry revised", 1)
  BY EntryPlanIs
<1>9. ASSUME NEW a, Share(a, "signature", 1) = 0, Share(a, "condition", shape.conditions) = 0,
             Share(a, "signature revised", 1) = 0
      PROVE  Count(g, a) = 0
  <2>1. shape.signature = {} => Count(g, a) = 0
    BY SignaturePlanIs, Zenon
  <2>2. shape.signature # {} => Count(g, a) = Share(a, "signature", 1) + Share(a, "condition", shape.conditions)
                                                + Share(a, "signature revised", 1)
    BY SignaturePlanIs, Zenon
  <2>3. (0 + 0) + 0 = 0
    OBVIOUS
  <2> HIDE DEF g
  <2>4. CASE shape.signature = {}
    BY <2>1, <2>4
  <2>5. CASE shape.signature # {}
    BY <1>9, <2>2, <2>3, <2>5, Zenon
  <2> QED BY <2>4, <2>5
<1> HIDE DEF e, g, l, v, p
<1>10. (e \o g) \in Seq(RowKinds) /\ ((e \o g) \o l) \in Seq(RowKinds) /\ (((e \o g) \o l) \o v) \in Seq(RowKinds)
  BY <1>4, ConcatIs
<1>11. ASSUME NEW a
       PROVE  /\ Count(e \o g, a) = Count(e, a) + Count(g, a)
              /\ Count((e \o g) \o l, a) = Count(e, a) + Count(g, a) + Count(l, a)
              /\ Count(p, a) = Count(e, a) + Count(g, a) + Count(l, a) + Count(v, a)
  <2>1. Count(e \o g, a) = Count(e, a) + Count(g, a)
    BY <1>4, ConcatIs
  <2>2. Count((e \o g) \o l, a) = Count(e \o g, a) + Count(l, a)
    BY <1>4, <1>10, ConcatIs
  <2>3. Count(p, a) = Count((e \o g) \o l, a) + Count(v, a)
    BY <1>3, <1>4, <1>10, ConcatIs
  <2> QED BY <2>1, <2>2, <2>3
<1>12. ASSUME NEW a, Count(e, a) = 0, Count(g, a) = 0, Count(l, a) = 0 PROVE Count((e \o g) \o l, a) = 0
  BY <1>11, <1>12
<1>13. ASSUME NEW s \in Seq(RowKinds), NEW a, Count(s, a) = 0 PROVE ~Has(s, a)
  <2>1. Count(s, a) > 0 <=> Has(s, a)
    BY CountFinite, Zenon
  <2> QED BY <1>13, <2>1
<1>14. ASSUME NEW a, Share(a, "entry", 1) = 0, Share(a, "source", shape.sources) = 0,
             Share(a, "reference", shape.references) = 0, Share(a, "entry revised", 1) = 0
       PROVE  Count(e, a) = 0
  <2>1. ((0 + 0) + 0) + 0 = 0
    OBVIOUS
  <2> QED BY <1>8, <1>14, <2>1, Zenon
<1>15. Count((e \o g) \o l, "import revised") = 0
  <2>1. /\ Share("import revised", "entry", 1) = 0 /\ Share("import revised", "source", shape.sources) = 0
        /\ Share("import revised", "reference", shape.references) = 0
        /\ Share("import revised", "entry revised", 1) = 0
        /\ Share("import revised", "signature", 1) = 0 /\ Share("import revised", "condition", shape.conditions) = 0
        /\ Share("import revised", "signature revised", 1) = 0
    BY DEF Share
  <2>2. Share("import revised", createRiskLabel(shape), shape.labels) = 0
    BY DEF createRiskLabel, Share
  <2> QED BY <1>5, <1>9, <1>12, <1>14, <2>1, <2>2, Zenon
<1>16. \A a : a # "import revised" => Before(p, a, "import revised")
  BY <1>2, <1>3, <1>10, <1>15, ClosesIt, Zenon DEF v
<1>17. ASSUME NEW a \in {"source", "reference"} PROVE Before(p, a, "entry revised")
  <2>1. /\ Share(a, "signature", 1) = 0 /\ Share(a, "condition", shape.conditions) = 0
        /\ Share(a, "signature revised", 1) = 0
    BY DEF Share
  <2>2. Share(a, createRiskLabel(shape), shape.labels) = 0
    BY DEF createRiskLabel, Share
  <2>3. Share(a, "import revised", 1) = 0
    BY DEF Share
  <2>4. Count(g, a) = 0 /\ Count(l, a) = 0 /\ Count(v, a) = 0
    BY <1>5, <1>9, <2>1, <2>2, <2>3, Zenon
  <2>5. ~Has(g, a) /\ ~Has(l, a) /\ ~Has(v, a)
    BY <1>4, <1>13, <2>4
  <2>6. a # "entry revised" /\ Before(e, a, "entry revised")
    BY <1>7
  <2>7. Before(g, a, "entry revised") /\ Before(l, a, "entry revised") /\ Before(v, a, "entry revised")
    BY <2>5 DEF Before, Has
  <2>8. Before(e \o g, a, "entry revised")
    BY <1>4, <2>5, <2>6, <2>7, ConcatIs, Zenon
  <2>9. Before((e \o g) \o l, a, "entry revised")
    BY <1>4, <1>10, <2>5, <2>7, <2>8, ConcatIs, Zenon
  <2> QED BY <1>3, <1>4, <1>10, <2>5, <2>7, <2>9, ConcatIs, Zenon
<1>18. Before(p, "condition", "signature revised")
  <2>1. /\ Share("signature revised", "entry", 1) = 0 /\ Share("signature revised", "source", shape.sources) = 0
        /\ Share("signature revised", "reference", shape.references) = 0
        /\ Share("signature revised", "entry revised", 1) = 0
    BY DEF Share
  <2>2. Share("condition", createRiskLabel(shape), shape.labels) = 0 /\ Share("condition", "import revised", 1) = 0
    BY DEF createRiskLabel, Share
  <2>4. Count(e, "signature revised") = 0 /\ Count(l, "condition") = 0 /\ Count(v, "condition") = 0
    BY <1>5, <1>14, <2>1, <2>2, Zenon
  <2>5. ~Has(e, "signature revised") /\ ~Has(l, "condition") /\ ~Has(v, "condition")
    BY <1>4, <1>13, <2>4, Zenon
  <2>6. Before(g, "condition", "signature revised")
    BY <1>7, Zenon
  <2>7. /\ Before(e, "condition", "signature revised") /\ Before(l, "condition", "signature revised")
        /\ Before(v, "condition", "signature revised")
    BY <2>5 DEF Before, Has
  <2>8. Before(e \o g, "condition", "signature revised")
    BY <1>4, <2>5, <2>6, <2>7, ConcatIs, Zenon
  <2>9. Before((e \o g) \o l, "condition", "signature revised")
    BY <1>4, <1>10, <2>5, <2>7, <2>8, ConcatIs, Zenon
  <2> QED BY <1>3, <1>4, <1>10, <2>5, <2>7, <2>9, ConcatIs, Zenon
<1>19. ASSUME NEW a PROVE Count(p, a) = Count(e, a) + Count(g, a) + Share(a, createRiskLabel(shape), shape.labels)
                                          + Share(a, "import revised", 1)
  BY <1>5, <1>11, Zenon
<1>20. p \in Seq(RowKinds)
  BY <1>3, <1>10
<1>21. \A a \in RowKinds \ {"import revised"} : Before(p, a, "import revised")
  BY <1>16
<1> QED BY <1>17, <1>18, <1>19, <1>20, <1>21, Zenon DEF e, g, p

(* What a plan p says of the shape it is of: the rows a revision stands for  *)
(* are all in it, and come before the revision.                              *)
PlanFits(p, shape) ==
  /\ p \in Seq(RowKinds)
  /\ Has(p, "entry revised") =>
       /\ Count(p, "source") = shape.sources /\ Count(p, "reference") = shape.references
       /\ Before(p, "source", "entry revised") /\ Before(p, "reference", "entry revised")
  /\ Has(p, "import revised") =>
       /\ shape.signature = {} \/ Has(p, "signature")
       /\ Has(p, "refused") \/ Count(p, "label") = shape.labels
       /\ Before(p, "signature", "import revised") /\ Before(p, "refused", "import revised")
       /\ Before(p, "label", "import revised")
  /\ Has(p, "signature revised") =>
       Count(p, "condition") = shape.conditions /\ Before(p, "condition", "signature revised")
  /\ shape.kind = "entry" => Count(p, "source") = shape.sources

LEMMA EntryPlanFits == ASSUME NEW shape \in Shapes PROVE PlanFits(createThreatIntel(shape), shape)
<1> DEFINE p == createThreatIntel(shape)
<1>1. shape.sources \in Nat /\ shape.references \in Nat
  BY ThreatAssumption
<1>2. p \in Seq(RowKinds)
  BY EntryPlanIs
<1>3. ASSUME NEW a
      PROVE  Count(p, a) = Share(a, "entry", 1) + Share(a, "source", shape.sources)
                             + Share(a, "reference", shape.references) + Share(a, "entry revised", 1)
  BY EntryPlanIs
<1>4. \A a : a # "entry revised" => Before(p, a, "entry revised")
  BY EntryPlanIs
<1> HIDE DEF p
<1>5. /\ ((0 + shape.sources) + 0) + 0 = shape.sources /\ ((0 + 0) + shape.references) + 0 = shape.references
      /\ ((0 + 0) + 0) + 0 = 0
  BY <1>1
<1>6. Count(p, "source") = shape.sources
  <2>1. /\ Share("source", "entry", 1) = 0 /\ Share("source", "source", shape.sources) = shape.sources
        /\ Share("source", "reference", shape.references) = 0 /\ Share("source", "entry revised", 1) = 0
    BY DEF Share
  <2> QED BY <1>3, <1>5, <2>1, Zenon
<1>7. Count(p, "reference") = shape.references
  <2>1. /\ Share("reference", "entry", 1) = 0 /\ Share("reference", "source", shape.sources) = 0
        /\ Share("reference", "reference", shape.references) = shape.references
        /\ Share("reference", "entry revised", 1) = 0
    BY DEF Share
  <2> QED BY <1>3, <1>5, <2>1, Zenon
<1>8. ASSUME NEW a, Count(p, a) = 0 PROVE ~Has(p, a)
  <2>1. Count(p, a) > 0 <=> Has(p, a)
    BY <1>2, CountFinite, Zenon
  <2> QED BY <1>8, <2>1
<1>9. ~Has(p, "import revised") /\ ~Has(p, "signature revised")
  <2>1. ASSUME NEW a \in {"import revised", "signature revised"} PROVE ~Has(p, a)
    <3>1. /\ Share(a, "entry", 1) = 0 /\ Share(a, "source", shape.sources) = 0
          /\ Share(a, "reference", shape.references) = 0 /\ Share(a, "entry revised", 1) = 0
      BY DEF Share
    <3> QED BY <1>3, <1>5, <1>8, <3>1, Zenon
  <2> QED BY <2>1
<1>10. Before(p, "source", "entry revised") /\ Before(p, "reference", "entry revised")
  <2>1. "source" # "entry revised" /\ "reference" # "entry revised"
    OBVIOUS
  <2> QED BY <1>4, <2>1, Zenon
<1> QED BY <1>2, <1>6, <1>7, <1>9, <1>10, Zenon DEF PlanFits, p

LEMMA SignaturePlanFits ==
  ASSUME NEW shape \in Shapes, shape.kind # "entry" PROVE PlanFits(createThreatSignature(shape), shape)
<1> DEFINE p == createThreatSignature(shape)
<1>1. shape.conditions \in Nat
  BY ThreatAssumption
<1>2. p \in Seq(RowKinds)
  BY SignaturePlanIs
<1>3. ASSUME NEW a, Share(a, "signature", 1) = 0, Share(a, "condition", shape.conditions) = 0,
             Share(a, "signature revised", 1) = 0
      PROVE  Count(p, a) = 0
  <2>1. shape.signature = {} => Count(p, a) = 0
    BY SignaturePlanIs, Zenon
  <2>2. shape.signature # {} => Count(p, a) = Share(a, "signature", 1) + Share(a, "condition", shape.conditions)
                                                + Share(a, "signature revised", 1)
    BY SignaturePlanIs, Zenon
  <2>3. (0 + 0) + 0 = 0
    OBVIOUS
  <2> HIDE DEF p
  <2>4. CASE shape.signature = {}
    BY <2>1, <2>4
  <2>5. CASE shape.signature # {}
    BY <1>3, <2>2, <2>3, <2>5, Zenon
  <2> QED BY <2>4, <2>5
<1>4. Before(p, "condition", "signature revised")
  <2>1. "condition" # "signature revised"
    OBVIOUS
  <2> QED BY <2>1, SignaturePlanIs, Zenon
<1>5. shape.signature = {} => Count(p, "signature revised") = 0
  BY SignaturePlanIs, Zenon
<1>6. shape.signature # {} => Count(p, "condition") = shape.conditions
  <2>1. /\ Share("condition", "signature", 1) = 0 /\ Share("condition", "condition", shape.conditions) = shape.conditions
        /\ Share("condition", "signature revised", 1) = 0
    BY DEF Share
  <2>2. shape.signature # {} => Count(p, "condition") = (0 + shape.conditions) + 0
    BY <2>1, SignaturePlanIs, Zenon
  <2>3. (0 + shape.conditions) + 0 = shape.conditions
    BY <1>1
  <2> QED BY <2>2, <2>3, Zenon
<1> HIDE DEF p
<1>8. ASSUME NEW a, Count(p, a) = 0 PROVE ~Has(p, a)
  <2>1. Count(p, a) > 0 <=> Has(p, a)
    BY <1>2, CountFinite, Zenon
  <2> QED BY <1>8, <2>1
<1>9. ~Has(p, "import revised") /\ ~Has(p, "entry revised")
  <2>1. ASSUME NEW a \in {"import revised", "entry revised"} PROVE ~Has(p, a)
    <3>1. /\ Share(a, "signature", 1) = 0 /\ Share(a, "condition", shape.conditions) = 0
          /\ Share(a, "signature revised", 1) = 0
      BY DEF Share
    <3> QED BY <1>3, <1>8, <3>1, Zenon
  <2> QED BY <2>1
<1>10. Has(p, "signature revised") => Count(p, "condition") = shape.conditions
  BY <1>5, <1>6, <1>8, Zenon
<1> QED BY <1>2, <1>4, <1>9, <1>10, Zenon DEF PlanFits, p

LEMMA ImportPlanFits ==
  ASSUME NEW shape \in Shapes, shape.kind # "entry" PROVE PlanFits(importThreatIntel(shape), shape)
<1> DEFINE e == createThreatIntel(shape)  g == createThreatSignature(shape)  p == importThreatIntel(shape)
           label == createRiskLabel(shape)
<1>1. /\ shape.sources \in Nat /\ shape.references \in Nat /\ shape.conditions \in Nat /\ shape.labels \in Nat
      /\ label \in {"label", "refused"}
  BY ThreatAssumption DEF createRiskLabel
<1>2. /\ p \in Seq(RowKinds) /\ g \in Seq(RowKinds)
      /\ \A a : Count(p, a) = Count(e, a) + Count(g, a) + Share(a, label, shape.labels) + Share(a, "import revised", 1)
      /\ \A a \in RowKinds \ {"import revised"} : Before(p, a, "import revised")
      /\ \A a \in {"source", "reference"} : Before(p, a, "entry revised")
      /\ Before(p, "condition", "signature revised")
  BY ImportPlanIs, SignaturePlanIs, Zenon
<1>3. PlanFits(e, shape) /\ PlanFits(g, shape)
  BY EntryPlanFits, SignaturePlanFits, Zenon
<1>4. ASSUME NEW a
      PROVE  Count(e, a) = Share(a, "entry", 1) + Share(a, "source", shape.sources)
                             + Share(a, "reference", shape.references) + Share(a, "entry revised", 1)
  BY EntryPlanIs
<1>5. shape.signature = {} => \A a : Count(g, a) = 0
  BY SignaturePlanIs, Zenon
<1>6. shape.signature # {} =>
        \A a : Count(g, a) = Share(a, "signature", 1) + Share(a, "condition", shape.conditions)
                               + Share(a, "signature revised", 1)
  BY SignaturePlanIs, Zenon
<1> HIDE DEF e, g, p, label
<1>7. ASSUME NEW a, Share(a, "signature", 1) = 0, Share(a, "condition", shape.conditions) = 0,
             Share(a, "signature revised", 1) = 0
      PROVE  Count(g, a) = 0
  <2>1. (0 + 0) + 0 = 0
    OBVIOUS
  <2>2. CASE shape.signature = {}
    BY <1>5, <2>2, Zenon
  <2>3. CASE shape.signature # {}
    BY <1>6, <1>7, <2>1, <2>3, Zenon
  <2> QED BY <2>2, <2>3
<1>8. ASSUME NEW s \in Seq(RowKinds), NEW a PROVE Count(s, a) > 0 <=> Has(s, a)
  BY CountFinite, Zenon
<1>9. /\ Count(p, "source") = shape.sources /\ Count(p, "reference") = shape.references
  <2>1. /\ Share("source", "entry", 1) = 0 /\ Share("source", "source", shape.sources) = shape.sources
        /\ Share("source", "reference", shape.references) = 0 /\ Share("source", "entry revised", 1) = 0
        /\ Share("source", "signature", 1) = 0 /\ Share("source", "condition", shape.conditions) = 0
        /\ Share("source", "signature revised", 1) = 0
        /\ Share("source", label, shape.labels) = 0 /\ Share("source", "import revised", 1) = 0
    BY <1>1 DEF Share
  <2>2. /\ Share("reference", "entry", 1) = 0 /\ Share("reference", "source", shape.sources) = 0
        /\ Share("reference", "reference", shape.references) = shape.references
        /\ Share("reference", "entry revised", 1) = 0
        /\ Share("reference", "signature", 1) = 0 /\ Share("reference", "condition", shape.conditions) = 0
        /\ Share("reference", "signature revised", 1) = 0
        /\ Share("reference", label, shape.labels) = 0 /\ Share("reference", "import revised", 1) = 0
    BY <1>1 DEF Share
  <2>3. /\ ((0 + shape.sources) + 0) + 0 = shape.sources /\ ((0 + 0) + shape.references) + 0 = shape.references
        /\ ((shape.sources + 0) + 0) + 0 = shape.sources /\ ((shape.references + 0) + 0) + 0 = shape.references
    BY <1>1
  <2>4. Count(e, "source") = shape.sources /\ Count(e, "reference") = shape.references
    BY <1>4, <2>1, <2>2, <2>3, Zenon
  <2>5. Count(g, "source") = 0 /\ Count(g, "reference") = 0
    BY <1>7, <2>1, <2>2, Zenon
  <2> QED BY <1>2, <2>1, <2>2, <2>3, <2>4, <2>5, Zenon
<1>10. Has(p, "signature revised") => Count(p, "condition") = shape.conditions
  <2>1. /\ Share("condition", "entry", 1) = 0 /\ Share("condition", "source", shape.sources) = 0
        /\ Share("condition", "reference", shape.references) = 0 /\ Share("condition", "entry revised", 1) = 0
        /\ Share("condition", "signature", 1) = 0
        /\ Share("condition", "condition", shape.conditions) = shape.conditions
        /\ Share("condition", "signature revised", 1) = 0
        /\ Share("condition", label, shape.labels) = 0 /\ Share("condition", "import revised", 1) = 0
    BY <1>1 DEF Share
  <2>2. /\ Share("signature revised", "entry", 1) = 0 /\ Share("signature revised", "source", shape.sources) = 0
        /\ Share("signature revised", "reference", shape.references) = 0
        /\ Share("signature revised", "entry revised", 1) = 0
        /\ Share("signature revised", label, shape.labels) = 0
        /\ Share("signature revised", "import revised", 1) = 0
    BY <1>1 DEF Share
  <2>3. /\ ((0 + 0) + 0) + 0 = 0 /\ (0 + shape.conditions) + 0 = shape.conditions
        /\ ((0 + shape.conditions) + 0) + 0 = shape.conditions
    BY <1>1
  <2>4. Count(e, "condition") = 0 /\ Count(e, "signature revised") = 0
    BY <1>4, <2>1, <2>2, <2>3, Zenon
  <2>5. CASE shape.signature = {}
    <3>1. Count(g, "signature revised") = 0
      BY <1>5, <2>5, Zenon
    <3>2. Count(p, "signature revised") = 0
      BY <1>2, <2>2, <2>3, <2>4, <3>1, Zenon
    <3>3. Count(p, "signature revised") > 0 <=> Has(p, "signature revised")
      BY <1>2, <1>8, Zenon
    <3>4. ~(0 > 0)
      OBVIOUS
    <3> QED BY <3>2, <3>3, <3>4, Zenon
  <2>6. CASE shape.signature # {}
    <3>1. Count(g, "condition") = shape.conditions
      BY <1>6, <2>1, <2>3, <2>6, Zenon
    <3> QED BY <1>2, <2>1, <2>3, <2>4, <3>1, Zenon
  <2> QED BY <2>5, <2>6
<1>11. shape.signature = {} \/ Has(p, "signature")
  <2> SUFFICES ASSUME shape.signature # {} PROVE Has(p, "signature")
    OBVIOUS
  <2>1. /\ Share("signature", "entry", 1) = 0 /\ Share("signature", "source", shape.sources) = 0
        /\ Share("signature", "reference", shape.references) = 0 /\ Share("signature", "entry revised", 1) = 0
        /\ Share("signature", "signature", 1) = 1 /\ Share("signature", "condition", shape.conditions) = 0
        /\ Share("signature", "signature revised", 1) = 0
        /\ Share("signature", label, shape.labels) = 0 /\ Share("signature", "import revised", 1) = 0
    BY <1>1 DEF Share
  <2>2. ((0 + 0) + 0) + 0 = 0 /\ (1 + 0) + 0 = 1 /\ ((0 + 1) + 0) + 0 = 1
    OBVIOUS
  <2>3. Count(p, "signature") = 1
    BY <1>2, <1>4, <1>6, <2>1, <2>2, Zenon
  <2>4. Count(p, "signature") > 0 <=> Has(p, "signature")
    BY <1>2, <1>8, Zenon
  <2> QED BY <2>3, <2>4
<1>12. Has(p, "refused") \/ Count(p, "label") = shape.labels
  <2>1. ASSUME NEW a \in {"label", "refused"}
        PROVE  /\ Share(a, "entry", 1) = 0 /\ Share(a, "source", shape.sources) = 0
               /\ Share(a, "reference", shape.references) = 0 /\ Share(a, "entry revised", 1) = 0
               /\ Share(a, "signature", 1) = 0 /\ Share(a, "condition", shape.conditions) = 0
               /\ Share(a, "signature revised", 1) = 0 /\ Share(a, "import revised", 1) = 0
    BY DEF Share
  <2>2. ((0 + 0) + 0) + 0 = 0 /\ ((0 + 0) + shape.labels) + 0 = shape.labels
    BY <1>1
  <2>3. ASSUME NEW a \in {"label", "refused"} PROVE Count(p, a) = ((0 + 0) + Share(a, label, shape.labels)) + 0
    BY <1>2, <1>4, <1>7, <2>1, <2>2, Zenon
  <2>4. CASE label = "label"
    <3>1. Share("label", label, shape.labels) = shape.labels
      BY <2>4 DEF Share
    <3> QED BY <2>2, <2>3, <3>1, Zenon
  <2>5. CASE label = "refused"
    <3>1. Share("label", label, shape.labels) = 0 /\ Share("refused", label, shape.labels) = shape.labels
      BY <2>5 DEF Share
    <3>2. Count(p, "label") = 0 /\ Count(p, "refused") = shape.labels
      BY <2>2, <2>3, <3>1, Zenon
    <3>3. Count(p, "refused") > 0 <=> Has(p, "refused")
      BY <1>2, <1>8, Zenon
    <3>4. CASE shape.labels = 0
      BY <3>2, <3>4, Zenon
    <3>5. CASE shape.labels > 0
      BY <3>2, <3>3, <3>5, Zenon
    <3> QED BY <1>1, <3>4, <3>5
  <2> QED BY <1>1, <2>4, <2>5
<1>13. /\ Before(p, "signature", "import revised") /\ Before(p, "refused", "import revised")
       /\ Before(p, "label", "import revised")
  <2>1. /\ "signature" \in RowKinds \ {"import revised"} /\ "refused" \in RowKinds \ {"import revised"}
        /\ "label" \in RowKinds \ {"import revised"}
    BY DEF RowKinds
  <2> QED BY <1>2, <2>1, Zenon
<1>14. Before(p, "source", "entry revised") /\ Before(p, "reference", "entry revised")
  <2>1. "source" \in {"source", "reference"} /\ "reference" \in {"source", "reference"}
    OBVIOUS
  <2> QED BY <1>2, <2>1, Zenon
<1> QED BY <1>2, <1>9, <1>10, <1>11, <1>12, <1>13, <1>14, Zenon DEF PlanFits, p

LEMMA PlanIs == ASSUME NEW shape \in Shapes PROVE PlanFits(Plan(shape), shape)
<1>1. shape.kind \in {"entry", "signature", "import"}
  BY ThreatAssumption
<1>2. CASE shape.kind = "entry"
  <2>1. Plan(shape) = createThreatIntel(shape)
    BY <1>2 DEF Plan
  <2> QED BY <2>1, EntryPlanFits, Zenon
<1>3. CASE shape.kind = "signature"
  <2>1. Plan(shape) = createThreatSignature(shape) /\ shape.kind # "entry"
    BY <1>3 DEF Plan
  <2> QED BY <2>1, SignaturePlanFits, Zenon
<1>4. CASE shape.kind = "import"
  <2>1. Plan(shape) = importThreatIntel(shape) /\ shape.kind # "entry"
    BY <1>4 DEF Plan
  <2> QED BY <2>1, ImportPlanFits, Zenon
<1> QED BY <1>1, <1>2, <1>3, <1>4

(* Of what comes before a row of a plan, the rows written so far have all,   *)
(* once they have that row.                                                  *)
LEMMA PrefixHasAll ==
  ASSUME NEW p \in Seq(RowKinds), NEW rows \in Seq(RowKinds), Len(rows) <= Len(p),
         \A k \in 1 .. Len(rows) : rows[k] = p[k]
  PROVE  /\ \A a : Has(rows, a) => Has(p, a)
         /\ \A a, b : Has(rows, b) /\ Before(p, a, b) => Count(rows, a) = Count(p, a) /\ (Has(p, a) => Has(rows, a))
         /\ Len(rows) = Len(p) => \A a : Count(rows, a) = Count(p, a)
<1>1. DOMAIN rows = 1 .. Len(rows) /\ DOMAIN p = 1 .. Len(p) /\ Len(rows) \in Nat /\ Len(p) \in Nat
  BY LenProperties
<1>2. \A a : Has(rows, a) => Has(p, a)
  BY <1>1 DEF Has
<1>3. ASSUME NEW a, NEW b, Has(rows, b), Before(p, a, b)
      PROVE  Count(rows, a) = Count(p, a) /\ (Has(p, a) => Has(rows, a))
  <2>1. PICK j \in DOMAIN rows : rows[j] = b
    BY <1>3 DEF Has
  <2>2. j \in DOMAIN p /\ p[j] = b
    BY <1>1, <2>1
  <2>3. \A i \in DOMAIN p : p[i] = a => i \in DOMAIN rows /\ rows[i] = a
    BY <1>1, <1>3, <2>1, <2>2 DEF Before
  <2>4. {i \in DOMAIN rows : rows[i] = a} = {i \in DOMAIN p : p[i] = a}
    BY <1>1, <2>3
  <2> QED BY <2>3, <2>4 DEF Count, Has
<1>4. ASSUME Len(rows) = Len(p), NEW a PROVE Count(rows, a) = Count(p, a)
  <2>1. {i \in DOMAIN rows : rows[i] = a} = {i \in DOMAIN p : p[i] = a}
    BY <1>1, <1>4
  <2> QED BY <2>1 DEF Count
<1> QED BY <1>2, <1>3, <1>4

-----------------------------------------------------------------------------
(* Threat knowledge: the invariant of entries and metrics.                    *)

MeasureAt == {"measure", "seek", "store"}
Told(rule) == Cardinality(Reports(Of(rule)))
Past(rule) == {c \in Callers : call[c].at \in MeasureAt /\ RuleOf[call[c].finding] = rule}

(* What a request measured misses only the reports it saw come since, and    *)
(* the metric it found is of its rule.                                       *)
SnapshotFits(c) ==
  /\ call[c].at \in {"seek", "store"} =>
       /\ call[c].snapshot.rule = RuleOf[call[c].finding]
       /\ Told(call[c].snapshot.rule) <= call[c].snapshot.reports + call[c].met
  /\ call[c].at = "store" /\ call[c].id # 0 =>
       call[c].id \in DOMAIN metrics /\ metrics[call[c].id].snapshot.rule = call[c].snapshot.rule

(* A report that is not in the metric of its rule is one the metric's own    *)
(* request met, one whose request has still to write, or of a failed one.    *)
MetricFits(i) ==
  metrics[i].snapshot.rule.name # "" =>
    /\ Told(metrics[i].snapshot.rule)
         <= metrics[i].snapshot.reports + metrics[i].met + Cardinality(Past(metrics[i].snapshot.rule)) + unmeasured
    /\ \A j \in DOMAIN metrics : metrics[j].snapshot.rule = metrics[i].snapshot.rule => j = i

MetricsFit == (\A c \in Callers : SnapshotFits(c)) /\ (\A i \in DOMAIN metrics : MetricFits(i))

(* An entry has the rows its plan begins with, and all of them unless its    *)
(* request is under way or failed.                                           *)
EntryFits(i) ==
  LET rows == entries[i].rows  shape == entries[i].shape  p == Plan(shape)
  IN /\ Len(rows) <= Len(p) /\ \A k \in 1 .. Len(rows) : rows[k] = p[k]
     /\ ~Has(rows, "refused")
     /\ Has(rows, "signature") => shape.signature \subseteq known
     /\ shape.kind = "entry" => shape.own \/ shape.sources > 0
     /\ Len(rows) = Len(p) \/ entries[i].cut \/ Writing(i)

(* A request has the rest of the plan to write, of an entry of its own.      *)
WriterFits(c) ==
  call[c].at = "write" =>
    /\ call[c].entry \in DOMAIN entries
    /\ LET rows == entries[call[c].entry].rows  p == Plan(entries[call[c].entry].shape)  left == call[c].left
       IN Len(rows) + Len(left) = Len(p) /\ \A k \in 1 .. Len(left) : left[k] = p[Len(rows) + k]
    /\ \A d \in Callers : call[d].at = "write" /\ call[d].entry = call[c].entry => d = c

EntriesFit == (\A i \in DOMAIN entries : EntryFits(i)) /\ (\A c \in Callers : WriterFits(c))

ThreatInv == ThreatTypes /\ MatchInv /\ MetricsFit /\ EntriesFit

LEMMA EntryCertified ==
  ASSUME ThreatTypes, EntriesFit, NEW i \in DOMAIN entries
  PROVE  LET rows == entries[i].rows  shape == entries[i].shape
         IN /\ Count(rows, "entry revised") > 0 => Whole(entries[i])
            /\ Count(rows, "import revised") > 0 =>
                 /\ shape.signature \subseteq known
                 /\ Count(rows, "label") = shape.labels
            /\ Count(rows, "signature revised") > 0 => Count(rows, "condition") = shape.conditions
            /\ shape.kind = "entry" => shape.own \/ Count(rows, "source") > 0 \/ Writing(i) \/ entries[i].cut
<1> DEFINE rows == entries[i].rows  shape == entries[i].shape  p == Plan(shape)
<1>1. rows \in Seq(RowKinds) /\ shape \in Shapes
  <2>1. entries[i] \in Entries
    BY ElementOfSeq, LenProperties DEF ThreatTypes
  <2> QED BY <2>1 DEF Entries
<1>2. PlanFits(p, shape) /\ p \in Seq(RowKinds)
  <2>1. PlanFits(p, shape)
    BY <1>1, PlanIs, Zenon
  <2> QED BY <2>1, Zenon DEF PlanFits
<1>3. /\ Len(rows) <= Len(p) /\ \A k \in 1 .. Len(rows) : rows[k] = p[k]
      /\ ~Has(rows, "refused") /\ (Has(rows, "signature") => shape.signature \subseteq known)
      /\ shape.kind = "entry" => shape.own \/ shape.sources > 0
      /\ Len(rows) = Len(p) \/ entries[i].cut \/ Writing(i)
  BY DEF EntriesFit, EntryFits
<1>4. ASSUME NEW a PROVE Count(rows, a) > 0 <=> Has(rows, a)
  BY <1>1, CountFinite, Zenon
<1> HIDE DEF p
<1>5. /\ \A a : Has(rows, a) => Has(p, a)
      /\ \A a, b : Has(rows, b) /\ Before(p, a, b) => Count(rows, a) = Count(p, a) /\ (Has(p, a) => Has(rows, a))
      /\ Len(rows) = Len(p) => \A a : Count(rows, a) = Count(p, a)
  <2> HIDE DEF rows
  <2> QED BY <1>1, <1>2, <1>3, PrefixHasAll, Zenon
<1> HIDE DEF rows, shape
<1>6. Count(rows, "entry revised") > 0 => Count(rows, "source") = shape.sources /\ Count(rows, "reference") = shape.references
  BY <1>2, <1>4, <1>5, Zenon DEF PlanFits
<1>7. ASSUME Count(rows, "import revised") > 0 PROVE shape.signature \subseteq known /\ Count(rows, "label") = shape.labels
  <2>1. Has(rows, "import revised") /\ Has(p, "import revised")
    BY <1>4, <1>5, <1>7, Zenon
  <2>2. /\ shape.signature = {} \/ Has(p, "signature")
        /\ Has(p, "refused") \/ Count(p, "label") = shape.labels
        /\ Before(p, "signature", "import revised") /\ Before(p, "refused", "import revised")
        /\ Before(p, "label", "import revised")
    BY <1>2, <2>1, Zenon DEF PlanFits
  <2>3. shape.signature = {} \/ Has(rows, "signature")
    BY <1>5, <2>1, <2>2, Zenon
  <2>4. shape.signature \subseteq known
    BY <1>3, <2>3, Zenon DEF rows, shape
  <2>5. Count(rows, "label") = shape.labels
    BY <1>3, <1>5, <2>1, <2>2, Zenon DEF rows
  <2> QED BY <2>4, <2>5
<1>8. Count(rows, "signature revised") > 0 => Count(rows, "condition") = shape.conditions
  BY <1>2, <1>4, <1>5, Zenon DEF PlanFits
<1>9. ASSUME shape.kind = "entry", ~shape.own, ~Writing(i), ~entries[i].cut PROVE Count(rows, "source") > 0
  <2>1. Len(rows) = Len(p) /\ shape.sources > 0
    BY <1>3, <1>9, Zenon DEF rows, shape, p
  <2>2. Count(rows, "source") = shape.sources
    BY <1>2, <1>5, <1>9, <2>1, Zenon DEF PlanFits
  <2> QED BY <2>1, <2>2, Zenon
<1>10. Whole(entries[i]) <=> Count(rows, "source") = shape.sources /\ Count(rows, "reference") = shape.references
  BY Zenon DEF Whole, rows, shape
<1> QED BY <1>6, <1>7, <1>8, <1>9, <1>10, Zenon DEF rows, shape

LEMMA RevisionsHold == ThreatInv => RevisionMeansWhole
<1> SUFFICES ASSUME ThreatInv PROVE RevisionMeansWhole
  OBVIOUS
<1>1. ThreatTypes /\ EntriesFit /\ MatchInv
  BY DEF ThreatInv
<1>2. ASSUME NEW s \in matched, NEW f \in Findings
      PROVE  \E i \in DOMAIN matches : Same(matches[i], [signature |-> s, about |-> f])
  BY <1>1 DEF MatchInv, MatchFits, MatchesOf, About
<1> QED BY <1>1, <1>2, EntryCertified, Zenon DEF RevisionMeansWhole

LEMMA MatchesHold == ThreatInv => OneMatchEach
<1> SUFFICES ASSUME ThreatInv PROVE OneMatchEach
  OBVIOUS
<1>1. MatchInv
  BY DEF ThreatInv
<1>2. ASSUME NEW s \in Signatures, NEW x \in Subjects
      PROVE  Cardinality({i \in DOMAIN matches : Same(matches[i], [signature |-> s, about |-> x])}) <= together[s]
  <2>1. Cardinality(MatchesOf(s, x)) + Cardinality(Adding(s, x)) <= together[s]
    BY <1>1 DEF MatchInv, RowsCounted
  <2>2. Cardinality(MatchesOf(s, x)) \in Nat
    BY <1>1, MatchesFinite DEF MatchInv, MatchTypes
  <2>3. Cardinality(Adding(s, x)) \in Nat /\ together[s] \in Nat
    BY <1>1, CallersFinite DEF MatchInv, MatchTypes, Adding
  <2>4. Cardinality(MatchesOf(s, x)) <= together[s]
    BY <2>1, <2>2, <2>3
  <2> QED BY <2>4 DEF MatchesOf, About
<1> QED BY <1>2 DEF OneMatchEach

LEMMA MoreIsMore ==
  ASSUME NEW t \in Nat, NEW a \in Nat, NEW b \in Nat, NEW d \in Nat, NEW e \in Nat, NEW u \in Nat,
         t <= a + b + d + u, d <= e
  PROVE  t <= a + b + e + u
OBVIOUS

LEMMA PastIs ==
  ASSUME NEW rule
  PROVE  /\ IsFiniteSet(Past(rule)) /\ Cardinality(Past(rule)) \in Nat
         /\ IsFiniteSet(Reporting) /\ Cardinality(Reporting) \in Nat
         /\ Cardinality(Past(rule)) <= Cardinality(Reporting)
<1>1. Past(rule) \in SUBSET Reporting /\ Reporting \in SUBSET Callers
  BY DEF Past, Reporting, MeasureAt
<1> QED BY <1>1, CallersFinite, FewerCallers

LEMMA MetricsHold == ThreatInv => MetricMissesOverlaps
<1> SUFFICES ASSUME ThreatInv, NEW i \in DOMAIN metrics, metrics[i].snapshot.rule.name # ""
             PROVE  Cardinality(Reports(Of(metrics[i].snapshot.rule)))
                      <= metrics[i].snapshot.reports + metrics[i].met + Cardinality(Reporting) + unmeasured
  BY DEF MetricMissesOverlaps
<1>1. metrics[i] \in Metrics
  BY ElementOfSeq, LenProperties DEF ThreatInv, ThreatTypes
<1>2. metrics[i].snapshot.reports \in Nat /\ metrics[i].met \in Nat /\ unmeasured \in Nat
  BY <1>1 DEF Metrics, Snapshots, ThreatInv, ThreatTypes
<1>3. PICK rule : rule = metrics[i].snapshot.rule
  OBVIOUS
<1>4. Told(rule) <= metrics[i].snapshot.reports + metrics[i].met + Cardinality(Past(rule)) + unmeasured
  BY <1>3, Zenon DEF ThreatInv, MetricsFit, MetricFits
<1>5. /\ Cardinality(Past(rule)) \in Nat /\ Cardinality(Reporting) \in Nat
      /\ Cardinality(Past(rule)) <= Cardinality(Reporting)
  BY PastIs
<1>6. Told(rule) \in Nat /\ Told(rule) = Cardinality(Reports(Of(rule)))
  BY ReportsFinite DEF ThreatInv, ThreatTypes, Told
<1>7. Told(rule) <= metrics[i].snapshot.reports + metrics[i].met + Cardinality(Reporting) + unmeasured
  BY <1>2, <1>4, <1>5, <1>6, MoreIsMore, Zenon
<1> QED BY <1>3, <1>6, <1>7, Zenon

-----------------------------------------------------------------------------
(* Threat knowledge: every step keeps the invariant.                          *)

LEMMA MetricsStay ==
  ASSUME MetricsFit, UNCHANGED metricVars,
         \A d \in Callers : call'[d] = call[d] \/ (call[d].at \notin MeasureAt /\ call'[d].at \notin MeasureAt)
  PROVE  MetricsFit'
<1>1. /\ feedback' = feedback /\ metrics' = metrics /\ unmeasured' = unmeasured
  BY DEF metricVars
<1>2. \A rule : Told(rule)' = Told(rule)
  BY <1>1 DEF Told, Reports
<1>3. \A rule : Past(rule)' = Past(rule)
  BY DEF Past
<1>4. ASSUME NEW c \in Callers PROVE SnapshotFits(c)'
  BY <1>1, <1>2 DEF MetricsFit, SnapshotFits, MeasureAt
<1>5. ASSUME NEW i \in DOMAIN metrics PROVE MetricFits(i)'
  <2>1. MetricFits(i)
    BY DEF MetricsFit
  <2> QED BY <1>1, <1>2, <1>3, <2>1, Zenon DEF MetricFits
<1> QED BY <1>1, <1>4, <1>5 DEF MetricsFit

LEMMA EntriesStay ==
  ASSUME EntriesFit, UNCHANGED bookVars,
         \A d \in Callers : call'[d] = call[d] \/ (call[d].at # "write" /\ call'[d].at # "write")
  PROVE  EntriesFit'
<1>1. entries' = entries /\ known' = known
  BY DEF bookVars
<1>2. \A d \in Callers : /\ call'[d].at = "write" <=> call[d].at = "write"
                         /\ call[d].at = "write" => call'[d] = call[d]
  OBVIOUS
<1>3. \A i : Writing(i)' <=> Writing(i)
  BY <1>2 DEF Writing
<1>4. \A i \in DOMAIN entries : EntryFits(i)'
  BY <1>1, <1>3 DEF EntriesFit, EntryFits
<1>5. ASSUME NEW c \in Callers PROVE WriterFits(c)'
  <2>1. WriterFits(c)
    BY DEF EntriesFit
  <2> QED BY <1>1, <1>2, <2>1 DEF WriterFits
<1> QED BY <1>1, <1>4, <1>5 DEF EntriesFit

LEMMA FactsMove ==
  ASSUME ThreatInv, UNCHANGED <<bookVars, matches, matched, together, metricVars, call>>
  PROVE  ThreatInv'
<1>1. ThreatTypes'
  BY DEF ThreatInv, ThreatTypes, bookVars, metricVars
<1>2. MatchInv'
  <2>1. /\ call' \in [Callers -> CallStates] /\ UNCHANGED <<matches, together>>
        /\ \A s \in matched', f \in Findings : MatchesOf(s, f) # {}
        /\ MatchInv /\ \A d \in Callers : call'[d] = call[d]
    BY DEF ThreatInv, ThreatTypes, MatchInv, MatchFits
  <2> QED BY <2>1, OthersMove
<1>3. MetricsFit' /\ EntriesFit'
  BY MetricsStay, EntriesStay DEF ThreatInv
<1> QED BY <1>1, <1>2, <1>3 DEF ThreatInv

(* A request that matches: it begins idle and is of no other kind.           *)
LEMMA MatcherMoves ==
  ASSUME ThreatInv, MatchInv', UNCHANGED <<bookVars, metricVars>>, NEW c \in Callers,
         call[c].at \in {"idle"} \cup MatchAt,
         \E to : Goto(c, to) /\ to.at \in {"idle"} \cup MatchAt
  PROVE  ThreatInv'
<1>1. PICK to : Goto(c, to) /\ to.at \in {"idle"} \cup MatchAt
  OBVIOUS
<1>2. /\ call \in [Callers -> CallStates] /\ call' \in [Callers -> CallStates]
  BY DEF ThreatInv, ThreatTypes, MatchInv, MatchTypes
<1>3. \A d \in Callers : call'[d] = IF d = c THEN to ELSE call[d]
  BY <1>1, <1>2 DEF Goto
<1>4. ThreatTypes'
  BY <1>2 DEF ThreatInv, ThreatTypes, bookVars, metricVars
<1>5. MetricsFit'
  <2>1. \A d \in Callers : call'[d] = call[d] \/ (call[d].at \notin MeasureAt /\ call'[d].at \notin MeasureAt)
    BY <1>1, <1>3 DEF MatchAt, MeasureAt
  <2> QED BY <2>1, MetricsStay DEF ThreatInv
<1>6. EntriesFit'
  <2>1. \A d \in Callers : call'[d] = call[d] \/ (call[d].at # "write" /\ call'[d].at # "write")
    BY <1>1, <1>3 DEF MatchAt
  <2> QED BY <2>1, EntriesStay DEF ThreatInv
<1> QED BY <1>4, <1>5, <1>6 DEF ThreatInv

LEMMA MatcherStep ==
  ASSUME ThreatInv, NEW c \in Callers,
         \/ \E s \in Signatures : matchSignatureToScan(c, s)
         \/ scanForMatching(c) \/ assertAndConsume(c) \/ findMatch(c) \/ putMatch(c) \/ MatchRevision(c)
  PROVE  ThreatInv'
<1>0. MatchInv
  BY DEF ThreatInv
<1>1. ASSUME NEW s \in Signatures, matchSignatureToScan(c, s) PROVE ThreatInv'
  <2>1. MatchInv'
    BY <1>0, <1>1, MatchingBegins
  <2>2. /\ UNCHANGED <<bookVars, metricVars>> /\ call[c].at = "idle"
        /\ Goto(c, [at |-> "match", signature |-> s])
    BY <1>1 DEF matchSignatureToScan, Idle
  <2>3. \E to : Goto(c, to) /\ to.at \in {"idle"} \cup MatchAt
    BY <2>2 DEF MatchAt
  <2> QED BY <2>1, <2>2, <2>3, MatcherMoves
<1>2. ASSUME scanForMatching(c) PROVE ThreatInv'
  <2>1. MatchInv'
    BY <1>0, <1>2, ScanIsRead
  <2>2. UNCHANGED <<bookVars, metricVars>> /\ call[c].at \in {"idle"} \cup MatchAt
    BY <1>2 DEF scanForMatching, MatchAt
  <2>3. \E to : Goto(c, to) /\ to.at \in {"idle"} \cup MatchAt
    BY <1>2 DEF scanForMatching, MatchAt
  <2> QED BY <2>1, <2>2, <2>3, MatcherMoves
<1>3. ASSUME assertAndConsume(c) PROVE ThreatInv'
  <2>1. MatchInv'
    BY <1>0, <1>3, OneIsPaid
  <2>2. UNCHANGED <<bookVars, metricVars>> /\ call[c].at \in {"idle"} \cup MatchAt
    BY <1>3 DEF assertAndConsume, MatchAt
  <2>3. \E to : Goto(c, to) /\ to.at \in {"idle"} \cup MatchAt
    <3>1. call[c] \in MatchStates
      BY <1>0, <1>3, StateIs DEF MatchInv, MatchTypes, assertAndConsume, MatchAt
    <3>2. [call[c] EXCEPT !.at = "find"].at = "find"
      BY <1>3, <3>1 DEF assertAndConsume, MatchStates
    <3> QED BY <1>3, <3>2 DEF assertAndConsume, MatchAt
  <2> QED BY <2>1, <2>2, <2>3, MatcherMoves
<1>4. ASSUME findMatch(c) PROVE ThreatInv'
  <2>1. MatchInv'
    BY <1>0, <1>4, RowIsSought
  <2>2. UNCHANGED <<bookVars, metricVars>> /\ call[c].at \in {"idle"} \cup MatchAt
    BY <1>4 DEF findMatch, MatchAt
  <2>3. \E to : Goto(c, to) /\ to.at \in {"idle"} \cup MatchAt
    BY <1>4 DEF findMatch, MatchAt
  <2> QED BY <2>1, <2>2, <2>3, MatcherMoves
<1>5. ASSUME putMatch(c) PROVE ThreatInv'
  <2>1. MatchInv'
    BY <1>0, <1>5, RowIsWritten
  <2>2. UNCHANGED <<bookVars, metricVars>> /\ call[c].at \in {"idle"} \cup MatchAt
    BY <1>5 DEF putMatch, MatchAt
  <2>3. \E to : Goto(c, to) /\ to.at \in {"idle"} \cup MatchAt
    BY <1>5 DEF putMatch, MatchAt
  <2> QED BY <2>1, <2>2, <2>3, MatcherMoves
<1>6. ASSUME MatchRevision(c) PROVE ThreatInv'
  <2>1. MatchInv'
    BY <1>0, <1>6, MatchingEnds
  <2>2. UNCHANGED <<bookVars, metricVars>> /\ call[c].at \in {"idle"} \cup MatchAt
    BY <1>6 DEF MatchRevision, MatchAt
  <2>3. \E to : Goto(c, to) /\ to.at \in {"idle"} \cup MatchAt
    BY <1>6 DEF MatchRevision, Idle
  <2> QED BY <2>1, <2>2, <2>3, MatcherMoves
<1> QED BY <1>1, <1>2, <1>3, <1>4, <1>5, <1>6

(* A request that reads or writes no match and no metric.                    *)
LEMMA WriterMoves ==
  ASSUME ThreatInv, UNCHANGED <<matchVars, metricVars>>, NEW c \in Callers,
         call[c].at \in {"idle", "write"}, NEW to \in {Idle} \cup WriteStates, Goto(c, to),
         entries' \in Seq(Entries), known' \subseteq Signatures, EntriesFit'
  PROVE  ThreatInv'
<1>0. call \in [Callers -> CallStates] /\ to \in CallStates /\ to.at \in {"idle", "write"}
  BY DEF ThreatInv, ThreatTypes, CallStates, WriteStates, Idle
<1>1. call' \in [Callers -> CallStates] /\ \A d \in Callers : call'[d] = IF d = c THEN to ELSE call[d]
  BY <1>0 DEF Goto
<1>2. ThreatTypes'
  BY <1>1 DEF ThreatInv, ThreatTypes, metricVars
<1>3. MatchInv'
  <2>1. \A d \in Callers : call'[d] = call[d] \/ call'[d].at \notin MatchAt
    BY <1>0, <1>1 DEF MatchAt
  <2>2. /\ MatchInv /\ UNCHANGED <<matches, together>>
        /\ \A s \in matched', f \in Findings : MatchesOf(s, f) # {}
    BY DEF ThreatInv, MatchInv, MatchFits, matchVars
  <2> QED BY <1>1, <2>1, <2>2, OthersMove
<1>4. MetricsFit'
  <2>1. \A d \in Callers : call'[d] = call[d] \/ (call[d].at \notin MeasureAt /\ call'[d].at \notin MeasureAt)
    BY <1>0, <1>1 DEF MeasureAt
  <2> QED BY <2>1, MetricsStay DEF ThreatInv
<1> QED BY <1>2, <1>3, <1>4 DEF ThreatInv

LEMMA EntryIsRecorded ==
  ASSUME ThreatInv, NEW c \in Callers, NEW shape \in Shapes, Record(c, shape) PROVE ThreatInv'
<1> DEFINE n == Len(entries) + 1  p == Plan(shape)  to == [at |-> "write", left |-> p, entry |-> n]
           new == [shape |-> shape, rows |-> <<>>, cut |-> FALSE]
<1>0. ThreatTypes /\ EntriesFit /\ call \in [Callers -> CallStates]
  BY DEF ThreatInv, ThreatTypes
<1>1. /\ call[c] = Idle /\ HasProvenance(shape) /\ Goto(c, to) /\ entries' = Append(entries, new)
      /\ known' = known /\ UNCHANGED <<matchVars, metricVars>>
  BY DEF Record
<1>2. p \in Seq(RowKinds)
  <2>1. PlanFits(p, shape)
    BY PlanIs, Zenon
  <2> QED BY <2>1, Zenon DEF PlanFits
<1> HIDE DEF p
<1>3. entries \in Seq(Entries) /\ Len(entries) \in Nat /\ DOMAIN entries = 1 .. Len(entries)
  BY <1>0, LenProperties DEF ThreatTypes
<1>4. to \in WriteStates /\ new \in Entries
  <2>1. n \in Nat \ {0} /\ <<>> \in Seq(RowKinds)
    BY <1>3
  <2> QED BY <1>2, <2>1 DEF WriteStates, Entries
<1>5. /\ entries' \in Seq(Entries) /\ DOMAIN entries' = 1 .. n /\ entries'[n] = new
      /\ \A i \in DOMAIN entries : entries'[i] = entries[i] /\ i \in DOMAIN entries' /\ i # n
  <2> HIDE DEF new
  <2>1. /\ Append(entries, new) \in Seq(Entries) /\ Len(Append(entries, new)) = n
        /\ \A i \in 1 .. Len(entries) : Append(entries, new)[i] = entries[i]
        /\ Append(entries, new)[n] = new
    BY <1>3, <1>4, AppendProperties
  <2>2. DOMAIN Append(entries, new) = 1 .. n
    BY <2>1, LenProperties
  <2> QED BY <1>1, <1>3, <2>1, <2>2
<1>6. \A d \in Callers : call'[d] = IF d = c THEN to ELSE call[d]
  BY <1>0, <1>1 DEF Goto
<1>7. call[c].at = "idle" /\ to.at = "write" /\ to.entry = n /\ to.left = p
  BY <1>1 DEF Idle
<1> HIDE DEF to
<1>8. ASSUME NEW i \in DOMAIN entries' PROVE EntryFits(i)'
  <2>1. CASE i \in DOMAIN entries
    <3>1. EntryFits(i) /\ entries'[i] = entries[i]
      BY <1>0, <1>5, <2>1 DEF EntriesFit
    <3>2. Writing(i) => Writing(i)'
      BY <1>6, <1>7 DEF Writing
    <3> QED BY <1>1, <3>1, <3>2 DEF EntryFits
  <2>2. CASE i = n
    <3>1. entries'[i].rows = <<>> /\ entries'[i].shape = shape
      BY <1>5, <2>2
    <3>2. Writing(i)'
      BY <1>6, <1>7, <2>2 DEF Writing
    <3>3. shape.kind = "entry" => shape.own \/ shape.sources > 0
      BY <1>1 DEF HasProvenance
    <3>4. /\ Len(<<>>) = 0 /\ 1 .. 0 = {} /\ \A a : ~Has(<<>>, a)
      BY DEF Has
    <3>5. Len(p) \in Nat
      BY <1>2, LenProperties
    <3> QED BY <3>1, <3>2, <3>3, <3>4, <3>5 DEF EntryFits, p
  <2> QED BY <1>3, <1>5, <2>1, <2>2
<1>9. ASSUME NEW d \in Callers, call'[d].at = "write" PROVE WriterFits(d)'
  <2>1. CASE d = c
    <3>1. call'[d] = to /\ entries'[n] = new /\ n \in DOMAIN entries'
      BY <1>3, <1>5, <1>6, <2>1
    <3>2. Len(<<>>) = 0 /\ \A k \in 1 .. Len(p) : 0 + k = k
      BY <1>2, LenProperties
    <3>3. Len(<<>>) + Len(p) = Len(p)
      BY <1>2, <3>2, LenProperties
    <3>4. ASSUME NEW x \in Callers, call'[x].at = "write", call'[x].entry = n PROVE x = c
      <4> SUFFICES ASSUME x # c PROVE FALSE
        OBVIOUS
      <4>1. call[x].at = "write" /\ call[x].entry = n
        BY <1>6, <3>4
      <4>2. n \in DOMAIN entries
        BY <1>0, <4>1 DEF EntriesFit, WriterFits
      <4> QED BY <1>3, <4>2
    <3>5. /\ call'[c].entry = n /\ call'[c].left = p /\ Plan(entries'[n].shape) = p
      <4>1. entries'[n].shape = shape
        BY <3>1
      <4>2. call'[c].entry = n /\ call'[c].left = p
        BY <1>7, <2>1, <3>1, Zenon
      <4> QED BY <4>1, <4>2, Zenon DEF p
    <3>6. PICK rows : rows = entries'[n].rows /\ Len(rows) = 0
      BY <3>1, <3>2
    <3>7. Len(rows) + Len(p) = Len(p) /\ \A k \in 1 .. Len(p) : p[k] = p[Len(rows) + k]
      BY <1>2, <3>2, <3>6, LenProperties
    <3> QED BY <2>1, <3>1, <3>4, <3>5, <3>6, <3>7, Zenon DEF WriterFits
  <2>2. CASE d # c
    <3>1. call'[d] = call[d] /\ call[d].at = "write" /\ WriterFits(d)
      BY <1>0, <1>6, <1>9, <2>2 DEF EntriesFit
    <3>2. call[d].entry \in DOMAIN entries
      BY <3>1 DEF WriterFits
    <3>3. ASSUME NEW x \in Callers, call'[x].at = "write", call'[x].entry = call[d].entry PROVE x = d
      BY <1>5, <1>6, <1>7, <3>1, <3>2, <3>3 DEF WriterFits
    <3> QED BY <1>5, <3>1, <3>2, <3>3 DEF WriterFits
  <2> QED BY <2>1, <2>2
<1>10. EntriesFit'
  BY <1>8, <1>9 DEF EntriesFit, WriterFits
<1>11. known' \subseteq Signatures
  BY <1>0, <1>1 DEF ThreatTypes
<1> QED BY <1>1, <1>4, <1>5, <1>7, <1>10, <1>11, WriterMoves

LEMMA RowIsAdded ==
  ASSUME ThreatInv, NEW c \in Callers, NEW kinds \in SUBSET (RowKinds \ {"refused"}), NEW learned \in SUBSET Signatures,
         WriteRow(c, kinds, learned),
         "signature" \in kinds => entries[call[c].entry].shape.signature \subseteq learned
  PROVE  ThreatInv'
<1> DEFINE q == call[c]  e == q.entry  old == entries[e]  row == Head(q.left)
           p == Plan(old.shape)  n == Len(old.rows)
           to == IF Len(q.left) = 1 THEN Idle ELSE [q EXCEPT !.left = Tail(@)]
           rows == Append(old.rows, row)
           new == [old EXCEPT !.rows = rows]
<1>0. ThreatTypes /\ EntriesFit /\ call \in [Callers -> CallStates]
  BY DEF ThreatInv, ThreatTypes
<1>1. /\ q.at = "write" /\ q.left # <<>> /\ row \in kinds /\ entries' = [entries EXCEPT ![e].rows = Append(@, row)]
      /\ known' = known \cup learned /\ Goto(c, to) /\ UNCHANGED <<matchVars, metricVars>>
  BY DEF WriteRow
<1>2. q \in WriteStates /\ q.left \in Seq(RowKinds)
  BY <1>0, <1>1, StateIs DEF WriteStates
<1>3. /\ entries \in Seq(Entries) /\ Len(entries) \in Nat /\ DOMAIN entries = 1 .. Len(entries)
      /\ \A i \in DOMAIN entries : entries[i] \in Entries
  BY <1>0, LenProperties, ElementOfSeq DEF ThreatTypes
<1>4. /\ e \in DOMAIN entries /\ n + Len(q.left) = Len(p) /\ \A k \in 1 .. Len(q.left) : q.left[k] = p[n + k]
      /\ \A d \in Callers : call[d].at = "write" /\ call[d].entry = e => d = c
  BY <1>0, <1>1 DEF EntriesFit, WriterFits
<1>5. old \in Entries /\ old.rows \in Seq(RowKinds) /\ old.shape \in Shapes /\ n \in Nat
  BY <1>3, <1>4, LenProperties DEF Entries
<1>6. p \in Seq(RowKinds) /\ Len(p) \in Nat
  <2>1. PlanFits(p, old.shape)
    BY <1>5, PlanIs, Zenon
  <2> QED BY <2>1, LenProperties, Zenon DEF PlanFits
<1>7. /\ Len(q.left) \in Nat /\ Len(q.left) >= 1 /\ row = q.left[1] /\ row \in RowKinds \ {"refused"}
      /\ Tail(q.left) \in Seq(RowKinds) /\ Len(Tail(q.left)) = Len(q.left) - 1
      /\ \A k \in 1 .. Len(q.left) - 1 : Tail(q.left)[k] = q.left[k + 1]
  <2>1. Len(q.left) \in Nat /\ Len(q.left) # 0
    BY <1>1, <1>2, LenProperties, EmptySeq
  <2> QED BY <1>1, <1>2, <2>1, HeadTailProperties
<1>8. /\ rows \in Seq(RowKinds) /\ Len(rows) = n + 1 /\ rows[n + 1] = row /\ \A k \in 1 .. n : rows[k] = old.rows[k]
  <2>1. row \in RowKinds
    BY <1>7
  <2> HIDE DEF row, old
  <2>2. /\ Append(old.rows, row) \in Seq(RowKinds) /\ Len(Append(old.rows, row)) = Len(old.rows) + 1
        /\ Append(old.rows, row)[Len(old.rows) + 1] = row
        /\ \A k \in 1 .. Len(old.rows) : Append(old.rows, row)[k] = old.rows[k]
    BY <1>5, <2>1, AppendProperties
  <2> QED BY <2>2
<1>9. /\ new \in Entries /\ new.rows = rows /\ new.shape = old.shape /\ new.cut = old.cut
  BY <1>5, <1>8 DEF Entries
<1>10. /\ entries' \in Seq(Entries) /\ DOMAIN entries' = DOMAIN entries /\ entries'[e] = new
       /\ \A i \in DOMAIN entries : i # e => entries'[i] = entries[i]
  <2>1. entries' = [entries EXCEPT ![e] = new]
    BY <1>1
  <2> HIDE DEF new
  <2>2. DOMAIN entries' = DOMAIN entries /\ entries'[e] = new /\ \A i \in DOMAIN entries : i # e => entries'[i] = entries[i]
    BY <1>3, <1>4, <2>1
  <2>3. entries' \in Seq(Entries)
    BY <1>3, <1>4, <1>9, <2>1, ExceptSeq
  <2> QED BY <2>2, <2>3
<1>11. /\ to \in {Idle} \cup WriteStates /\ (Len(q.left) # 1 => to.at = "write" /\ to.entry = e /\ to.left = Tail(q.left))
       /\ Len(q.left) = 1 => to.at = "idle"
  BY <1>2, <1>7 DEF WriteStates, Idle
<1>12. \A d \in Callers : call'[d] = IF d = c THEN to ELSE call[d]
  BY <1>0, <1>1 DEF Goto
<1>13. /\ old = entries[e] /\ entries'[e] = new /\ e \in DOMAIN entries' /\ Plan(old.shape) = p
       /\ Len(new.rows) = n + 1 /\ new.rows = rows /\ new.shape = old.shape /\ Len(old.rows) = n
  BY <1>4, <1>8, <1>9, <1>10
<1>14. q = call[c] /\ q.entry = e
  OBVIOUS
<1> HIDE DEF q, e, old, row, p, n, to, rows, new
<1>15. ASSUME NEW i \in DOMAIN entries, i # e PROVE EntryFits(i)'
  <2>1. EntryFits(i) /\ entries'[i] = entries[i]
    BY <1>0, <1>10, <1>15 DEF EntriesFit
  <2>2. Writing(i) => Writing(i)'
    BY <1>12, <1>14, <1>15 DEF Writing
  <2>3. known \subseteq known'
    BY <1>1
  <2> QED BY <2>1, <2>2, <2>3 DEF EntryFits
<1>16. ASSUME NEW x, x = e PROVE EntryFits(x)'
  <2>1. EntryFits(e)
    BY <1>0, <1>4 DEF EntriesFit
  <2>2. /\ ~Has(old.rows, "refused") /\ \A k \in 1 .. n : old.rows[k] = p[k]
        /\ Has(old.rows, "signature") => old.shape.signature \subseteq known
        /\ old.shape.kind = "entry" => old.shape.own \/ old.shape.sources > 0
    BY <1>13, <2>1, Zenon DEF EntryFits
  <2>3. n + 1 <= Len(p) /\ \A k \in 1 .. n + 1 : rows[k] = p[k]
    <3>1. n + 1 <= Len(p) /\ row = p[n + 1]
      BY <1>4, <1>5, <1>6, <1>7
    <3>2. \A k \in 1 .. n + 1 : k = n + 1 \/ k \in 1 .. n
      BY <1>5
    <3> QED BY <1>8, <2>2, <3>1, <3>2
  <2>4. \A a : Has(rows, a) => Has(old.rows, a) \/ a = row
    <3>1. DOMAIN rows = 1 .. n + 1 /\ DOMAIN old.rows = 1 .. n
      BY <1>5, <1>8, <1>13, LenProperties
    <3>2. \A k \in 1 .. n + 1 : k = n + 1 \/ k \in 1 .. n
      BY <1>5
    <3> QED BY <1>8, <3>1, <3>2 DEF Has
  <2>5. ~Has(rows, "refused")
    <3>1. row # "refused"
      BY <1>7
    <3> QED BY <2>2, <2>4, <3>1, Zenon
  <2>6. Has(rows, "signature") => old.shape.signature \subseteq known'
    <3>1. CASE row = "signature"
      <4>1. old.shape.signature \subseteq learned
        BY <1>1, <1>13, <1>14, <3>1, Zenon
      <4> QED BY <1>1, <4>1
    <3>2. CASE row # "signature"
      BY <1>1, <2>2, <2>4, <3>2
    <3> QED BY <3>1, <3>2
  <2>7. n + 1 = Len(p) \/ Writing(x)'
    <3>1. CASE Len(q.left) = 1
      BY <1>4, <1>5, <1>6, <1>7, <3>1
    <3>2. CASE Len(q.left) # 1
      <4>1. call'[c].at = "write" /\ call'[c].entry = e
        BY <1>11, <1>12, <3>2
      <4> QED BY <1>16, <4>1 DEF Writing
    <3> QED BY <3>1, <3>2
  <2>8. entries'[x].rows = rows /\ entries'[x].shape = old.shape
    BY <1>13, <1>16
  <2>9. Len(rows) = n + 1 /\ Plan(entries'[x].shape) = p
    BY <1>8, <1>13, <2>8, Zenon
  <2>10. /\ Len(rows) <= Len(p) /\ \A k \in 1 .. Len(rows) : rows[k] = p[k]
         /\ Len(rows) = Len(p) \/ Writing(x)'
    BY <2>3, <2>7, <2>9, Zenon
  <2> QED BY <2>2, <2>5, <2>6, <2>8, <2>9, <2>10, Zenon DEF EntryFits
<1>17. ASSUME NEW d \in Callers, call'[d].at = "write" PROVE WriterFits(d)'
  <2>0. \A x \in Callers : call'[x].at = "write" => call[x].at = "write" /\ call'[x].entry = call[x].entry
    BY <1>1, <1>11, <1>12, <1>14
  <2>1. WriterFits(d) /\ call[d].at = "write" /\ call[d].entry \in DOMAIN entries
    BY <1>0, <1>17, <2>0 DEF EntriesFit, WriterFits
  <2>2. \A x \in Callers : call'[x].at = "write" /\ call'[x].entry = call'[d].entry => x = d
    BY <1>17, <2>0, <2>1 DEF WriterFits
  <2>3. CASE d = c
    <3>1. Len(q.left) # 1 /\ call'[c].entry = e /\ call'[c].left = Tail(q.left)
      BY <1>11, <1>12, <1>17, <2>3
    <3>2. PICK left : left = Tail(q.left) /\ Len(left) = Len(q.left) - 1
      BY <1>7
    <3>3. (n + 1) + Len(left) = Len(p)
      <4>1. \A a, b \in Nat : b >= 1 => (a + 1) + (b - 1) = a + b
        OBVIOUS
      <4> QED BY <1>4, <1>5, <1>7, <3>2, <4>1, Zenon
    <3>4. ASSUME NEW k \in 1 .. Len(left) PROVE left[k] = p[(n + 1) + k]
      <4>1. k + 1 \in 1 .. Len(q.left) /\ k \in 1 .. Len(q.left) - 1 /\ n + (k + 1) = (n + 1) + k
        BY <1>5, <1>7, <3>2
      <4> QED BY <1>4, <1>7, <3>2, <4>1
    <3>5. PICK m : m = Len(new.rows) /\ m + Len(left) = Len(p) /\ \A k \in 1 .. Len(left) : left[k] = p[m + k]
      BY <1>13, <3>3, <3>4
    <3>6. Plan(new.shape) = p
      BY <1>13, Zenon
    <3> QED BY <1>13, <2>2, <2>3, <3>1, <3>2, <3>5, <3>6, Zenon DEF WriterFits
  <2>4. CASE d # c
    <3>1. call'[d] = call[d] /\ call[d].entry # e
      BY <1>4, <1>12, <2>1, <2>4
    <3>2. entries'[call[d].entry] = entries[call[d].entry]
      BY <1>10, <2>1, <3>1
    <3> QED BY <1>10, <2>1, <2>2, <3>1, <3>2 DEF WriterFits
  <2> QED BY <2>3, <2>4
<1>18. EntriesFit'
  <2>1. ASSUME NEW i \in DOMAIN entries' PROVE EntryFits(i)'
    BY <1>10, <1>15, <1>16
  <2>2. ASSUME NEW d \in Callers PROVE WriterFits(d)'
    BY <1>17, Zenon DEF WriterFits
  <2> QED BY <2>1, <2>2 DEF EntriesFit
<1>19. known' \subseteq Signatures
  BY <1>0, <1>1 DEF ThreatTypes
<1> QED BY <1>1, <1>10, <1>11, <1>14, <1>18, <1>19, WriterMoves

LEMMA WriterStep ==
  ASSUME ThreatInv, NEW c \in Callers,
         createEntryRow(c) \/ createSignatureRow(c) \/ createLabelRow(c) \/ createRevision(c)
  PROVE  ThreatInv'
<1>1. CASE createEntryRow(c)
  <2>1. {"entry", "source", "reference"} \in SUBSET (RowKinds \ {"refused"}) /\ {} \in SUBSET Signatures
    BY DEF RowKinds
  <2> QED BY <1>1, <2>1, RowIsAdded DEF createEntryRow
<1>2. CASE createSignatureRow(c)
  <2>1. /\ {"signature"} \in SUBSET (RowKinds \ {"refused"}) /\ {"condition"} \in SUBSET (RowKinds \ {"refused"})
        /\ {} \in SUBSET Signatures
    BY DEF RowKinds
  <2>2. CASE call[c].at = "write" /\ WriteRow(c, {"signature"}, entries[call[c].entry].shape.signature)
    <3>1. entries[call[c].entry] \in Entries
      <4>1. call[c].entry \in DOMAIN entries
        BY <2>2 DEF ThreatInv, EntriesFit, WriterFits
      <4> QED BY <4>1, ElementOfSeq, LenProperties DEF ThreatInv, ThreatTypes
    <3>2. entries[call[c].entry].shape.signature \in SUBSET Signatures
      BY <3>1, ThreatAssumption DEF Entries
    <3> QED BY <2>1, <2>2, <3>2, RowIsAdded
  <2>3. CASE WriteRow(c, {"condition"}, {})
    BY <2>1, <2>3, RowIsAdded
  <2> QED BY <1>2, <2>2, <2>3 DEF createSignatureRow
<1>3. CASE createLabelRow(c)
  <2>1. {"label"} \in SUBSET (RowKinds \ {"refused"}) /\ {} \in SUBSET Signatures
    BY DEF RowKinds
  <2> QED BY <1>3, <2>1, RowIsAdded DEF createLabelRow
<1>4. CASE createRevision(c)
  <2>1. {"entry revised", "signature revised", "import revised"} \in SUBSET (RowKinds \ {"refused"}) /\ {} \in SUBSET Signatures
    BY DEF RowKinds
  <2> QED BY <1>4, <2>1, RowIsAdded DEF createRevision
<1> QED BY <1>1, <1>2, <1>3, <1>4

(* A request that measures a rule: it moves itself, and tells the others     *)
(* that a report came.                                                       *)
LEMMA ReporterMoves ==
  ASSUME ThreatInv, UNCHANGED <<bookVars, matchVars>>, NEW c \in Callers,
         call[c].at \in {"idle"} \cup ReportAt, call' \in [Callers -> CallStates],
         call'[c].at \in {"idle"} \cup ReportAt,
         \A d \in Callers \ {c} : call'[d] = call[d] \/ (call[d].at \in ReportAt /\ call'[d].at \in ReportAt),
         feedback' \in Seq(Findings), metrics' \in Seq(Metrics), unmeasured' \in Nat, MetricsFit'
  PROVE  ThreatInv'
<1>1. ThreatTypes'
  BY DEF ThreatInv, ThreatTypes, bookVars
<1>2. MatchInv'
  <2>1. \A d \in Callers : call'[d] = call[d] \/ call'[d].at \notin MatchAt
    BY DEF MatchAt, ReportAt
  <2>2. /\ MatchInv /\ UNCHANGED <<matches, together>>
        /\ \A s \in matched', f \in Findings : MatchesOf(s, f) # {}
    BY DEF ThreatInv, MatchInv, MatchFits, matchVars
  <2> QED BY <2>1, <2>2, OthersMove
<1>3. EntriesFit'
  <2>1. \A d \in Callers : call'[d] = call[d] \/ (call[d].at # "write" /\ call'[d].at # "write")
    BY DEF ReportAt
  <2> QED BY <2>1, EntriesStay DEF ThreatInv
<1> QED BY <1>1, <1>2, <1>3 DEF ThreatInv

LEMMA ReportOne ==
  ASSUME NEW c \in Callers, call \in [Callers -> CallStates], call[c].at \in ReportAt
  PROVE  /\ call[c] \in ReportStates /\ call[c].finding \in Findings /\ call[c].met \in Nat
         /\ call[c].at \in {"seek", "store"} => call[c].snapshot \in Snapshots
         /\ call[c].at = "store" => call[c].id \in Nat
<1>1. call[c] \in ReportStates
  BY StateIs
<1> QED BY <1>1 DEF ReportStates, ReportAt

LEMMA MetricIs ==
  ASSUME ThreatTypes, NEW i \in DOMAIN metrics
  PROVE  /\ metrics[i] \in Metrics /\ metrics[i].snapshot \in Snapshots /\ metrics[i].snapshot.reports \in Nat
         /\ metrics[i].met \in Nat /\ unmeasured \in Nat
<1>1. metrics[i] \in Metrics
  BY ElementOfSeq, LenProperties DEF ThreatTypes
<1> QED BY <1>1 DEF Metrics, Snapshots, ThreatTypes

LEMMA RuleIs ==
  ASSUME NEW f \in Findings
  PROVE  RuleOf[f] \in Rules
BY DEF Rules

LEMMA ToldIs ==
  ASSUME ThreatTypes, NEW rule
  PROVE  Told(rule) \in Nat /\ Told(rule) = Cardinality(Reports(Of(rule)))
BY ReportsFinite DEF ThreatTypes, Told

LEMMA FeedbackBegins ==
  ASSUME ThreatInv, NEW c \in Callers, NEW f \in Findings, addFalsePositiveFeedback(c, f) PROVE ThreatInv'
<1> DEFINE to == [at |-> "report", finding |-> f, met |-> 0]
<1>0. ThreatTypes /\ MetricsFit /\ call \in [Callers -> CallStates]
  BY DEF ThreatInv, ThreatTypes
<1>1. to \in CallStates /\ to.at = "report"
  BY DEF CallStates, ReportStates
<1>2. /\ call' \in [Callers -> CallStates] /\ call[c].at = "idle" /\ call'[c].at = "report"
      /\ \A d \in Callers \ {c} : call'[d] = call[d]
      /\ UNCHANGED <<bookVars, matchVars>> /\ UNCHANGED metricVars
  BY <1>0, <1>1 DEF addFalsePositiveFeedback, Goto, Idle
<1>3. MetricsFit'
  <2>1. \A d \in Callers : call'[d] = call[d] \/ (call[d].at \notin MeasureAt /\ call'[d].at \notin MeasureAt)
    BY <1>2 DEF MeasureAt
  <2> QED BY <1>0, <1>2, <2>1, MetricsStay
<1>4. feedback' \in Seq(Findings) /\ metrics' \in Seq(Metrics) /\ unmeasured' \in Nat
  BY <1>0, <1>2 DEF ThreatTypes, metricVars
<1>5. call[c].at \in {"idle"} \cup ReportAt /\ call'[c].at \in {"idle"} \cup ReportAt
  BY <1>2 DEF ReportAt
<1> QED BY <1>2, <1>3, <1>4, <1>5, ReporterMoves

(* A report counts for the rule that made its finding, and for no other.     *)
LEMMA ReportCounts ==
  ASSUME ThreatTypes, NEW f \in Findings, feedback' = Append(feedback, f), NEW rule
  PROVE  /\ Told(rule)' \in Nat /\ Told(rule)' <= Told(rule) + 1
         /\ RuleOf[f] # rule => Told(rule)' = Told(rule)
<1> DEFINE n == Len(feedback) + 1  S == Of(rule)
<1>1. feedback \in Seq(Findings) /\ Len(feedback) \in Nat /\ DOMAIN feedback = 1 .. Len(feedback)
  BY LenProperties DEF ThreatTypes
<1>2. /\ feedback' \in Seq(Findings) /\ DOMAIN feedback' = 1 .. n /\ feedback'[n] = f
      /\ \A i \in 1 .. Len(feedback) : feedback'[i] = feedback[i]
  BY <1>1, AppendProperties, LenProperties
<1>3. \A i \in 1 .. n : i = n \/ i \in 1 .. Len(feedback)
  BY <1>1
<1>4. f \in S <=> RuleOf[f] = rule
  BY DEF Of
<1>5. Reports(S)' = IF RuleOf[f] = rule THEN Reports(S) \cup {n} ELSE Reports(S)
  <2>1. Reports(S)' = {i \in DOMAIN feedback' : feedback'[i] \in S}
    BY DEF Reports, Of
  <2>2. Reports(S) = {i \in DOMAIN feedback : feedback[i] \in S}
    BY DEF Reports
  <2>3. n \in 1 .. n /\ 1 .. Len(feedback) \subseteq 1 .. n /\ n \notin 1 .. Len(feedback)
    BY <1>1
  <2> HIDE DEF S
  <2>4. CASE RuleOf[f] = rule
    BY <1>1, <1>2, <1>3, <1>4, <2>1, <2>2, <2>3, <2>4
  <2>5. CASE RuleOf[f] # rule
    BY <1>1, <1>2, <1>3, <1>4, <2>1, <2>2, <2>3, <2>5
  <2> QED BY <2>4, <2>5
<1>6. IsFiniteSet(Reports(S)) /\ Cardinality(Reports(S)) \in Nat
  BY <1>1, ReportsFinite
<1>7. Told(rule) = Cardinality(Reports(S)) /\ Told(rule)' = Cardinality(Reports(S)')
  BY DEF Told, Of, Reports
<1>8. CASE RuleOf[f] # rule
  BY <1>5, <1>6, <1>7, <1>8
<1>9. CASE RuleOf[f] = rule
  <2>1. Cardinality(Reports(S) \cup {n}) = IF n \in Reports(S) THEN Cardinality(Reports(S)) ELSE Cardinality(Reports(S)) + 1
    BY <1>6, FS_AddElement
  <2>2. Reports(S)' = Reports(S) \cup {n}
    BY <1>5, <1>9
  <2> QED BY <1>6, <1>7, <1>9, <2>1, <2>2
<1> QED BY <1>8, <1>9

LEMMA FeedbackIsStored == ASSUME ThreatInv, NEW c \in Callers, createFalsePositiveFeedback(c) PROVE ThreatInv'
<1> DEFINE to == [call[c] EXCEPT !.at = "measure"]
<1>0. ThreatTypes /\ MetricsFit /\ call \in [Callers -> CallStates]
  BY DEF ThreatInv, ThreatTypes
<1>1. /\ call[c].at = "report" /\ feedback' = Append(feedback, call[c].finding)
      /\ call' = [d \in Callers |-> IF d = c THEN to ELSE IF d \in Reporting THEN [call[d] EXCEPT !.met = @ + 1] ELSE call[d]]
      /\ metrics' = metrics /\ unmeasured' = unmeasured /\ UNCHANGED <<bookVars, matchVars>>
  BY DEF createFalsePositiveFeedback, Report
<1>2. PICK f \in Findings : f = call[c].finding
  BY <1>0, <1>1, ReportOne DEF ReportAt
<1>3. /\ to \in ReportStates /\ to.at = "measure" /\ to.finding = f
  BY <1>0, <1>1, <1>2, ReportOne DEF ReportStates, ReportAt
<1>4. ASSUME NEW d \in Callers, d \in Reporting
      PROVE  LET now == [call[d] EXCEPT !.met = @ + 1]
             IN /\ now \in ReportStates /\ now.at = call[d].at /\ now.finding = call[d].finding
                /\ now.met = call[d].met + 1 /\ call[d].met \in Nat
                /\ call[d].at \in {"seek", "store"} => now.snapshot = call[d].snapshot /\ call[d].snapshot \in Snapshots
                /\ call[d].at = "store" => now.id = call[d].id
  <2>1. call[d] \in ReportStates
    BY <1>0, <1>4, ReportOne DEF Reporting, ReportAt
  <2> QED BY <2>1 DEF ReportStates
<1> HIDE DEF to
<1>5. /\ call'[c] = to /\ \A d \in Callers \ {c} : d \in Reporting => call'[d] = [call[d] EXCEPT !.met = @ + 1]
      /\ \A d \in Callers \ {c} : d \notin Reporting => call'[d] = call[d]
  BY <1>1
<1>6. call' \in [Callers -> CallStates]
  <2>1. ASSUME NEW d \in Callers PROVE call'[d] \in CallStates
    BY <1>0, <1>3, <1>4, <1>5 DEF CallStates
  <2> QED BY <1>1, <2>1
<1>7. /\ \A d \in Callers \ {c} : call'[d].at = call[d].at
      /\ \A d \in Callers : d \in Reporting => call'[d].finding = call[d].finding
  BY <1>2, <1>3, <1>4, <1>5
<1>8. ASSUME NEW rule
      PROVE  /\ Told(rule) \in Nat /\ Told(rule)' \in Nat /\ Told(rule)' <= Told(rule) + 1
             /\ RuleOf[f] # rule => Told(rule)' = Told(rule)
  BY <1>0, <1>1, <1>2, ReportCounts, ToldIs
<1>9. ASSUME NEW rule
      PROVE  Past(rule)' = IF RuleOf[f] = rule THEN Past(rule) \cup {c} ELSE Past(rule)
  <2>1. \A d \in Callers \ {c} : d \in Past(rule)' <=> d \in Past(rule)
    BY <1>7 DEF Past, Reporting, MeasureAt
  <2>2. c \in Past(rule)' <=> RuleOf[f] = rule
    BY <1>3, <1>5 DEF Past, MeasureAt
  <2>3. c \notin Past(rule) /\ Past(rule) \subseteq Callers /\ Past(rule)' \subseteq Callers
    BY <1>1 DEF Past, MeasureAt
  <2> QED BY <2>1, <2>2, <2>3
<1>10. ASSUME NEW d \in Callers PROVE SnapshotFits(d)'
  <2>1. CASE d = c
    BY <1>3, <1>5, <2>1 DEF SnapshotFits
  <2>2. CASE d # c /\ d \notin Reporting
    BY <1>5, <2>2 DEF SnapshotFits, Reporting
  <2>3. CASE d # c /\ d \in Reporting
    <3>1. SnapshotFits(d)
      BY <1>0 DEF MetricsFit
    <3>2. call'[d] = [call[d] EXCEPT !.met = @ + 1] /\ call'[d].at = call[d].at /\ call'[d].finding = call[d].finding
          /\ call'[d].met = call[d].met + 1 /\ call[d].met \in Nat
      BY <1>4, <1>5, <2>3
    <3>3. ASSUME call[d].at \in {"seek", "store"}
          PROVE  /\ call'[d].snapshot.rule = RuleOf[call'[d].finding]
                 /\ Told(call[d].snapshot.rule)' <= call'[d].snapshot.reports + call'[d].met
      <4>1. call'[d].snapshot = call[d].snapshot /\ call[d].snapshot \in Snapshots
        BY <1>4, <1>5, <2>3, <3>3
      <4>2. PICK rule : rule = call[d].snapshot.rule
        OBVIOUS
      <4>3. PICK reports \in Nat : reports = call[d].snapshot.reports
        BY <4>1 DEF Snapshots
      <4>4. Told(rule) <= reports + call[d].met /\ rule = RuleOf[call[d].finding]
        BY <3>1, <3>3, <4>2, <4>3 DEF SnapshotFits
      <4>5. Told(rule)' <= reports + (call[d].met + 1)
        <5>1. \A t, u, a, b \in Nat : u <= t + 1 /\ t <= a + b => u <= a + (b + 1)
          OBVIOUS
        <5> QED BY <1>8, <3>2, <4>4, <5>1, Zenon
      <4>6. rule = call'[d].snapshot.rule /\ reports = call'[d].snapshot.reports
        BY <4>1, <4>2, <4>3
      <4> QED BY <3>2, <4>4, <4>5, <4>6, Zenon
    <3>4. call'[d].at = "store" /\ call'[d].id # 0 =>
            call'[d].id \in DOMAIN metrics' /\ metrics'[call'[d].id].snapshot.rule = call'[d].snapshot.rule
      BY <1>1, <1>4, <1>5, <2>3, <3>1 DEF SnapshotFits
    <3> QED BY <3>2, <3>3, <3>4 DEF SnapshotFits
  <2> QED BY <2>1, <2>2, <2>3
<1>11. ASSUME NEW i \in DOMAIN metrics, metrics[i].snapshot.rule.name # "" PROVE MetricFits(i)'
  <2>1. PICK rule : rule = metrics[i].snapshot.rule
    OBVIOUS
  <2>2. PICK r \in Nat, m \in Nat, u \in Nat : r = metrics[i].snapshot.reports /\ m = metrics[i].met /\ u = unmeasured
    BY <1>0, MetricIs
  <2>3. /\ Told(rule) <= r + m + Cardinality(Past(rule)) + u
        /\ \A j \in DOMAIN metrics : metrics[j].snapshot.rule = rule => j = i
    BY <1>0, <1>11, <2>1, <2>2 DEF MetricsFit, MetricFits
  <2>4. IsFiniteSet(Past(rule)) /\ Cardinality(Past(rule)) \in Nat /\ c \notin Past(rule)
    BY <1>1, PastIs DEF Past, MeasureAt
  <2>5. Told(rule)' <= r + m + Cardinality(Past(rule)') + u
    <3>1. CASE RuleOf[f] = rule
      <4>1. Past(rule)' = Past(rule) \cup {c}
        BY <1>9, <3>1
      <4>2. Cardinality(Past(rule)') = Cardinality(Past(rule)) + 1
        BY <2>4, <4>1, FS_AddElement
      <4>3. \A s, t, p \in Nat : s <= t + 1 /\ t <= r + m + p + u => s <= r + m + (p + 1) + u
        OBVIOUS
      <4> QED BY <1>8, <2>3, <2>4, <4>2, <4>3, Zenon
    <3>2. CASE RuleOf[f] # rule
      BY <1>8, <1>9, <2>3, <3>2, Zenon
    <3> QED BY <3>1, <3>2
  <2>6. /\ metrics' = metrics /\ rule = metrics'[i].snapshot.rule /\ r = metrics'[i].snapshot.reports
        /\ m = metrics'[i].met /\ u = unmeasured'
    BY <1>1, <2>1, <2>2
  <2> QED BY <2>3, <2>5, <2>6, Zenon DEF MetricFits
<1>12. MetricsFit'
  <2>1. ASSUME NEW i \in DOMAIN metrics PROVE MetricFits(i)'
    BY <1>1, <1>11 DEF MetricFits
  <2> QED BY <1>1, <1>10, <2>1 DEF MetricsFit
<1>13. feedback' \in Seq(Findings) /\ metrics' \in Seq(Metrics) /\ unmeasured' \in Nat
  BY <1>0, <1>1, <1>2, AppendProperties DEF ThreatTypes
<1>14. /\ call[c].at \in {"idle"} \cup ReportAt /\ call'[c].at \in {"idle"} \cup ReportAt
       /\ \A d \in Callers \ {c} : call'[d] = call[d] \/ (call[d].at \in ReportAt /\ call'[d].at \in ReportAt)
  BY <1>1, <1>3, <1>5, <1>7 DEF ReportAt, Reporting
<1> QED BY <1>1, <1>6, <1>12, <1>13, <1>14, ReporterMoves

(* A request goes on with the report it has, without writing.                *)
LEMMA ReporterGoesOn ==
  ASSUME ThreatInv, UNCHANGED <<bookVars, matchVars, metricVars>>, NEW c \in Callers, call[c].at \in MeasureAt,
         NEW to \in ReportStates, Goto(c, to), to.at \in MeasureAt, to.finding = call[c].finding, SnapshotFits(c)'
  PROVE  ThreatInv'
<1>0. ThreatTypes /\ MetricsFit /\ call \in [Callers -> CallStates] /\ to \in CallStates
  BY DEF ThreatInv, ThreatTypes, CallStates
<1>1. /\ call' \in [Callers -> CallStates] /\ call'[c] = to /\ \A d \in Callers \ {c} : call'[d] = call[d]
  BY <1>0 DEF Goto
<1>2. feedback' = feedback /\ metrics' = metrics /\ unmeasured' = unmeasured
  BY DEF metricVars
<1>3. \A rule : Told(rule)' = Told(rule)
  BY <1>2 DEF Told, Reports
<1>4. \A rule : Past(rule)' = Past(rule)
  <2>1. ASSUME NEW d \in Callers
        PROVE  /\ call'[d].at \in MeasureAt <=> call[d].at \in MeasureAt
               /\ call[d].at \in MeasureAt => call'[d].finding = call[d].finding
    BY <1>1
  <2> QED BY <2>1 DEF Past
<1>5. ASSUME NEW d \in Callers PROVE SnapshotFits(d)'
  <2>1. CASE d = c
    BY <2>1
  <2>2. CASE d # c
    BY <1>0, <1>1, <1>2, <1>3, <2>2 DEF MetricsFit, SnapshotFits
  <2> QED BY <2>1, <2>2
<1>6. ASSUME NEW i \in DOMAIN metrics PROVE MetricFits(i)'
  <2>1. MetricFits(i)
    BY <1>0 DEF MetricsFit
  <2> QED BY <1>2, <1>3, <1>4, <2>1, Zenon DEF MetricFits
<1>7. MetricsFit'
  BY <1>2, <1>5, <1>6 DEF MetricsFit
<1>8. feedback' \in Seq(Findings) /\ metrics' \in Seq(Metrics) /\ unmeasured' \in Nat
  BY <1>0, <1>2 DEF ThreatTypes
<1>9. call[c].at \in {"idle"} \cup ReportAt /\ call'[c].at \in {"idle"} \cup ReportAt
  BY <1>1 DEF ReportAt, MeasureAt
<1> QED BY <1>1, <1>7, <1>8, <1>9, ReporterMoves

LEMMA RuleIsMeasured == ASSUME ThreatInv, NEW c \in Callers, refreshPrecisionForFinding(c) PROVE ThreatInv'
<1> DEFINE snapshot == computePrecisionSnapshot(RuleOf[call[c].finding])
           to == [at |-> "seek", finding |-> call[c].finding, met |-> call[c].met, snapshot |-> snapshot]
<1>0. ThreatTypes /\ MetricsFit /\ call \in [Callers -> CallStates] /\ feedback \in Seq(Findings)
  BY DEF ThreatInv, ThreatTypes
<1>1. call[c].at = "measure" /\ Goto(c, to) /\ UNCHANGED <<bookVars, matchVars, metricVars>>
  BY DEF refreshPrecisionForFinding, Measured
<1>2. call[c].finding \in Findings /\ call[c].met \in Nat
  BY <1>0, <1>1, ReportOne DEF ReportAt
<1>3. PICK rule \in Rules : rule = RuleOf[call[c].finding]
  BY <1>2, RuleIs
<1>4. /\ snapshot \in Snapshots /\ snapshot.rule = rule /\ snapshot.reports = Told(rule)
  BY <1>0, <1>3, SnapshotIs DEF Told
<1> HIDE DEF snapshot
<1>5. to \in ReportStates /\ to.at = "seek" /\ to.finding = call[c].finding /\ to.met = call[c].met /\ to.snapshot = snapshot
  BY <1>2, <1>4 DEF ReportStates
<1> HIDE DEF to
<1>6. call'[c] = to
  BY <1>0, <1>1 DEF Goto
<1>7. Told(rule) \in Nat /\ Told(rule)' = Told(rule)
  BY <1>0, <1>1, ToldIs DEF Told, Reports, metricVars
<1>8. SnapshotFits(c)'
  <2>1. call'[c].snapshot.rule = rule /\ RuleOf[call'[c].finding] = rule /\ call'[c].at = "seek"
    BY <1>3, <1>4, <1>5, <1>6
  <2>2. Told(rule)' <= call'[c].snapshot.reports + call'[c].met
    BY <1>2, <1>4, <1>5, <1>6, <1>7
  <2> QED BY <2>1, <2>2 DEF SnapshotFits
<1> QED BY <1>1, <1>5, <1>8, ReporterGoesOn DEF MeasureAt

LEMMA MetricIsSought == ASSUME ThreatInv, NEW c \in Callers, findMetric(c) PROVE ThreatInv'
<1>0. ThreatTypes /\ MetricsFit /\ call \in [Callers -> CallStates] /\ metrics \in Seq(Metrics)
  BY DEF ThreatInv, ThreatTypes
<1>1. PICK i : /\ i = 0 \/ i \in MetricsOf(call[c].snapshot.rule)
               /\ Goto(c, [at |-> "store", finding |-> call[c].finding, met |-> call[c].met,
                           snapshot |-> call[c].snapshot, id |-> i])
  BY DEF findMetric
<1> DEFINE to == [at |-> "store", finding |-> call[c].finding, met |-> call[c].met,
                  snapshot |-> call[c].snapshot, id |-> i]
<1>2. call[c].at = "seek" /\ Goto(c, to) /\ UNCHANGED <<bookVars, matchVars, metricVars>>
  BY <1>1 DEF findMetric
<1>3. call[c].finding \in Findings /\ call[c].met \in Nat /\ call[c].snapshot \in Snapshots
  BY <1>0, <1>2, ReportOne DEF ReportAt
<1>4. i \in Nat /\ (i # 0 => i \in DOMAIN metrics /\ metrics[i].snapshot.rule = call[c].snapshot.rule)
  <2>1. DOMAIN metrics \subseteq Nat
    BY <1>0, LenProperties
  <2> QED BY <1>1, <2>1 DEF MetricsOf
<1>5. /\ to \in ReportStates /\ to.at = "store" /\ to.finding = call[c].finding /\ to.met = call[c].met
      /\ to.snapshot = call[c].snapshot /\ to.id = i
  BY <1>3, <1>4 DEF ReportStates
<1> HIDE DEF to
<1>6. call'[c] = to
  BY <1>0, <1>2 DEF Goto
<1>7. \A rule : Told(rule)' = Told(rule)
  BY <1>2 DEF Told, Reports, metricVars
<1>8. SnapshotFits(c)'
  <2>1. SnapshotFits(c)
    BY <1>0 DEF MetricsFit
  <2>2. PICK rule : rule = call[c].snapshot.rule
    OBVIOUS
  <2>3. rule = RuleOf[call[c].finding] /\ Told(rule) <= call[c].snapshot.reports + call[c].met
    BY <1>2, <2>1, <2>2 DEF SnapshotFits
  <2>4. Told(rule)' <= call'[c].snapshot.reports + call'[c].met /\ call'[c].snapshot.rule = rule
        /\ RuleOf[call'[c].finding] = rule
    BY <1>5, <1>6, <1>7, <2>2, <2>3
  <2>5. metrics' = metrics
    BY <1>2 DEF metricVars
  <2>6. call'[c].id # 0 => call'[c].id \in DOMAIN metrics' /\ metrics'[call'[c].id].snapshot.rule = rule
    BY <1>4, <1>5, <1>6, <2>2, <2>5
  <2> QED BY <2>4, <2>6 DEF SnapshotFits
<1> QED BY <1>2, <1>5, <1>8, ReporterGoesOn DEF MeasureAt

LEMMA MetricIsStored == ASSUME ThreatInv, NEW c \in Callers, putMetric(c) PROVE ThreatInv'
<1>0. ThreatTypes /\ MetricsFit /\ call \in [Callers -> CallStates] /\ metrics \in Seq(Metrics)
  BY DEF ThreatInv, ThreatTypes
<1>1. /\ call[c].at = "store" /\ ~Conflict(c) /\ Goto(c, Idle) /\ UNCHANGED <<bookVars, matchVars, feedback, unmeasured>>
  BY DEF putMetric
<1>2. call[c].finding \in Findings /\ call[c].met \in Nat /\ call[c].snapshot \in Snapshots /\ call[c].id \in Nat
  BY <1>0, <1>1, ReportOne DEF ReportAt
<1>3. PICK id \in Nat : id = call[c].id
  BY <1>2
<1>4. PICK row \in Metrics : row = [snapshot |-> call[c].snapshot, met |-> call[c].met]
  BY <1>2 DEF Metrics
<1>5. PICK rule : rule = call[c].snapshot.rule
  OBVIOUS
<1>6. /\ RuleOf[call[c].finding] = rule /\ row.snapshot.rule = rule /\ Told(rule) <= row.snapshot.reports + row.met
      /\ id # 0 => id \in DOMAIN metrics /\ metrics[id].snapshot.rule = rule
      /\ id = 0 /\ rule.name # "" => MetricsOf(rule) = {}
  <2>1. SnapshotFits(c)
    BY <1>0 DEF MetricsFit
  <2>2. row.snapshot = call[c].snapshot /\ row.met = call[c].met
    BY <1>4
  <2>3. rule = RuleOf[call[c].finding] /\ Told(rule) <= call[c].snapshot.reports + call[c].met
    BY <1>1, <1>5, <2>1 DEF SnapshotFits
  <2>4. id # 0 => id \in DOMAIN metrics /\ metrics[id].snapshot.rule = rule
    BY <1>1, <1>3, <1>5, <2>1 DEF SnapshotFits
  <2>5. id = 0 /\ rule.name # "" => MetricsOf(rule) = {}
    BY <1>1, <1>3, <1>5 DEF Conflict
  <2> QED BY <1>5, <2>2, <2>3, <2>4, <2>5
<1>7. metrics' = IF id = 0 THEN Append(metrics, row) ELSE [metrics EXCEPT ![id] = row]
  BY <1>3, <1>4 DEF putMetric
<1>8. PICK k : /\ k \in DOMAIN metrics' /\ metrics'[k] = row /\ metrics' \in Seq(Metrics)
               /\ DOMAIN metrics' = DOMAIN metrics \cup {k}
               /\ \A i \in DOMAIN metrics : i # k => metrics'[i] = metrics[i]
               /\ id # 0 => k = id
               /\ id = 0 => k \notin DOMAIN metrics
  <2>0. DOMAIN metrics = 1 .. Len(metrics) /\ Len(metrics) \in Nat
    BY <1>0, LenProperties
  <2>1. CASE id = 0
    <3> DEFINE n == Len(metrics) + 1
    <3>1. /\ metrics' \in Seq(Metrics) /\ DOMAIN metrics' = 1 .. n /\ metrics'[n] = row
          /\ \A i \in 1 .. Len(metrics) : metrics'[i] = metrics[i]
      BY <1>0, <1>7, <2>0, <2>1, AppendProperties, LenProperties
    <3>2. 1 .. n = (1 .. Len(metrics)) \cup {n} /\ n \notin 1 .. Len(metrics)
      BY <2>0
    <3> QED BY <2>0, <2>1, <3>1, <3>2
  <2>2. CASE id # 0
    <3>1. id \in 1 .. Len(metrics) /\ metrics' = [metrics EXCEPT ![id] = row]
      BY <1>6, <1>7, <2>0, <2>2
    <3>2. metrics' \in Seq(Metrics)
      BY <1>0, <3>1, ExceptSeq
    <3> QED BY <2>0, <2>2, <3>1, <3>2
  <2> QED BY <2>1, <2>2
<1>9. /\ call' \in [Callers -> CallStates] /\ call'[c].at = "idle" /\ \A d \in Callers \ {c} : call'[d] = call[d]
  BY <1>0, <1>1 DEF Goto, Idle, CallStates
<1>10. \A other : Told(other)' = Told(other)
  BY <1>1 DEF Told, Reports
<1>11. ASSUME NEW other, other # rule PROVE Past(other)' = Past(other)
  <2>1. c \notin Past(other) /\ c \notin Past(other)'
    BY <1>6, <1>9, <1>11 DEF Past, MeasureAt
  <2>2. \A d \in Callers \ {c} : d \in Past(other)' <=> d \in Past(other)
    BY <1>9 DEF Past
  <2>3. Past(other) \subseteq Callers /\ Past(other)' \subseteq Callers
    BY DEF Past
  <2> QED BY <2>1, <2>2, <2>3
<1>12. rule.name # "" => \A j \in DOMAIN metrics : j # k => metrics[j].snapshot.rule # rule
  <2>1. CASE id = 0
    BY <1>6, <2>1 DEF MetricsOf
  <2>2. CASE id # 0
    BY <1>0, <1>6, <1>8, <2>2 DEF MetricsFit, MetricFits
  <2> QED BY <2>1, <2>2
<1>13. ASSUME NEW d \in Callers PROVE SnapshotFits(d)'
  <2>1. CASE d = c
    BY <1>9, <2>1 DEF SnapshotFits
  <2>2. CASE d # c
    <3>1. SnapshotFits(d) /\ call'[d] = call[d]
      BY <1>0, <1>9, <2>2 DEF MetricsFit
    <3>2. call[d].at \in {"seek", "store"} =>
            /\ call[d].snapshot.rule = RuleOf[call[d].finding]
            /\ Told(call[d].snapshot.rule)' <= call[d].snapshot.reports + call[d].met
      BY <1>10, <3>1 DEF SnapshotFits
    <3>3. \A i \in DOMAIN metrics : i \in DOMAIN metrics' /\ metrics'[i].snapshot.rule = metrics[i].snapshot.rule
      BY <1>6, <1>8
    <3> QED BY <3>1, <3>2, <3>3 DEF SnapshotFits
  <2> QED BY <2>1, <2>2
<1>14. ASSUME NEW i \in DOMAIN metrics', metrics'[i].snapshot.rule.name # "" PROVE MetricFits(i)'
  <2>1. CASE i = k
    <3>1. PICK r \in Nat, m \in Nat : r = row.snapshot.reports /\ m = row.met
      BY DEF Metrics, Snapshots
    <3>2. Told(rule)' <= r + m + Cardinality(Past(rule)') + unmeasured'
      <4>1. Past(rule)' \in SUBSET Callers
        BY DEF Past
      <4>2. Cardinality(Past(rule)') \in Nat /\ unmeasured' \in Nat /\ Told(rule) \in Nat
        BY <1>0, <1>1, <4>1, CallersFinite, ToldIs DEF ThreatTypes
      <4>3. \A t, p, u \in Nat : t <= r + m => t <= r + m + p + u
        OBVIOUS
      <4> QED BY <1>6, <1>10, <3>1, <4>2, <4>3, Zenon
    <3>3. metrics'[i] = row
      BY <1>8, <2>1
    <3>4. ASSUME NEW j \in DOMAIN metrics', metrics'[j].snapshot.rule = rule PROVE j = i
      BY <1>6, <1>8, <1>12, <1>14, <2>1, <3>3, <3>4
    <3> QED BY <1>6, <3>1, <3>2, <3>3, <3>4, Zenon DEF MetricFits
  <2>2. CASE i # k
    <3>1. i \in DOMAIN metrics /\ metrics'[i] = metrics[i]
      BY <1>8, <2>2
    <3>2. PICK other : other = metrics[i].snapshot.rule
      OBVIOUS
    <3>3. other # rule /\ other.name # ""
      BY <1>12, <1>14, <2>2, <3>1, <3>2
    <3>4. /\ Told(other) <= metrics[i].snapshot.reports + metrics[i].met + Cardinality(Past(other)) + unmeasured
          /\ \A j \in DOMAIN metrics : metrics[j].snapshot.rule = other => j = i
      BY <1>0, <3>1, <3>2, <3>3, Zenon DEF MetricsFit, MetricFits
    <3>5. \A j \in DOMAIN metrics' : metrics'[j].snapshot.rule = other => j = i
      BY <1>6, <1>8, <3>3, <3>4
    <3>6. Told(other)' = Told(other) /\ Past(other)' = Past(other) /\ unmeasured' = unmeasured
      BY <1>1, <1>10, <1>11, <3>3
    <3> QED BY <3>1, <3>2, <3>4, <3>5, <3>6, Zenon DEF MetricFits
  <2> QED BY <2>1, <2>2
<1>15. MetricsFit'
  <2>1. ASSUME NEW i \in DOMAIN metrics' PROVE MetricFits(i)'
    BY <1>14 DEF MetricFits
  <2> QED BY <1>13, <2>1 DEF MetricsFit
<1>16. feedback' \in Seq(Findings) /\ metrics' \in Seq(Metrics) /\ unmeasured' \in Nat
  BY <1>0, <1>1, <1>8 DEF ThreatTypes
<1>17. call[c].at \in {"idle"} \cup ReportAt /\ call'[c].at \in {"idle"} \cup ReportAt
  BY <1>1, <1>9 DEF ReportAt
<1>18. UNCHANGED <<bookVars, matchVars>>
  BY <1>1
<1> QED BY <1>9, <1>15, <1>16, <1>17, <1>18, ReporterMoves

LEMMA RequestIsLost == ASSUME ThreatInv, NEW c \in Callers, RequestFails(c) PROVE ThreatInv'
<1>0. ThreatTypes /\ MatchInv /\ MetricsFit /\ EntriesFit /\ call \in [Callers -> CallStates]
  BY DEF ThreatInv, ThreatTypes
<1>1. /\ Goto(c, Idle) /\ known' = known /\ UNCHANGED <<matchVars, feedback, metrics>>
      /\ entries' = IF call[c].at = "write" THEN [entries EXCEPT ![call[c].entry].cut = TRUE] ELSE entries
      /\ unmeasured' = IF c \in Reporting /\ call[c].at # "report" THEN unmeasured + 1 ELSE unmeasured
  BY DEF RequestFails
<1>2. /\ call' \in [Callers -> CallStates] /\ call'[c].at = "idle" /\ \A d \in Callers \ {c} : call'[d] = call[d]
  BY <1>0, <1>1 DEF Goto, Idle, CallStates
<1>3. call[c].at \in {"idle", "write"} \cup MatchAt \cup ReportAt
  BY <1>0, StateIs
<1>4. CASE call[c].at \in {"idle"} \cup MatchAt
  <2>1. MatchInv'
    <3>1. \A d \in Callers : call'[d] = call[d] \/ call'[d].at \notin MatchAt
      BY <1>2 DEF MatchAt
    <3>2. UNCHANGED <<matches, together>> /\ \A s \in matched', f \in Findings : MatchesOf(s, f) # {}
      BY <1>0, <1>1 DEF MatchInv, MatchFits, matchVars
    <3> QED BY <1>0, <1>2, <3>1, <3>2, OthersMove
  <2>2. UNCHANGED <<bookVars, metricVars>>
    BY <1>1, <1>4 DEF bookVars, metricVars, MatchAt, Reporting
  <2>3. \E to : Goto(c, to) /\ to.at \in {"idle"} \cup MatchAt
    BY <1>1 DEF Idle
  <2> QED BY <1>4, <2>1, <2>2, <2>3, MatcherMoves
<1>5. CASE call[c].at \in ReportAt
  <2>1. UNCHANGED <<bookVars, matchVars>>
    BY <1>1, <1>5 DEF bookVars, ReportAt
  <2>2. unmeasured \in Nat /\ unmeasured' \in Nat /\ feedback' \in Seq(Findings) /\ metrics' \in Seq(Metrics)
    BY <1>0, <1>1 DEF ThreatTypes
  <2>3. MetricsFit'
    <3>1. CASE call[c].at = "report"
      <4>1. UNCHANGED metricVars
        BY <1>1, <3>1 DEF metricVars
      <4>2. \A d \in Callers : call'[d] = call[d] \/ (call[d].at \notin MeasureAt /\ call'[d].at \notin MeasureAt)
        BY <1>2, <3>1 DEF MeasureAt
      <4> QED BY <1>0, <4>1, <4>2, MetricsStay
    <3>2. CASE call[c].at # "report"
      <4>1. unmeasured' = unmeasured + 1 /\ metrics' = metrics /\ feedback' = feedback
        BY <1>1, <1>5, <3>2 DEF Reporting, ReportAt
      <4>2. \A rule : Told(rule)' = Told(rule)
        BY <4>1 DEF Told, Reports
      <4>3. ASSUME NEW rule
            PROVE  /\ Cardinality(Past(rule)) \in Nat /\ Cardinality(Past(rule)') \in Nat
                   /\ Cardinality(Past(rule)) <= Cardinality(Past(rule)') + 1
        <5>1. Past(rule)' = Past(rule) \ {c}
          <6>1. \A d \in Callers \ {c} : d \in Past(rule)' <=> d \in Past(rule)
            BY <1>2 DEF Past
          <6>2. c \notin Past(rule)' /\ Past(rule) \subseteq Callers /\ Past(rule)' \subseteq Callers
            BY <1>2 DEF Past, MeasureAt
          <6> QED BY <6>1, <6>2
        <5>2. IsFiniteSet(Past(rule)) /\ Cardinality(Past(rule)) \in Nat
          BY PastIs
        <5>3. Past(rule)' \in SUBSET Callers
          BY DEF Past
        <5>4. Cardinality(Past(rule)') \in Nat
          BY <5>3, CallersFinite
        <5>5. Cardinality(Past(rule) \ {c}) = IF c \in Past(rule) THEN Cardinality(Past(rule)) - 1 ELSE Cardinality(Past(rule))
          BY <5>2, FS_RemoveElement
        <5> QED BY <5>1, <5>2, <5>4, <5>5
      <4>4. ASSUME NEW d \in Callers PROVE SnapshotFits(d)'
        BY <1>0, <1>2, <4>1, <4>2 DEF MetricsFit, SnapshotFits
      <4>5. ASSUME NEW i \in DOMAIN metrics, metrics[i].snapshot.rule.name # "" PROVE MetricFits(i)'
        <5>1. PICK rule : rule = metrics[i].snapshot.rule
          OBVIOUS
        <5>2. PICK r \in Nat, m \in Nat : r = metrics[i].snapshot.reports /\ m = metrics[i].met
          BY <1>0, MetricIs
        <5>3. /\ Told(rule) <= r + m + Cardinality(Past(rule)) + unmeasured
              /\ \A j \in DOMAIN metrics : metrics[j].snapshot.rule = rule => j = i
          BY <1>0, <4>5, <5>1, <5>2, Zenon DEF MetricsFit, MetricFits
        <5>4. \A t, p, q, u \in Nat : t <= r + m + p + u /\ p <= q + 1 => t <= r + m + q + (u + 1)
          OBVIOUS
        <5>5. Told(rule) <= r + m + Cardinality(Past(rule)') + unmeasured' /\ Told(rule) \in Nat
          BY <1>0, <2>2, <4>1, <4>3, <5>3, <5>4, ToldIs, Zenon
        <5> QED BY <4>1, <4>2, <5>1, <5>2, <5>3, <5>5, Zenon DEF MetricFits
      <4>6. ASSUME NEW i \in DOMAIN metrics PROVE MetricFits(i)'
        BY <4>1, <4>5 DEF MetricFits
      <4> QED BY <4>1, <4>4, <4>6 DEF MetricsFit
    <3> QED BY <3>1, <3>2
  <2> QED BY <1>2, <1>5, <2>1, <2>2, <2>3, ReporterMoves
<1>6. CASE call[c].at = "write"
  <2>1. UNCHANGED <<matchVars, metricVars>>
    BY <1>1, <1>6 DEF metricVars, Reporting
  <2>2. PICK e : e = call[c].entry
    OBVIOUS
  <2>3. /\ e \in DOMAIN entries /\ \A d \in Callers : call[d].at = "write" /\ call[d].entry = e => d = c
    BY <1>0, <1>6, <2>2 DEF EntriesFit, WriterFits
  <2>4. PICK new : new = [entries[e] EXCEPT !.cut = TRUE]
    OBVIOUS
  <2>5. entries' = [entries EXCEPT ![e] = new]
    BY <1>1, <1>6, <2>2, <2>4
  <2>6. entries \in Seq(Entries) /\ DOMAIN entries = 1 .. Len(entries) /\ entries[e] \in Entries
    BY <1>0, <2>3, LenProperties, ElementOfSeq DEF ThreatTypes
  <2>7. new \in Entries /\ new.rows = entries[e].rows /\ new.shape = entries[e].shape /\ new.cut = TRUE
    BY <2>4, <2>6 DEF Entries
  <2>8. /\ entries' \in Seq(Entries) /\ DOMAIN entries' = DOMAIN entries /\ entries'[e] = new
        /\ \A i \in DOMAIN entries : i # e => entries'[i] = entries[i]
    <3>1. entries' \in Seq(Entries)
      BY <2>3, <2>5, <2>6, <2>7, ExceptSeq
    <3> QED BY <2>3, <2>5, <2>6, <3>1
  <2>9. \A i \in DOMAIN entries : /\ entries'[i].rows = entries[i].rows /\ entries'[i].shape = entries[i].shape
                                  /\ entries[i].cut => entries'[i].cut
    BY <2>7, <2>8
  <2>10. ASSUME NEW i \in DOMAIN entries PROVE EntryFits(i)'
    <3>1. EntryFits(i)
      BY <1>0 DEF EntriesFit
    <3>2. Writing(i) => Writing(i)' \/ entries'[i].cut
      <4>1. CASE i = e
        BY <2>7, <2>8, <4>1
      <4>2. CASE i # e
        BY <1>2, <2>2, <4>2 DEF Writing
      <4> QED BY <4>1, <4>2
    <3> QED BY <1>1, <2>9, <3>1, <3>2 DEF EntryFits
  <2>11. ASSUME NEW d \in Callers PROVE WriterFits(d)'
    <3>1. CASE d = c
      BY <1>2, <3>1 DEF WriterFits
    <3>2. CASE d # c
      <4>1. WriterFits(d) /\ call'[d] = call[d]
        BY <1>0, <1>2, <3>2 DEF EntriesFit
      <4>2. \A x \in Callers : call'[x].at = "write" => call'[x] = call[x]
        BY <1>2
      <4>3. ASSUME call[d].at = "write"
            PROVE  LET y == call[d].entry
                   IN y \in DOMAIN entries' /\ entries'[y].rows = entries[y].rows /\ entries'[y].shape = entries[y].shape
        BY <2>8, <2>9, <4>1, <4>3 DEF WriterFits
      <4> QED BY <4>1, <4>2, <4>3, Zenon DEF WriterFits
    <3> QED BY <3>1, <3>2
  <2>12. EntriesFit'
    BY <2>8, <2>10, <2>11 DEF EntriesFit
  <2>13. known' \subseteq Signatures
    BY <1>0, <1>1 DEF ThreatTypes
  <2> QED BY <1>1, <1>6, <2>1, <2>8, <2>12, <2>13, WriterMoves
<1> QED BY <1>3, <1>4, <1>5, <1>6

LEMMA ThreatInitInv == ThreatInit => ThreatInv
<1> SUFFICES ASSUME ThreatInit PROVE ThreatInv
  OBVIOUS
<1>1. MatchInv
  BY MatchInitInv
<1>2. ThreatTypes
  BY <1>1 DEF ThreatInit, ThreatTypes, MatchInv, MatchTypes
<1>3. \A c \in Callers : call[c].at = "idle"
  BY DEF ThreatInit, Idle
<1>4. DOMAIN entries = {} /\ DOMAIN metrics = {}
  BY DEF ThreatInit
<1>5. MetricsFit /\ EntriesFit
  BY <1>3, <1>4 DEF MetricsFit, SnapshotFits, EntriesFit, WriterFits
<1> QED BY <1>1, <1>2, <1>5 DEF ThreatInv

LEMMA ThreatStepInv ==
  ASSUME ThreatInv, [ThreatNext]_threatVars
  PROVE  ThreatInv'
<1>1. CASE UNCHANGED threatVars
  <2>1. UNCHANGED <<bookVars, matches, matched, together, metricVars, call>>
    BY <1>1 DEF threatVars, bookVars, metricVars
  <2> QED BY <2>1, FactsMove
<1>2. ASSUME NEW x \in Subjects, NEW what, Learn(x, what) PROVE ThreatInv'
  <2>1. UNCHANGED <<bookVars, matches, matched, together, metricVars, call>>
    BY <1>2 DEF Learn, matchVars
  <2> QED BY <2>1, FactsMove
<1>3. ASSUME NEW f \in Findings, Doubt(f) \/ \E v \in Verdicts : Review(f, v) PROVE ThreatInv'
  <2>1. UNCHANGED <<bookVars, matches, matched, together, metricVars, call>>
    BY <1>3 DEF Doubt, Review, matchVars
  <2> QED BY <2>1, FactsMove
<1>4. ASSUME NEW c \in Callers, NEW shape \in Shapes, Record(c, shape) PROVE ThreatInv'
  BY <1>4, EntryIsRecorded
<1>5. ASSUME NEW c \in Callers, NEW s \in Signatures, matchSignatureToScan(c, s) PROVE ThreatInv'
  BY <1>5, MatcherStep
<1>6. ASSUME NEW c \in Callers, NEW f \in Findings, addFalsePositiveFeedback(c, f) PROVE ThreatInv'
  BY <1>6, FeedbackBegins
<1>7. ASSUME NEW c \in Callers, RequestStep(c) PROVE ThreatInv'
  <2>1. CASE createEntryRow(c) \/ createSignatureRow(c) \/ createLabelRow(c) \/ createRevision(c)
    BY <2>1, WriterStep
  <2>2. CASE scanForMatching(c) \/ assertAndConsume(c) \/ findMatch(c) \/ putMatch(c) \/ MatchRevision(c)
    BY <2>2, MatcherStep
  <2>3. CASE createFalsePositiveFeedback(c)
    BY <2>3, FeedbackIsStored
  <2>4. CASE refreshPrecisionForFinding(c)
    BY <2>4, RuleIsMeasured
  <2>5. CASE findMetric(c)
    BY <2>5, MetricIsSought
  <2>6. CASE putMetric(c)
    BY <2>6, MetricIsStored
  <2>7. CASE RequestFails(c)
    BY <2>7, RequestIsLost
  <2> QED BY <1>7, <2>1, <2>2, <2>3, <2>4, <2>5, <2>6, <2>7 DEF RequestStep
<1>8. CASE ThreatNext
  BY <1>2, <1>3, <1>4, <1>5, <1>6, <1>7, <1>8 DEF ThreatNext
<1> QED BY <1>1, <1>8

LEMMA ThreatInvHolds == ThreatSpec => []ThreatInv
<1>1. ThreatInit => ThreatInv
  BY ThreatInitInv
<1>2. ThreatInv /\ [ThreatNext]_threatVars => ThreatInv'
  BY ThreatStepInv
<1> QED BY <1>1, <1>2, PTL DEF ThreatSpec

(* However requests to match a signature overlap, a finding or an alert has  *)
(* no more matches of it than there ever were requests at it at a time: one  *)
(* request at a time, one match (matchSignatureToScan, upsertThreatMatch).   *)
THEOREM MatchesAreFew == ThreatSpec => []OneMatchEach
<1>1. ThreatInv => OneMatchEach
  BY MatchesHold
<1> QED BY <1>1, ThreatInvHolds, PTL

(* A revision stands for rows that are there: the sources and references of  *)
(* an entry, the conditions of a signature, the signature and labels of an   *)
(* import, a match for each finding of the scan; and an entry without        *)
(* provenance is one whose request is under way or failed (createRevision,   *)
(* importThreatIntel).                                                       *)
THEOREM RevisionsCertify == ThreatSpec => []RevisionMeansWhole
<1>1. ThreatInv => RevisionMeansWhole
  BY RevisionsHold
<1> QED BY <1>1, ThreatInvHolds, PTL

(* The metric of a named rule misses no more false positives than came while *)
(* it was measured, are of requests under way, or of requests that failed    *)
(* (refreshPrecisionForFinding, upsertPrecisionMetric).                      *)
THEOREM MetricsMissFew == ThreatSpec => []MetricMissesOverlaps
<1>1. ThreatInv => MetricMissesOverlaps
  BY MetricsHold
<1> QED BY <1>1, ThreatInvHolds, PTL
=============================================================================
