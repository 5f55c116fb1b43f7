-------------------------- MODULE OrganisationProofs --------------------------
(***************************************************************************)
(* Theorems about Organisation, for any number of users, invitations and   *)
(* requests in progress.                                                   *)
(***************************************************************************)
EXTENDS Organisation, FiniteSetTheorems, TLAPS

Managing == {"role", "disable", "enable", "remove", "transfer"}

(* What a request refers to when its next statement is pc.                 *)
GoodAs(q, pc) ==
  /\ pc \in {"read", "count", "revoke", "demote", "issue"} => q.target \in User
  /\ pc = "read" => q.op \in Managing
  /\ pc = "revoke" => q.op \in {"disable", "remove", "logout_all"}
  /\ pc = "write" /\ q.op \in Managing => q.target \in User
  /\ pc = "demote" => q.actor \in User \cup {Machine} /\ q.actor # q.target
  /\ q.op = "transfer" /\ pc \in {"read", "write"} =>
       q.actor \in User \cup {Machine} /\ q.actor # q.target
  /\ q.op \in {"accept", "revoke_invite"} => q.inv \in Invite

GoodRequest(q) == GoodAs(q, q.pc)

RequestsOK == \A r \in Request : GoodRequest(req[r])

TypeInv == TypeOK /\ RequestsOK

LEMMA IdleGood == Idle \in RequestRecord /\ GoodRequest(Idle) /\ Idle.pc = "idle" /\ Idle.op = "login"
BY DEF Idle, RequestRecord, GoodRequest, GoodAs, Op, PC, Role

(* A record a request may start with.                                      *)
StartsAs(q, op, pc) ==
  q \in RequestRecord /\ GoodRequest(q) /\ q.op = op /\ q.pc = pc

LEMMA StartManaging ==
  ASSUME NEW op \in Managing, NEW t \in User, NEW new \in Role, NEW role \in Role,
         NEW a \in User \cup {Machine, Nobody}, op = "transfer" => a # Nobody /\ a # t
  PROVE  StartsAs([Idle EXCEPT !.op = op, !.pc = "read", !.target = t, !.new = new,
                               !.role = role, !.actor = a], op, "read")
<1> DEFINE q == [Idle EXCEPT !.op = op, !.pc = "read", !.target = t, !.new = new,
                             !.role = role, !.actor = a]
<1>1. op \in Op /\ "read" \in PC /\ t \in User \cup {Nobody}
  BY DEF Managing, Op, PC
<1>2. q \in RequestRecord
  BY <1>1, IdleGood DEF RequestRecord
<1>3. q.op = op /\ q.pc = "read" /\ q.target = t /\ q.actor = a
  BY IdleGood DEF RequestRecord
<1>4. q.op = "transfer" => q.actor \in User \cup {Machine}
  BY <1>3
<1>5. GoodRequest(q)
  <2> HIDE DEF q
  <2> QED BY <1>3, <1>4 DEF GoodRequest, GoodAs, Managing
<1> QED BY <1>2, <1>3, <1>5 DEF StartsAs

(* Writing a good record into one slot.                                    *)
LEMMA RequestUpdate ==
  ASSUME TypeInv, NEW r \in Request, NEW q, q \in RequestRecord /\ GoodRequest(q),
         req' = [req EXCEPT ![r] = q]
  PROVE  req' \in [Request -> RequestRecord] /\ RequestsOK'
<1>1. \A p \in Request : req'[p] = IF p = r THEN q ELSE req[p]
  BY DEF TypeInv, TypeOK
<1>2. req' \in [Request -> RequestRecord]
  BY DEF TypeInv, TypeOK
<1> QED BY <1>1, <1>2 DEF TypeInv, RequestsOK

LEMMA FinishGood ==
  ASSUME TypeInv, NEW r \in Request, Finish(r)
  PROVE  req' \in [Request -> RequestRecord] /\ RequestsOK'
BY IdleGood, RequestUpdate DEF Finish

LEMMA GotoGood ==
  ASSUME TypeInv, NEW r \in Request, NEW pc \in PC, Goto(r, pc), GoodAs(req[r], pc)
  PROVE  req' \in [Request -> RequestRecord] /\ RequestsOK'
<1> DEFINE q == [req[r] EXCEPT !.pc = pc]
<1>0. req[r] \in RequestRecord
  BY DEF TypeInv, TypeOK
<1>1. q \in RequestRecord /\ q.pc = pc
  BY <1>0 DEF RequestRecord
<1>2. q.op = req[r].op /\ q.target = req[r].target /\ q.actor = req[r].actor /\ q.inv = req[r].inv
  BY <1>0 DEF RequestRecord
<1>3. req' = [req EXCEPT ![r] = q]
  BY DEF Goto
<1>4. GoodRequest(q)
  <2> HIDE DEF q
  <2> QED BY <1>1, <1>2 DEF GoodRequest, GoodAs
<1> HIDE DEF q
<1> QED BY <1>1, <1>3, <1>4, RequestUpdate

(* The records the other requests start with.                              *)
LEMMA StartOthers ==
  /\ \A u \in User :
       StartsAs([Idle EXCEPT !.op = "logout_all", !.pc = "revoke", !.target = u], "logout_all", "revoke")
  /\ \A u \in User :
       StartsAs([Idle EXCEPT !.pc = "issue", !.target = u], "login", "issue")
  /\ \A e \in Email :
       StartsAs([Idle EXCEPT !.op = "signup", !.pc = "find", !.email = e], "signup", "find")
  /\ \A e \in Email, new \in Role :
       StartsAs([Idle EXCEPT !.op = "invite", !.pc = "find", !.email = e, !.new = new], "invite", "find")
  /\ \A i \in Invite :
       StartsAs([Idle EXCEPT !.op = "revoke_invite", !.pc = "write", !.inv = i], "revoke_invite", "write")
  /\ \A i \in Invite, e \in Email \cup {Nobody}, new \in Role :
       StartsAs([Idle EXCEPT !.op = "accept", !.pc = "find", !.inv = i, !.email = e, !.new = new], "accept", "find")
<1>1. ASSUME NEW u \in User
      PROVE  StartsAs([Idle EXCEPT !.op = "logout_all", !.pc = "revoke", !.target = u], "logout_all", "revoke")
  <2> DEFINE q == [Idle EXCEPT !.op = "logout_all", !.pc = "revoke", !.target = u]
  <2>1. q \in RequestRecord
    BY IdleGood DEF RequestRecord, Op, PC
  <2>2. q.op = "logout_all" /\ q.pc = "revoke" /\ q.target = u
    BY IdleGood DEF RequestRecord
  <2>3. GoodRequest(q)
    <3> HIDE DEF q
    <3> QED BY <2>2 DEF GoodRequest, GoodAs, Managing
  <2> QED BY <2>1, <2>2, <2>3 DEF StartsAs
<1>2. ASSUME NEW u \in User
      PROVE  StartsAs([Idle EXCEPT !.pc = "issue", !.target = u], "login", "issue")
  <2> DEFINE q == [Idle EXCEPT !.pc = "issue", !.target = u]
  <2>1. q \in RequestRecord
    BY IdleGood DEF RequestRecord, Op, PC
  <2>2. q.op = "login" /\ q.pc = "issue" /\ q.target = u
    BY IdleGood DEF RequestRecord
  <2>3. GoodRequest(q)
    <3> HIDE DEF q
    <3> QED BY <2>2 DEF GoodRequest, GoodAs, Managing
  <2> QED BY <2>1, <2>2, <2>3 DEF StartsAs
<1>3. ASSUME NEW e \in Email
      PROVE  StartsAs([Idle EXCEPT !.op = "signup", !.pc = "find", !.email = e], "signup", "find")
  <2> DEFINE q == [Idle EXCEPT !.op = "signup", !.pc = "find", !.email = e]
  <2>1. q \in RequestRecord
    BY IdleGood DEF RequestRecord, Op, PC
  <2>2. q.op = "signup" /\ q.pc = "find"
    BY IdleGood DEF RequestRecord
  <2>3. GoodRequest(q)
    <3> HIDE DEF q
    <3> QED BY <2>2 DEF GoodRequest, GoodAs, Managing
  <2> QED BY <2>1, <2>2, <2>3 DEF StartsAs
<1>4. ASSUME NEW e \in Email, NEW new \in Role
      PROVE  StartsAs([Idle EXCEPT !.op = "invite", !.pc = "find", !.email = e, !.new = new], "invite", "find")
  <2> DEFINE q == [Idle EXCEPT !.op = "invite", !.pc = "find", !.email = e, !.new = new]
  <2>1. q \in RequestRecord
    BY IdleGood DEF RequestRecord, Op, PC
  <2>2. q.op = "invite" /\ q.pc = "find"
    BY IdleGood DEF RequestRecord
  <2>3. GoodRequest(q)
    <3> HIDE DEF q
    <3> QED BY <2>2 DEF GoodRequest, GoodAs, Managing
  <2> QED BY <2>1, <2>2, <2>3 DEF StartsAs
<1>5. ASSUME NEW i \in Invite
      PROVE  StartsAs([Idle EXCEPT !.op = "revoke_invite", !.pc = "write", !.inv = i], "revoke_invite", "write")
  <2> DEFINE q == [Idle EXCEPT !.op = "revoke_invite", !.pc = "write", !.inv = i]
  <2>1. q \in RequestRecord
    BY IdleGood DEF RequestRecord, Op, PC
  <2>2. q.op = "revoke_invite" /\ q.pc = "write" /\ q.inv = i
    BY IdleGood DEF RequestRecord
  <2>3. GoodRequest(q)
    <3> HIDE DEF q
    <3> QED BY <2>2 DEF GoodRequest, GoodAs, Managing
  <2> QED BY <2>1, <2>2, <2>3 DEF StartsAs
<1>6. ASSUME NEW i \in Invite, NEW e \in Email \cup {Nobody}, NEW new \in Role
      PROVE  StartsAs([Idle EXCEPT !.op = "accept", !.pc = "find", !.inv = i, !.email = e, !.new = new], "accept", "find")
  <2> DEFINE q == [Idle EXCEPT !.op = "accept", !.pc = "find", !.inv = i, !.email = e, !.new = new]
  <2>1. q \in RequestRecord
    BY IdleGood DEF RequestRecord, Op, PC
  <2>2. q.op = "accept" /\ q.pc = "find" /\ q.inv = i
    BY IdleGood DEF RequestRecord
  <2>3. GoodRequest(q)
    <3> HIDE DEF q
    <3> QED BY <2>2 DEF GoodRequest, GoodAs, Managing
  <2> QED BY <2>1, <2>2, <2>3 DEF StartsAs
<1> QED BY <1>1, <1>2, <1>3, <1>4, <1>5, <1>6

(* Slot r is taken by a request for op whose next statement is pc.         *)
Starting(r, op, pc) == \E q : StartsAs(q, op, pc) /\ req' = [req EXCEPT ![r] = q]

LEMMA StartGood ==
  ASSUME TypeInv, NEW r \in Request, NEW op, NEW pc, Starting(r, op, pc)
  PROVE  /\ req' \in [Request -> RequestRecord] /\ RequestsOK'
         /\ req'[r].op = op /\ req'[r].pc = pc
         /\ \A p \in Request : p # r => req'[p] = req[p]
<1>1. PICK q : StartsAs(q, op, pc) /\ req' = [req EXCEPT ![r] = q]
  BY DEF Starting
<1>2. req \in [Request -> RequestRecord]
  BY DEF TypeInv, TypeOK
<1> QED BY <1>1, <1>2, RequestUpdate DEF StartsAs

(* The actions that start a request.                                       *)
LEMMA Starts ==
  ASSUME TypeInv, NEW r \in Request
  PROVE  /\ Manage(r) => \E op \in Managing : Starting(r, op, "read")
         /\ Signup(r) => Starting(r, "signup", "find")
         /\ SignupCreate(r) /\ ~Has(req[r].email) => Starting(r, "login", "issue")
         /\ Login(r) => Starting(r, "login", "issue")
         /\ LogoutAll(r) => Starting(r, "logout_all", "revoke")
         /\ CreateInvite(r) => Starting(r, "invite", "find")
         /\ RevokeInvite(r) => Starting(r, "revoke_invite", "write")
         /\ Accept(r) => Starting(r, "accept", "find")
<1>t. TypeOK BY DEF TypeInv
<1>1. ASSUME Manage(r) PROVE \E op \in Managing : Starting(r, op, "read")
  <2>1. PICK a \in Principal, op \in {"role", "disable", "enable", "remove", "transfer"},
             t \in {u \in User : Exists(u)}, new \in Role :
          /\ op = "transfer" => t # a
          /\ Start(r, [Idle EXCEPT !.op = op, !.pc = "read", !.target = t, !.new = new,
                             !.role = RoleOf(a), !.actor = IF op = "transfer" THEN a ELSE Nobody])
    BY <1>1 DEF Manage
  <2>2. a \in User \cup {Machine} /\ RoleOf(a) \in Role
    BY <1>t DEF Principal, RoleOf, TypeOK, AccountRecord, Role
  <2> DEFINE x == IF op = "transfer" THEN a ELSE Nobody
             q == [Idle EXCEPT !.op = op, !.pc = "read", !.target = t, !.new = new,
                               !.role = RoleOf(a), !.actor = x]
  <2>3. x \in User \cup {Machine, Nobody} /\ (op = "transfer" => x # Nobody /\ x # t)
    BY <2>1, <2>2, ConstantAssumption
  <2>4. op \in Managing /\ t \in User
    BY DEF Managing
  <2>5. req' = [req EXCEPT ![r] = q]
    BY <2>1 DEF Start
  <2>6. StartsAs(q, op, "read")
    <3> HIDE DEF x
    <3> QED BY <2>2, <2>3, <2>4, StartManaging
  <2> HIDE DEF q
  <2> QED BY <2>4, <2>5, <2>6 DEF Starting
<1>2. ASSUME NEW e \in Email, Start(r, [Idle EXCEPT !.op = "signup", !.pc = "find", !.email = e])
      PROVE  Starting(r, "signup", "find")
  BY <1>2, StartOthers DEF Start, Starting
<1>3. ASSUME NEW u \in User, req' = [req EXCEPT ![r] = [Idle EXCEPT !.pc = "issue", !.target = u]]
      PROVE  Starting(r, "login", "issue")
  BY <1>3, StartOthers DEF Starting
<1>4. ASSUME NEW u \in Principal \ {Machine},
             Start(r, [Idle EXCEPT !.op = "logout_all", !.pc = "revoke", !.target = u])
      PROVE  Starting(r, "logout_all", "revoke")
  <2>1. u \in User BY <1>t DEF Principal, TypeOK
  <2> QED BY <1>4, <2>1, StartOthers DEF Start, Starting
<1>5. ASSUME NEW e \in Email, NEW new \in Role,
             Start(r, [Idle EXCEPT !.op = "invite", !.pc = "find", !.email = e, !.new = new])
      PROVE  Starting(r, "invite", "find")
  BY <1>5, StartOthers DEF Start, Starting
<1>6. ASSUME NEW i \in Invite,
             Start(r, [Idle EXCEPT !.op = "revoke_invite", !.pc = "write", !.inv = i])
      PROVE  Starting(r, "revoke_invite", "write")
  BY <1>6, StartOthers DEF Start, Starting
<1>7. ASSUME NEW i \in Invite,
             Start(r, [Idle EXCEPT !.op = "accept", !.pc = "find", !.inv = i,
                                   !.email = invite[i].email, !.new = invite[i].role])
      PROVE  Starting(r, "accept", "find")
  <2>1. invite[i].email \in Email \cup {Nobody} /\ invite[i].role \in Role
    BY <1>t DEF TypeOK, InviteRecord
  <2> QED BY <1>7, <2>1, StartOthers DEF Start, Starting
<1>8. SignupCreate(r) /\ ~Has(req[r].email) => Starting(r, "login", "issue")
  BY <1>3 DEF SignupCreate
<1>9. Login(r) => Starting(r, "login", "issue")
  BY <1>3 DEF Login, Start
<1>10. LogoutAll(r) => Starting(r, "logout_all", "revoke")
  BY <1>4 DEF LogoutAll
<1>11. Signup(r) => Starting(r, "signup", "find")
  BY <1>2 DEF Signup
<1>12. CreateInvite(r) => Starting(r, "invite", "find")
  BY <1>5 DEF CreateInvite
<1>13. RevokeInvite(r) => Starting(r, "revoke_invite", "write")
  BY <1>6 DEF RevokeInvite
<1>14. Accept(r) => Starting(r, "accept", "find")
  BY <1>7 DEF Accept
<1> QED BY <1>1, <1>8, <1>9, <1>10, <1>11, <1>12, <1>13, <1>14

LEMMA AccountFields ==
  /\ \A s \in {"unused", "deleted"} : NoAccount(s) \in AccountRecord
  /\ \A x \in AccountRecord, new \in Role :
       /\ [x EXCEPT !.role = new] \in AccountRecord
       /\ [x EXCEPT !.state = "ACTIVE"] \in AccountRecord
       /\ [x EXCEPT !.state = "DISABLED"] \in AccountRecord
  /\ \A e \in Email \cup {Nobody}, role \in Role :
       [state |-> "ACTIVE", role |-> role, email |-> e] \in AccountRecord
BY DEF NoAccount, AccountRecord, Role

LEMMA TypeInit == Init => TypeInv
<1> SUFFICES ASSUME Init PROVE TypeInv OBVIOUS
<1>1. req \in [Request -> RequestRecord] /\ RequestsOK
  BY IdleGood DEF Init, RequestsOK
<1>2. account \in [User -> AccountRecord]
  BY AccountFields DEF Init
<1>3. invite \in [Invite -> InviteRecord]
  BY DEF Init, InviteRecord, Role
<1> QED BY <1>1, <1>2, <1>3 DEF Init, TypeInv, TypeOK, GapKind

LEMMA TypeStep == TypeInv /\ [Next]_vars => TypeInv'
<1> SUFFICES ASSUME TypeInv, [Next]_vars PROVE TypeInv'
  OBVIOUS
<1> DEFINE ReqGood == req' \in [Request -> RequestRecord] /\ RequestsOK'
<1>t. TypeOK /\ RequestsOK
  BY DEF TypeInv
<1>q. \A r \in Request : req[r] \in RequestRecord /\ GoodRequest(req[r])
  BY <1>t DEF TypeOK, RequestsOK
<1>1. CASE UNCHANGED vars
  BY <1>1, <1>t DEF vars, TypeInv, TypeOK, RequestsOK
<1>2. ASSUME NEW r \in Request, Manage(r) PROVE TypeInv'
  <2>1. ReqGood BY <1>2, Starts, StartGood
  <2> QED BY <1>2, <1>t, <2>1 DEF Manage, TypeInv, TypeOK
<1>3. ASSUME NEW r \in Request, ReadTarget(r) PROVE TypeInv'
  <2> DEFINE role == account[req[r].target].role
  <2>1. req[r].pc = "read" /\ req[r].target \in User /\ req[r].op \in Managing
    BY <1>3, <1>q DEF ReadTarget, GoodRequest, GoodAs
  <2>2. role \in Role
    BY <1>t, <2>1 DEF TypeOK, AccountRecord
  <2>3. ASSUME Permitted(r) PROVE ReqGood
    <3> HIDE DEF role
    <3>1. PICK pc \in {"count", "revoke", "write"} :
            /\ req' = [req EXCEPT ![r] = [req[r] EXCEPT !.role = role, !.pc = pc]]
            /\ pc = "revoke" => req[r].op \in {"disable", "remove"}
      BY <1>3, <2>3 DEF ReadTarget, AfterCheck, role
    <3> DEFINE q == [req[r] EXCEPT !.role = role, !.pc = pc]
    <3>2. q \in RequestRecord /\ q.pc = pc
      BY <1>q, <2>2 DEF RequestRecord, PC
    <3>3. /\ q.op = req[r].op /\ q.target = req[r].target
          /\ q.actor = req[r].actor /\ q.inv = req[r].inv
      BY <1>q DEF RequestRecord
    <3> HIDE DEF q
    <3>4. GoodRequest(q)
      BY <1>q, <2>1, <3>1, <3>2, <3>3 DEF GoodRequest, GoodAs
    <3> QED BY <3>1, <3>2, <3>4, RequestUpdate DEF q
  <2>4. ASSUME ~Permitted(r) PROVE ReqGood
    BY <1>3, <2>4, FinishGood DEF ReadTarget
  <2> QED BY <1>3, <1>t, <2>3, <2>4 DEF ReadTarget, TypeInv, TypeOK
<1>4. ASSUME NEW r \in Request, CheckLastOwner(r) PROVE TypeInv'
  <2>1. req[r].pc = "count" /\ req[r].target \in User /\ req[r].op \in {"role", "disable", "remove"}
    BY <1>4, <1>q DEF CheckLastOwner, GoodRequest, GoodAs, Demotes
  <2>2. GoodAs(req[r], "write") /\ GoodAs(req[r], AfterCheck(req[r].op))
    BY <1>q, <2>1 DEF GoodRequest, GoodAs, AfterCheck
  <2>3. ReqGood
    BY <1>4, <2>2, FinishGood, GotoGood DEF CheckLastOwner, AfterCheck, PC
  <2> QED BY <1>4, <1>t, <2>3 DEF CheckLastOwner, TypeInv, TypeOK
<1>5. ASSUME NEW r \in Request, RevokeSessions(r) PROVE TypeInv'
  <2>1. GoodAs(req[r], "write")
    BY <1>5, <1>q DEF RevokeSessions, GoodRequest, GoodAs
  <2>2. ReqGood
    BY <1>5, <2>1, FinishGood, GotoGood DEF RevokeSessions, PC
  <2> QED BY <1>5, <1>t, <2>2 DEF RevokeSessions, TypeInv, TypeOK
<1>6. ASSUME NEW r \in Request, WriteTarget(r) PROVE TypeInv'
  <2>1. req[r].op \in Managing /\ req[r].target \in User /\ req[r].new \in Role
    BY <1>6, <1>q DEF WriteTarget, GoodRequest, GoodAs, Managing, RequestRecord
  <2>2. req[r].op = "transfer" => GoodAs(req[r], "demote")
    BY <1>6, <1>q, <2>1 DEF WriteTarget, GoodRequest, GoodAs
  <2>3. ReqGood
    BY <1>6, <2>2, FinishGood, GotoGood DEF WriteTarget, PC
  <2>4. Updated(req[r]) \in [User -> AccountRecord]
    <3>1. /\ [account[req[r].target] EXCEPT !.role = req[r].new] \in AccountRecord
          /\ [account[req[r].target] EXCEPT !.role = "OWNER"] \in AccountRecord
          /\ [account[req[r].target] EXCEPT !.state = "ACTIVE"] \in AccountRecord
          /\ [account[req[r].target] EXCEPT !.state = "DISABLED"] \in AccountRecord
          /\ NoAccount("deleted") \in AccountRecord
      BY <1>t, <2>1, AccountFields DEF TypeOK, Role
    <3> QED BY <1>t, <2>1, <3>1 DEF TypeOK, Updated, Managing
  <2>5. account' \in [User -> AccountRecord] /\ online' \subseteq User /\ gap' \subseteq GapKind
    BY <1>6, <1>t, <2>4 DEF WriteTarget, TypeOK, GapKind
  <2> QED BY <1>6, <1>t, <2>3, <2>5 DEF WriteTarget, TypeInv, TypeOK
<1>7. ASSUME NEW r \in Request, DemoteActor(r) PROVE TypeInv'
  <2>1. req[r].actor \in User \cup {Machine}
    BY <1>7, <1>q DEF DemoteActor, GoodRequest, GoodAs
  <2>2. ReqGood BY <1>7, FinishGood DEF DemoteActor
  <2>3. account' \in [User -> AccountRecord]
    <3>1. CASE req[r].actor \in User
      <4>1. [account[req[r].actor] EXCEPT !.role = "ADMIN"] \in AccountRecord
        BY <1>t, <3>1, AccountFields DEF TypeOK, Role
      <4> QED BY <1>7, <1>t, <3>1, <4>1 DEF DemoteActor, TypeOK
    <3>2. CASE req[r].actor = Machine BY <1>7, <1>t, <3>2 DEF DemoteActor, TypeOK
    <3> QED BY <2>1, <3>1, <3>2
  <2>4. gap' \subseteq GapKind
    BY <1>7, <1>t DEF DemoteActor, TypeOK, GapKind
  <2> QED BY <1>7, <1>t, <2>2, <2>3, <2>4 DEF DemoteActor, TypeInv, TypeOK
<1>8. ASSUME NEW r \in Request, Signup(r) PROVE TypeInv'
  <2>1. ReqGood BY <1>8, Starts, StartGood
  <2> QED BY <1>8, <1>t, <2>1 DEF Signup, TypeInv, TypeOK
<1>9. ASSUME NEW r \in Request, SignupFind(r) PROVE TypeInv'
  <2>1. GoodAs(req[r], "write")
    BY <1>9, <1>q DEF SignupFind, At, GoodRequest, GoodAs, Managing
  <2>2. ReqGood
    BY <1>9, <2>1, FinishGood, GotoGood DEF SignupFind, PC
  <2> QED BY <1>9, <1>t, <2>2 DEF SignupFind, TypeInv, TypeOK
<1>10. ASSUME NEW r \in Request, SignupCreate(r) PROVE TypeInv'
  <2>1. ReqGood
    BY <1>10, FinishGood, Starts, StartGood DEF SignupCreate
  <2>2. account' \in [User -> AccountRecord]
    <3>1. [state |-> "ACTIVE", role |-> "OWNER", email |-> req[r].email] \in AccountRecord
      BY <1>q, AccountFields DEF RequestRecord, Role
    <3> QED BY <1>10, <1>t, <3>1 DEF SignupCreate, Created, TypeOK
  <2>3. gap' \in {gap, gap \cup {"stale_signup"}} /\ claims' \in {claims, claims + 1}
    BY <1>10 DEF SignupCreate
  <2>4. gap' \subseteq GapKind /\ claims' \in Nat
    BY <1>t, <2>3 DEF TypeOK, GapKind
  <2> QED BY <1>10, <1>t, <2>1, <2>2, <2>4 DEF SignupCreate, TypeInv, TypeOK
<1>11. ASSUME NEW r \in Request, Login(r) PROVE TypeInv'
  <2>1. ReqGood BY <1>11, Starts, StartGood
  <2> QED BY <1>11, <1>t, <2>1 DEF Login, TypeInv, TypeOK
<1>12. ASSUME NEW r \in Request, IssueSession(r) PROVE TypeInv'
  <2>1. req[r].target \in User
    BY <1>12, <1>q DEF IssueSession, At, GoodRequest, GoodAs
  <2>2. ReqGood BY <1>12, FinishGood DEF IssueSession
  <2>3. online' \subseteq User /\ gap' \subseteq GapKind
    BY <1>12, <1>t, <2>1 DEF IssueSession, TypeOK, GapKind
  <2> QED BY <1>12, <1>t, <2>2, <2>3 DEF IssueSession, TypeInv, TypeOK
<1>13. ASSUME NEW r \in Request, LogoutAll(r) PROVE TypeInv'
  <2>1. ReqGood BY <1>13, Starts, StartGood
  <2> QED BY <1>13, <1>t, <2>1 DEF LogoutAll, TypeInv, TypeOK
<1>14. ASSUME NEW r \in Request, CreateInvite(r) PROVE TypeInv'
  <2>1. ReqGood BY <1>14, Starts, StartGood
  <2> QED BY <1>14, <1>t, <2>1 DEF CreateInvite, TypeInv, TypeOK
<1>15. ASSUME NEW r \in Request, InviteFind(r) PROVE TypeInv'
  <2>1. GoodAs(req[r], "pending")
    BY <1>15, <1>q DEF InviteFind, At, GoodRequest, GoodAs, Managing
  <2>2. ReqGood
    BY <1>15, <2>1, FinishGood, GotoGood DEF InviteFind, PC
  <2> QED BY <1>15, <1>t, <2>2 DEF InviteFind, TypeInv, TypeOK
<1>16. ASSUME NEW r \in Request, InvitePending(r) PROVE TypeInv'
  <2>1. PICK i \in Invite \cup {Nobody} :
          req' = [req EXCEPT ![r] = [req[r] EXCEPT !.pc = "write", !.inv = i]]
    BY <1>16 DEF InvitePending, PendingFor
  <2> DEFINE q == [req[r] EXCEPT !.pc = "write", !.inv = i]
  <2>2. q \in RequestRecord /\ q.pc = "write" /\ q.op = "invite"
    BY <1>16, <1>q DEF InvitePending, At, RequestRecord, PC
  <2>3. ReqGood
    <3> HIDE DEF q
    <3>1. GoodRequest(q) BY <2>2 DEF GoodRequest, GoodAs, Managing
    <3> QED BY <2>1, <2>2, <3>1, RequestUpdate DEF q
  <2> QED BY <1>16, <1>t, <2>3 DEF InvitePending, TypeInv, TypeOK
<1>17. ASSUME NEW r \in Request, InviteWrite(r) PROVE TypeInv'
  <2>1. [status |-> "PENDING", role |-> req[r].new, email |-> req[r].email] \in InviteRecord
    BY <1>q DEF RequestRecord, InviteRecord
  <2>2. invite' \in [Invite -> InviteRecord] /\ gap' \subseteq GapKind
    BY <1>17, <1>t, <2>1 DEF InviteWrite, TypeOK, GapKind
  <2>3. ReqGood BY <1>17, FinishGood DEF InviteWrite
  <2> QED BY <1>17, <1>t, <2>2, <2>3 DEF InviteWrite, TypeInv, TypeOK
<1>18. ASSUME NEW r \in Request, RevokeInvite(r) PROVE TypeInv'
  <2>1. ReqGood BY <1>18, Starts, StartGood
  <2> QED BY <1>18, <1>t, <2>1 DEF RevokeInvite, TypeInv, TypeOK
<1>19. ASSUME NEW r \in Request, RevokeWrite(r) PROVE TypeInv'
  <2>1. invite' \in [Invite -> InviteRecord]
    BY <1>19, <1>t DEF RevokeWrite, TypeOK, InviteRecord
  <2>2. ReqGood BY <1>19, FinishGood DEF RevokeWrite
  <2> QED BY <1>19, <1>t, <2>1, <2>2 DEF RevokeWrite, TypeInv, TypeOK
<1>20. ASSUME NEW r \in Request, Accept(r) PROVE TypeInv'
  <2>1. ReqGood BY <1>20, Starts, StartGood
  <2> QED BY <1>20, <1>t, <2>1 DEF Accept, TypeInv, TypeOK
<1>21. ASSUME NEW r \in Request, AcceptFind(r) PROVE TypeInv'
  <2>1. GoodAs(req[r], "write")
    BY <1>21, <1>q DEF AcceptFind, At, GoodRequest, GoodAs, Managing
  <2>2. ReqGood
    BY <1>21, <2>1, FinishGood, GotoGood DEF AcceptFind, PC
  <2> QED BY <1>21, <1>t, <2>2 DEF AcceptFind, TypeInv, TypeOK
<1>22. ASSUME NEW r \in Request, AcceptCreate(r) PROVE TypeInv'
  <2>1. req[r].inv \in Invite /\ GoodAs(req[r], "mark")
    BY <1>22, <1>q DEF AcceptCreate, At, GoodRequest, GoodAs
  <2>2. ReqGood
    BY <1>22, <2>1, FinishGood, GotoGood DEF AcceptCreate, PC
  <2>3. account' \in [User -> AccountRecord]
    <3>1. [state |-> "ACTIVE", role |-> req[r].new, email |-> req[r].email] \in AccountRecord
      BY <1>q, AccountFields DEF RequestRecord
    <3> QED BY <1>22, <1>t, <3>1 DEF AcceptCreate, Created, TypeOK
  <2>4. joined' \in [Invite -> Nat]
    BY <1>22, <1>t, <2>1 DEF AcceptCreate, TypeOK
  <2>5. gap' \subseteq GapKind
    BY <1>22, <1>t DEF AcceptCreate, TypeOK, GapKind
  <2> QED BY <1>22, <1>t, <2>2, <2>3, <2>4, <2>5 DEF AcceptCreate, TypeInv, TypeOK
<1>23. ASSUME NEW r \in Request, AcceptMark(r) PROVE TypeInv'
  <2>1. invite' \in [Invite -> InviteRecord]
    BY <1>23, <1>t DEF AcceptMark, Marked, TypeOK, InviteRecord
  <2>2. ReqGood BY <1>23, FinishGood DEF AcceptMark
  <2> QED BY <1>23, <1>t, <2>1, <2>2 DEF AcceptMark, TypeInv, TypeOK
<1>24. ASSUME NEW r \in Request, RequestDies(r) PROVE TypeInv'
  <2>1. ReqGood BY <1>24, FinishGood DEF RequestDies
  <2>2. gap' \subseteq GapKind BY <1>24, <1>t DEF RequestDies, TypeOK, GapKind
  <2> QED BY <1>24, <1>t, <2>1, <2>2 DEF RequestDies, TypeInv, TypeOK
<1>25. ASSUME NEW u \in User, SessionEnds(u) PROVE TypeInv'
  BY <1>25, <1>t DEF SessionEnds, TypeInv, TypeOK, RequestsOK
<1> QED
  BY <1>1, <1>2, <1>3, <1>4, <1>5, <1>6, <1>7, <1>8, <1>9, <1>10, <1>11, <1>12, <1>13, <1>14,
     <1>15, <1>16, <1>17, <1>18, <1>19, <1>20, <1>21, <1>22, <1>23, <1>24, <1>25 DEF Next

(* Types, for any number of users, invitations and requests.              *)
THEOREM TypeCorrect == Spec => []TypeOK
<1>1. TypeInv => TypeOK BY DEF TypeInv
<1> QED BY <1>1, TypeInit, TypeStep, PTL DEF Spec

THEOREM TypeInvHolds == Spec => []TypeInv
BY TypeInit, TypeStep, PTL DEF Spec

-----------------------------------------------------------------------------
(* The accounts change in four actions only.                              *)
AccountStep(r) == WriteTarget(r) \/ DemoteActor(r) \/ SignupCreate(r) \/ AcceptCreate(r)

LEMMA OtherSteps ==
  ASSUME [Next]_vars, \A r \in Request : ~AccountStep(r)
  PROVE  account' = account /\ claims' = claims /\ gap \subseteq gap'
<1>1. CASE UNCHANGED vars BY <1>1 DEF vars
<1>2. ASSUME NEW r \in Request,
             Manage(r) \/ ReadTarget(r) \/ CheckLastOwner(r) \/ RevokeSessions(r) \/ Signup(r)
      PROVE  account' = account /\ claims' = claims /\ gap \subseteq gap'
  BY <1>2 DEF Manage, ReadTarget, CheckLastOwner, RevokeSessions, Signup
<1>3. ASSUME NEW r \in Request,
             SignupFind(r) \/ Login(r) \/ IssueSession(r) \/ LogoutAll(r) \/ CreateInvite(r)
      PROVE  account' = account /\ claims' = claims /\ gap \subseteq gap'
  BY <1>3 DEF SignupFind, Login, IssueSession, LogoutAll, CreateInvite
<1>4. ASSUME NEW r \in Request,
             InviteFind(r) \/ InvitePending(r) \/ InviteWrite(r) \/ RevokeInvite(r) \/ RevokeWrite(r)
      PROVE  account' = account /\ claims' = claims /\ gap \subseteq gap'
  BY <1>4 DEF InviteFind, InvitePending, InviteWrite, RevokeInvite, RevokeWrite
<1>5. ASSUME NEW r \in Request,
             Accept(r) \/ AcceptFind(r) \/ AcceptMark(r) \/ RequestDies(r)
      PROVE  account' = account /\ claims' = claims /\ gap \subseteq gap'
  BY <1>5 DEF Accept, AcceptFind, AcceptMark, RequestDies
<1>6. ASSUME NEW u \in User, SessionEnds(u)
      PROVE  account' = account /\ claims' = claims /\ gap \subseteq gap'
  BY <1>6 DEF SessionEnds
<1> QED BY <1>1, <1>2, <1>3, <1>4, <1>5, <1>6 DEF Next, AccountStep

(* Counting owners.                                                        *)
Owners == {u \in User : ActiveOwner(u)}

LEMMA CountIsZero == CountOwners \in Nat /\ (CountOwners = 0 <=> ~\E u \in User : ActiveOwner(u))
<1>1. IsFiniteSet(Owners)
  BY ConstantAssumption, FS_Subset DEF Owners
<1>2. Cardinality(Owners) \in Nat /\ (Cardinality(Owners) = 0 <=> Owners = {})
  BY <1>1, FS_CardinalityType, FS_EmptySet
<1> QED BY <1>2 DEF Owners, CountOwners

LEMMA SpareIsAnother ==
  ASSUME SpareOwner, NEW t
  PROVE  \E u \in User : ActiveOwner(u) /\ u # t
<1>1. IsFiniteSet(Owners)
  BY ConstantAssumption, FS_Subset DEF Owners
<1>2. Owners # {} /\ Owners # {t}
  <2>1. Cardinality({}) = 0 /\ Cardinality({t}) = 1
    BY FS_EmptySet, FS_Singleton
  <2> QED BY <2>1 DEF SpareOwner, CountOwners, Owners
<1> QED BY <1>2 DEF Owners

HasOwner == \E u \in User : ActiveOwner(u)

(* An owner is left, or a stale check explains why not.                   *)
OwnerInv == claims > 0 /\ "stale_check" \notin gap => HasOwner

LEMMA OwnerStep == TypeInv /\ OwnerInv /\ [Next]_vars => OwnerInv'
<1> SUFFICES ASSUME TypeInv, OwnerInv, [Next]_vars, claims' > 0, "stale_check" \notin gap'
             PROVE  HasOwner'
  BY DEF OwnerInv
<1>t. /\ account \in [User -> AccountRecord]
      /\ \A r \in Request : req[r] \in RequestRecord /\ GoodRequest(req[r])
  BY DEF TypeInv, TypeOK, RequestsOK
<1>1. CASE \A r \in Request : ~AccountStep(r)
  BY <1>1, OtherSteps DEF OwnerInv, HasOwner, ActiveOwner
<1>2. ASSUME NEW r \in Request, WriteTarget(r) PROVE HasOwner'
  <2> DEFINE q == req[r]
             t == req[r].target
  <2>1. t \in User /\ q.op \in Managing
    BY <1>2, <1>t DEF WriteTarget, GoodRequest, GoodAs, Managing
  <2>2. claims > 0 /\ "stale_check" \notin gap
    BY <1>2 DEF WriteTarget
  <2>3. CASE ~Exists(t)
    BY <1>2, <2>2, <2>3 DEF WriteTarget, OwnerInv, HasOwner, ActiveOwner
  <2>4. CASE Exists(t)
    <3>1. account' = Updated(q) /\ ~StaleCheck(r)
      BY <1>2, <2>4 DEF WriteTarget
    <3>2. \A u \in User : u # t => account'[u] = account[u]
      BY <1>t, <2>1, <3>1 DEF Updated, Managing
    <3>3. CASE \E u \in User : ActiveOwner(u) /\ u # t
      BY <3>2, <3>3 DEF HasOwner, ActiveOwner
    <3>4. CASE ~\E u \in User : ActiveOwner(u) /\ u # t
      <4>1. ActiveOwner(t)
        BY <2>2, <3>4 DEF OwnerInv, HasOwner
      <4>2. ~SpareOwner
        BY <3>4, SpareIsAnother
      <4>3. ~Demotes(q)
        BY <3>1, <4>1, <4>2 DEF StaleCheck, ActiveOwner
      <4>4. account'[t].state = "ACTIVE" /\ account'[t].role = "OWNER"
        <5>1. CASE q.op = "role"
          BY <1>t, <2>1, <3>1, <4>1, <4>3, <5>1 DEF Updated, Demotes, ActiveOwner, AccountRecord
        <5>2. CASE q.op = "transfer"
          BY <1>t, <2>1, <3>1, <4>1, <5>2 DEF Updated, ActiveOwner, AccountRecord
        <5>3. CASE q.op = "enable"
          BY <1>t, <2>1, <3>1, <4>1, <5>3 DEF Updated, ActiveOwner, AccountRecord
        <5> QED BY <2>1, <4>3, <5>1, <5>2, <5>3 DEF Demotes, Managing
      <4> QED BY <2>1, <4>4 DEF HasOwner, ActiveOwner
    <3> QED BY <3>3, <3>4
  <2> QED BY <2>3, <2>4
<1>3. ASSUME NEW r \in Request, DemoteActor(r) PROVE HasOwner'
  <2> DEFINE q == req[r]
  <2>1. q.target \in User /\ q.actor \in User \cup {Machine} /\ q.actor # q.target
    BY <1>3, <1>t DEF DemoteActor, GoodRequest, GoodAs
  <2>2. CASE q.actor # Machine /\ Exists(q.actor)
    <3>1. ActiveOwner(q.target) /\ account' = [account EXCEPT ![q.actor].role = "ADMIN"]
      BY <1>3, <2>2 DEF DemoteActor, MayOwn, ActiveOwner
    <3>2. account'[q.target] = account[q.target]
      BY <1>t, <2>1, <3>1
    <3> QED BY <2>1, <3>1, <3>2 DEF HasOwner, ActiveOwner
  <2>3. CASE ~(q.actor # Machine /\ Exists(q.actor))
    BY <1>3, <2>3 DEF DemoteActor, OwnerInv, HasOwner, ActiveOwner
  <2> QED BY <2>2, <2>3
<1>4. ASSUME NEW r \in Request, SignupCreate(r) PROVE HasOwner'
  <2>1. CASE Has(req[r].email)
    BY <1>4, <2>1 DEF SignupCreate, OwnerInv, HasOwner, ActiveOwner
  <2>2. CASE ~Has(req[r].email)
    <3>1. PICK u \in User : account' = Created(u, req[r].email, "OWNER")
      BY <1>4, <2>2 DEF SignupCreate
    <3>2. ActiveOwner(u)'
      BY <1>t, <3>1 DEF Created, ActiveOwner
    <3> QED BY <3>2 DEF HasOwner
  <2> QED BY <2>1, <2>2
<1>5. ASSUME NEW r \in Request, AcceptCreate(r) PROVE HasOwner'
  <2>1. claims > 0 /\ "stale_check" \notin gap
    BY <1>5 DEF AcceptCreate
  <2>2. PICK o \in User : ActiveOwner(o)
    BY <2>1 DEF OwnerInv, HasOwner
  <2>3. account'[o] = account[o]
    BY <1>5, <1>t, <2>2 DEF AcceptCreate, Created, ActiveOwner
  <2> QED BY <2>2, <2>3 DEF HasOwner, ActiveOwner
<1> QED BY <1>1, <1>2, <1>3, <1>4, <1>5 DEF AccountStep

(* Once claimed, the organisation keeps an owner who can log in, unless a *)
(* request wrote on a check that had become false.                        *)
THEOREM OwnerAlwaysRemains == Spec => []OwnerRemains
<1>1. Init => OwnerInv
  BY DEF Init, OwnerInv
<1>2. OwnerInv => OwnerRemains
  BY CountIsZero DEF OwnerInv, OwnerRemains, HasOwner
<1> QED BY <1>1, <1>2, OwnerStep, TypeInvHolds, PTL DEF Spec

LEMMA ClaimStep == TypeInv /\ OwnerInv /\ ClaimedOnce /\ [Next]_vars => ClaimedOnce'
<1> SUFFICES ASSUME TypeInv, OwnerInv, ClaimedOnce, [Next]_vars,
                    gap' \cap {"stale_check", "stale_signup"} = {}
             PROVE  claims' <= 1
  BY DEF ClaimedOnce
<1>t. claims \in Nat BY DEF TypeInv, TypeOK
<1>1. CASE \A r \in Request : ~AccountStep(r)
  BY <1>1, <1>t, OtherSteps DEF ClaimedOnce
<1>2. ASSUME NEW r \in Request, WriteTarget(r) PROVE claims' <= 1
  BY <1>2 DEF WriteTarget, ClaimedOnce
<1>3. ASSUME NEW r \in Request, DemoteActor(r) PROVE claims' <= 1
  BY <1>3 DEF DemoteActor, ClaimedOnce
<1>4. ASSUME NEW r \in Request, SignupCreate(r) PROVE claims' <= 1
  <2>1. CASE Has(req[r].email)
    BY <1>4, <2>1 DEF SignupCreate, ClaimedOnce
  <2>2. CASE ~Has(req[r].email)
    <3>1. Claimable /\ claims' = claims + 1 /\ "stale_check" \notin gap
      BY <1>4, <2>2 DEF SignupCreate
    <3>2. ~HasOwner BY <3>1, CountIsZero DEF Claimable, HasOwner
    <3>3. claims = 0 BY <1>t, <3>1, <3>2 DEF OwnerInv
    <3> QED BY <3>1, <3>3
  <2> QED BY <2>1, <2>2
<1>5. ASSUME NEW r \in Request, AcceptCreate(r) PROVE claims' <= 1
  BY <1>5 DEF AcceptCreate, ClaimedOnce
<1> QED BY <1>1, <1>2, <1>3, <1>4, <1>5 DEF AccountStep

(* Signup hands the organisation out once.                                *)
THEOREM ClaimedOnlyOnce == Spec => []ClaimedOnce
<1>1. Init => OwnerInv /\ ClaimedOnce
  BY DEF Init, OwnerInv, ClaimedOnce
<1> QED BY <1>1, OwnerStep, ClaimStep, TypeInvHolds, PTL DEF Spec

-----------------------------------------------------------------------------
(* A request that ends is not about to write, and not about to mark.      *)
LEMMA Moves ==
  ASSUME TypeInv, NEW r \in Request
  PROVE  /\ Finish(r) => /\ req'[r] = Idle
                          /\ \A p \in Request : p # r => req'[p] = req[p]
         /\ \A pc : Goto(r, pc) => /\ req'[r].pc = pc /\ req'[r].op = req[r].op
                                    /\ req'[r].target = req[r].target
                                    /\ req'[r].inv = req[r].inv
                                    /\ \A p \in Request : p # r => req'[p] = req[p]
         /\ \A q : Start(r, q) => /\ req[r].pc = "idle" /\ req'[r] = q
                                   /\ \A p \in Request : p # r => req'[p] = req[p]
<1>1. req \in [Request -> RequestRecord] /\ req[r] \in RequestRecord
  BY DEF TypeInv, TypeOK
<1>2. Finish(r) => req'[r] = Idle /\ \A p \in Request : p # r => req'[p] = req[p]
  BY <1>1 DEF Finish
<1>3. ASSUME NEW pc, Goto(r, pc)
      PROVE  /\ req'[r].pc = pc /\ req'[r].op = req[r].op /\ req'[r].target = req[r].target
             /\ req'[r].inv = req[r].inv
             /\ \A p \in Request : p # r => req'[p] = req[p]
  BY <1>1, <1>3 DEF Goto, RequestRecord
<1>4. ASSUME NEW q, Start(r, q)
      PROVE  /\ req[r].pc = "idle" /\ req'[r] = q
             /\ \A p \in Request : p # r => req'[p] = req[p]
  BY <1>1, <1>4 DEF Start
<1> QED BY <1>2, <1>3, <1>4

(* Nobody about to be disabled is logged in, unless a login raced.        *)
Disabling(r) == At(r, "disable", "write")
OutInv ==
  /\ DisabledIsOut
  /\ "login_raced" \notin gap => \A r \in Request : Disabling(r) => req[r].target \notin online

(* Only RevokeSessions brings a request to the point of disabling.        *)
LEMMA DisablingStep ==
  ASSUME TypeInv, NEW r \in Request,
         \/ Manage(r) \/ ReadTarget(r) \/ CheckLastOwner(r)
         \/ WriteTarget(r) \/ DemoteActor(r)
         \/ Signup(r) \/ SignupFind(r) \/ SignupCreate(r)
         \/ Login(r) \/ IssueSession(r) \/ LogoutAll(r)
         \/ CreateInvite(r) \/ InviteFind(r) \/ InvitePending(r) \/ InviteWrite(r)
         \/ RevokeInvite(r) \/ RevokeWrite(r)
         \/ Accept(r) \/ AcceptFind(r) \/ AcceptCreate(r) \/ AcceptMark(r)
         \/ RequestDies(r)
  PROVE  /\ \A p \in Request : p # r => req'[p] = req[p]
         /\ \A p \in Request : Disabling(p)' => Disabling(p) /\ p # r /\ req'[p] = req[p]
<1>0. /\ req \in [Request -> RequestRecord] /\ req[r] \in RequestRecord
      /\ invite \in [Invite -> InviteRecord] /\ online \subseteq User
  BY DEF TypeInv, TypeOK
<1> SUFFICES /\ \A p \in Request : p # r => req'[p] = req[p]
             /\ ~(req'[r].op = "disable" /\ req'[r].pc = "write")
  BY DEF Disabling, At
<1>1. Finish(r) => /\ \A p \in Request : p # r => req'[p] = req[p]
                   /\ ~(req'[r].op = "disable" /\ req'[r].pc = "write")
  BY Moves DEF Idle
<1>2. Manage(r) => /\ \A p \in Request : p # r => req'[p] = req[p]
                   /\ ~(req'[r].op = "disable" /\ req'[r].pc = "write")
  BY Starts, StartGood
<1>3. ReadTarget(r) => /\ \A p \in Request : p # r => req'[p] = req[p]
                       /\ ~(req'[r].op = "disable" /\ req'[r].pc = "write")
  <2> SUFFICES ASSUME ReadTarget(r), Permitted(r)
               PROVE  /\ \A p \in Request : p # r => req'[p] = req[p]
                      /\ ~(req'[r].op = "disable" /\ req'[r].pc = "write")
    BY <1>1 DEF ReadTarget
  <2>1. PICK pc : /\ req' = [req EXCEPT ![r].role = account[req[r].target].role, ![r].pc = pc]
                  /\ req[r].op = "disable" => pc # "write"
    BY DEF ReadTarget, AfterCheck
  <2> QED BY <1>0, <2>1 DEF RequestRecord
<1>4. CheckLastOwner(r) => /\ \A p \in Request : p # r => req'[p] = req[p]
                   /\ ~(req'[r].op = "disable" /\ req'[r].pc = "write")
  BY <1>1, Moves DEF CheckLastOwner, AfterCheck, Demotes
<1>5. WriteTarget(r) => /\ \A p \in Request : p # r => req'[p] = req[p]
                   /\ ~(req'[r].op = "disable" /\ req'[r].pc = "write")
  BY <1>1, Moves DEF WriteTarget
<1>6. DemoteActor(r) => /\ \A p \in Request : p # r => req'[p] = req[p]
                   /\ ~(req'[r].op = "disable" /\ req'[r].pc = "write")
  BY <1>1 DEF DemoteActor
<1>7. Signup(r) => /\ \A p \in Request : p # r => req'[p] = req[p]
                   /\ ~(req'[r].op = "disable" /\ req'[r].pc = "write")
  BY Starts, StartGood
<1>8. SignupFind(r) => /\ \A p \in Request : p # r => req'[p] = req[p]
                   /\ ~(req'[r].op = "disable" /\ req'[r].pc = "write")
  BY <1>1, Moves DEF SignupFind, At
<1>9. SignupCreate(r) => /\ \A p \in Request : p # r => req'[p] = req[p]
                   /\ ~(req'[r].op = "disable" /\ req'[r].pc = "write")
  <2>1. CASE Has(req[r].email) BY <1>1, <2>1 DEF SignupCreate
  <2>2. CASE ~Has(req[r].email) BY <2>2, Starts, StartGood
  <2> QED BY <2>1, <2>2
<1>10. Login(r) => /\ \A p \in Request : p # r => req'[p] = req[p]
                   /\ ~(req'[r].op = "disable" /\ req'[r].pc = "write")
  BY Starts, StartGood
<1>11. IssueSession(r) => /\ \A p \in Request : p # r => req'[p] = req[p]
                   /\ ~(req'[r].op = "disable" /\ req'[r].pc = "write")
  BY <1>1 DEF IssueSession
<1>12. LogoutAll(r) => /\ \A p \in Request : p # r => req'[p] = req[p]
                   /\ ~(req'[r].op = "disable" /\ req'[r].pc = "write")
  BY Starts, StartGood
<1>13. CreateInvite(r) => /\ \A p \in Request : p # r => req'[p] = req[p]
                   /\ ~(req'[r].op = "disable" /\ req'[r].pc = "write")
  BY Starts, StartGood
<1>14. InviteFind(r) => /\ \A p \in Request : p # r => req'[p] = req[p]
                   /\ ~(req'[r].op = "disable" /\ req'[r].pc = "write")
  BY <1>1, Moves DEF InviteFind, At
<1>15. InvitePending(r) => /\ \A p \in Request : p # r => req'[p] = req[p]
                   /\ ~(req'[r].op = "disable" /\ req'[r].pc = "write")
  <2> SUFFICES ASSUME InvitePending(r)
               PROVE  /\ \A p \in Request : p # r => req'[p] = req[p]
                      /\ req'[r].op # "disable"
    OBVIOUS
  <2>1. req[r].op = "invite" /\ \E i : req' = [req EXCEPT ![r].pc = "write", ![r].inv = i]
    BY DEF InvitePending, At
  <2>2. req' \in [Request -> RequestRecord]
    BY TypeStep DEF Next, TypeInv, TypeOK
  <2> QED BY <1>0, <2>1, <2>2 DEF RequestRecord
<1>16. InviteWrite(r) => /\ \A p \in Request : p # r => req'[p] = req[p]
                   /\ ~(req'[r].op = "disable" /\ req'[r].pc = "write")
  BY <1>1 DEF InviteWrite
<1>17. RevokeInvite(r) => /\ \A p \in Request : p # r => req'[p] = req[p]
                   /\ ~(req'[r].op = "disable" /\ req'[r].pc = "write")
  BY Starts, StartGood
<1>18. RevokeWrite(r) => /\ \A p \in Request : p # r => req'[p] = req[p]
                   /\ ~(req'[r].op = "disable" /\ req'[r].pc = "write")
  BY <1>1 DEF RevokeWrite
<1>19. Accept(r) => /\ \A p \in Request : p # r => req'[p] = req[p]
                   /\ ~(req'[r].op = "disable" /\ req'[r].pc = "write")
  BY Starts, StartGood
<1>20. AcceptFind(r) => /\ \A p \in Request : p # r => req'[p] = req[p]
                   /\ ~(req'[r].op = "disable" /\ req'[r].pc = "write")
  BY <1>1, Moves DEF AcceptFind, At
<1>21. AcceptCreate(r) => /\ \A p \in Request : p # r => req'[p] = req[p]
                   /\ ~(req'[r].op = "disable" /\ req'[r].pc = "write")
  BY <1>1, Moves DEF AcceptCreate
<1>22. AcceptMark(r) => /\ \A p \in Request : p # r => req'[p] = req[p]
                   /\ ~(req'[r].op = "disable" /\ req'[r].pc = "write")
  BY <1>1 DEF AcceptMark
<1>23. RequestDies(r) => /\ \A p \in Request : p # r => req'[p] = req[p]
                   /\ ~(req'[r].op = "disable" /\ req'[r].pc = "write")
  BY <1>1 DEF RequestDies
<1> QED BY <1>2, <1>3, <1>4, <1>5, <1>6, <1>7, <1>8, <1>9, <1>10, <1>11, <1>12, <1>13, <1>14, <1>15, <1>16, <1>17, <1>18, <1>19, <1>20, <1>21, <1>22, <1>23

LEMMA OutStep == TypeInv /\ OutInv /\ [Next]_vars => OutInv'
<1> SUFFICES ASSUME TypeInv, OutInv, [Next]_vars PROVE OutInv'
  OBVIOUS
<1>t. /\ account \in [User -> AccountRecord] /\ online \subseteq User
      /\ \A r \in Request : req[r] \in RequestRecord /\ GoodRequest(req[r])
  BY DEF TypeInv, TypeOK, RequestsOK
<1>o. /\ \A u \in online : Exists(u) /\ ("login_raced" \notin gap => account[u].state = "ACTIVE")
      /\ "login_raced" \notin gap => \A r \in Request : Disabling(r) => req[r].target \notin online
  BY DEF OutInv, DisabledIsOut
<1> DEFINE Out == \A u \in online' :
                    /\ account'[u].state \in {"ACTIVE", "DISABLED"}
                    /\ "login_raced" \notin gap' => account'[u].state = "ACTIVE"
           Clear == "login_raced" \notin gap' =>
                      \A r \in Request : Disabling(r)' => req'[r].target \notin online'
<1>g. Out /\ Clear => OutInv'
  BY DEF OutInv, DisabledIsOut, Exists
<1>1. CASE UNCHANGED vars
  BY <1>1 DEF vars, OutInv, DisabledIsOut, Exists, Disabling, At
<1>2. ASSUME online' \subseteq online, account' = account, gap \subseteq gap' PROVE Out
  BY <1>o, <1>2 DEF Exists
<1>3. ASSUME online' \subseteq online, gap \subseteq gap', NEW r \in Request,
             \A p \in Request : Disabling(p)' => Disabling(p) /\ p # r /\ req'[p] = req[p]
      PROVE  Clear
  BY <1>o, <1>3
<1>4. ASSUME NEW r \in Request,
             \/ Manage(r) \/ ReadTarget(r) \/ CheckLastOwner(r)
             \/ Signup(r) \/ SignupFind(r) \/ Login(r) \/ LogoutAll(r)
             \/ CreateInvite(r) \/ InviteFind(r) \/ InvitePending(r) \/ InviteWrite(r)
             \/ RevokeInvite(r) \/ RevokeWrite(r)
             \/ Accept(r) \/ AcceptFind(r) \/ AcceptMark(r) \/ RequestDies(r)
      PROVE  OutInv'
  <2>1. online' = online /\ account' = account /\ gap \subseteq gap'
    <3>1. Manage(r) \/ ReadTarget(r) \/ CheckLastOwner(r) \/ Signup(r) \/ SignupFind(r)
            \/ Login(r) \/ LogoutAll(r) => online' = online /\ account' = account /\ gap \subseteq gap'
      BY DEF Manage, ReadTarget, CheckLastOwner, Signup, SignupFind, Login, LogoutAll
    <3>2. CreateInvite(r) \/ InviteFind(r) \/ InvitePending(r) \/ InviteWrite(r) \/ RevokeInvite(r)
            \/ RevokeWrite(r) => online' = online /\ account' = account /\ gap \subseteq gap'
      BY DEF CreateInvite, InviteFind, InvitePending, InviteWrite, RevokeInvite, RevokeWrite
    <3>3. Accept(r) \/ AcceptFind(r) \/ AcceptMark(r) \/ RequestDies(r)
            => online' = online /\ account' = account /\ gap \subseteq gap'
      BY DEF Accept, AcceptFind, AcceptMark, RequestDies
    <3> QED BY <1>4, <3>1, <3>2, <3>3
  <2>2. \A p \in Request : Disabling(p)' => Disabling(p) /\ p # r /\ req'[p] = req[p]
    BY <1>4, DisablingStep
  <2> QED BY <1>2, <1>3, <1>g, <2>1, <2>2
<1>5. ASSUME NEW r \in Request, RevokeSessions(r) PROVE OutInv'
  <2>1. Out BY <1>2, <1>5 DEF RevokeSessions
  <2>2. Finish(r) \/ Goto(r, "write")
    BY <1>5 DEF RevokeSessions
  <2>3. \A p \in Request : p # r => req'[p] = req[p]
    BY <2>2, Moves
  <2>4. Disabling(r)' => req'[r].target = req[r].target
    BY <2>2, Moves DEF Disabling, At, Idle
  <2>5. Clear
    BY <1>5, <1>o, <2>3, <2>4 DEF RevokeSessions, Disabling, At
  <2> QED BY <1>g, <2>1, <2>5
<1>6. ASSUME NEW r \in Request, WriteTarget(r) PROVE OutInv'
  <2> DEFINE q == req[r]
             t == req[r].target
  <2>1. t \in User /\ q.op \in Managing
    BY <1>6, <1>t DEF WriteTarget, GoodRequest, GoodAs, Managing
  <2>2. online' \subseteq online /\ gap \subseteq gap'
    BY <1>6 DEF WriteTarget
  <2>3. Clear
    BY <1>3, <1>6, <2>2, DisablingStep
  <2>4. CASE ~Exists(t)
    BY <1>2, <1>6, <1>g, <2>3, <2>4 DEF WriteTarget
  <2>5. CASE Exists(t)
    <3>1. account' = Updated(q) /\ (q.op = "remove" => t \notin online')
      BY <1>6, <2>5 DEF WriteTarget
    <3>2. \A u \in User : u # t => account'[u] = account[u]
      BY <1>t, <2>1, <3>1 DEF Updated, Managing
    <3>3. CASE q.op \in {"role", "transfer"}
      <4>1. account'[t].state = account[t].state
        BY <1>t, <2>1, <3>1, <3>3 DEF Updated, AccountRecord
      <4>2. Out BY <1>o, <1>t, <2>2, <3>2, <4>1 DEF Exists
      <4> QED BY <1>g, <2>3, <4>2
    <3>4. CASE q.op = "enable"
      <4>1. account'[t].state = "ACTIVE"
        BY <1>t, <2>1, <3>1, <3>4 DEF Updated, AccountRecord
      <4>2. Out BY <1>o, <1>t, <2>2, <3>2, <4>1 DEF Exists
      <4> QED BY <1>g, <2>3, <4>2
    <3>5. CASE q.op = "disable"
      <4>1. account'[t].state = "DISABLED"
        BY <1>t, <2>1, <3>1, <3>5 DEF Updated, AccountRecord
      <4>2. "login_raced" \notin gap' => t \notin online
        BY <1>6, <1>o, <2>2, <3>5 DEF WriteTarget, Disabling, At
      <4>3. Out BY <1>o, <1>t, <2>2, <3>2, <4>1, <4>2 DEF Exists
      <4> QED BY <1>g, <2>3, <4>3
    <3>6. CASE q.op = "remove"
      <4>1. Out BY <1>o, <1>t, <2>2, <3>1, <3>2, <3>6 DEF Exists
      <4> QED BY <1>g, <2>3, <4>1
    <3> QED BY <2>1, <3>3, <3>4, <3>5, <3>6 DEF Managing
  <2> QED BY <2>4, <2>5
<1>7. ASSUME NEW r \in Request, DemoteActor(r) PROVE OutInv'
  <2>1. online' = online /\ gap \subseteq gap'
    BY <1>7 DEF DemoteActor
  <2>2. \A u \in User : account'[u].state = account[u].state
    BY <1>7, <1>t DEF DemoteActor, AccountRecord
  <2>3. Out BY <1>o, <1>t, <2>1, <2>2 DEF Exists
  <2>4. Clear BY <1>3, <1>7, <2>1, DisablingStep
  <2> QED BY <1>g, <2>3, <2>4
<1>8. ASSUME NEW r \in Request, SignupCreate(r) \/ AcceptCreate(r) PROVE OutInv'
  <2>1. online' = online /\ gap \subseteq gap'
    BY <1>8 DEF SignupCreate, AcceptCreate
  <2>2. \A u \in User : Exists(u) => account'[u] = account[u]
    <3>1. SignupCreate(r) => \A u \in User : Exists(u) => account'[u] = account[u]
      BY <1>t DEF SignupCreate, Created, Exists
    <3>2. AcceptCreate(r) => \A u \in User : Exists(u) => account'[u] = account[u]
      BY <1>t DEF AcceptCreate, Created, Exists
    <3> QED BY <1>8, <3>1, <3>2
  <2>3. Out BY <1>o, <1>t, <2>1, <2>2 DEF Exists
  <2>4. Clear BY <1>3, <1>8, <2>1, DisablingStep
  <2> QED BY <1>g, <2>3, <2>4
<1>9. ASSUME NEW r \in Request, IssueSession(r) PROVE OutInv'
  <2> DEFINE u == req[r].target
  <2>1. \A p \in Request : Disabling(p)' => Disabling(p) /\ p # r /\ req'[p] = req[p]
    BY <1>9, DisablingStep
  <2>2. CASE ~Exists(u)
    BY <1>2, <1>3, <1>9, <1>g, <2>1, <2>2 DEF IssueSession
  <2>3. CASE Exists(u)
    <3>1. /\ online' = online \cup {u} /\ account' = account /\ gap \subseteq gap'
          /\ "login_raced" \notin gap' => account[u].state # "DISABLED" /\ ~BeingDisabled(u)
      BY <1>9, <2>3 DEF IssueSession
    <3>2. Out BY <1>o, <2>3, <3>1 DEF Exists
    <3>3. Clear BY <1>o, <2>1, <3>1 DEF BeingDisabled, Disabling
    <3> QED BY <1>g, <3>2, <3>3
  <2> QED BY <2>2, <2>3
<1>10. ASSUME NEW u \in User, SessionEnds(u) PROVE OutInv'
  BY <1>10, <1>o, <1>g, <1>2 DEF SessionEnds, Disabling, At
<1> QED
  BY <1>1, <1>4, <1>5, <1>6, <1>7, <1>8, <1>9, <1>10 DEF Next

(* A disabled account has no session, unless a login raced with the       *)
(* disabling; a removed account has none.                                 *)
THEOREM DisabledStaysOut == Spec => []DisabledIsOut
<1>1. Init => OutInv
  BY IdleGood DEF Init, OutInv, DisabledIsOut, Disabling, At
<1>2. OutInv => DisabledIsOut BY DEF OutInv
<1> QED BY <1>1, <1>2, OutStep, TypeInvHolds, PTL DEF Spec

-----------------------------------------------------------------------------
(* An invitation that admitted an account is marked, or the request that  *)
(* used it is about to mark it.                                           *)
Windows == {"stale_invite", "reopened", "accept_overlap", "accept_unmarked"}
Marker(i) == \E p \in Request : At(p, "accept", "mark") /\ req[p].inv = i

SpentInv ==
  gap \cap Windows = {} =>
    \A i \in Invite :
      /\ joined[i] <= 1
      /\ joined[i] = 0 \/ invite[i].status \in {"ACCEPTED", "REVOKED"} \/ Marker(i)
      /\ invite[i].status = "unused" => joined[i] = 0

(* Nobody but the request itself takes it away from its mark.             *)
LEMMA MarkerStep ==
  ASSUME TypeInv, NEW r \in Request,
         \/ Manage(r) \/ ReadTarget(r) \/ CheckLastOwner(r) \/ RevokeSessions(r)
         \/ WriteTarget(r) \/ DemoteActor(r)
         \/ Signup(r) \/ SignupFind(r) \/ SignupCreate(r)
         \/ Login(r) \/ IssueSession(r) \/ LogoutAll(r)
         \/ CreateInvite(r) \/ InviteFind(r) \/ InvitePending(r) \/ InviteWrite(r)
         \/ RevokeInvite(r) \/ RevokeWrite(r)
         \/ Accept(r) \/ AcceptFind(r) \/ AcceptCreate(r)
  PROVE  \A i \in Invite : Marker(i) => Marker(i)'
<1>1. \A p \in Request : p # r => req'[p] = req[p]
  <2>1. RevokeSessions(r) => \A p \in Request : p # r => req'[p] = req[p]
    BY Moves DEF RevokeSessions
  <2> QED BY <2>1, DisablingStep
<1>2. ~At(r, "accept", "mark")
  <2>1. Manage(r) \/ Signup(r) \/ Login(r) \/ LogoutAll(r) \/ CreateInvite(r) \/ RevokeInvite(r)
          \/ Accept(r) => req[r].pc = "idle"
    BY DEF Manage, Signup, Login, LogoutAll, CreateInvite, RevokeInvite, Accept, Start
  <2>2. ReadTarget(r) \/ CheckLastOwner(r) \/ RevokeSessions(r) \/ WriteTarget(r) \/ DemoteActor(r)
          => req[r].pc # "mark"
    BY DEF ReadTarget, CheckLastOwner, RevokeSessions, WriteTarget, DemoteActor
  <2>3. SignupFind(r) \/ SignupCreate(r) \/ IssueSession(r) \/ InviteFind(r) \/ InvitePending(r)
          => req[r].pc # "mark"
    BY DEF SignupFind, SignupCreate, IssueSession, InviteFind, InvitePending, At
  <2>4. InviteWrite(r) \/ RevokeWrite(r) \/ AcceptFind(r) \/ AcceptCreate(r) => req[r].pc # "mark"
    BY DEF InviteWrite, RevokeWrite, AcceptFind, AcceptCreate, At
  <2> QED BY <2>1, <2>2, <2>3, <2>4 DEF At
<1> QED BY <1>1, <1>2 DEF Marker, At

LEMMA SpentStep == TypeInv /\ SpentInv /\ [Next]_vars => SpentInv'
<1> SUFFICES ASSUME TypeInv, SpentInv, [Next]_vars, gap' \cap Windows = {}, NEW i \in Invite
             PROVE  /\ joined'[i] <= 1
                    /\ joined'[i] = 0 \/ invite'[i].status \in {"ACCEPTED", "REVOKED"} \/ Marker(i)'
                    /\ invite'[i].status = "unused" => joined'[i] = 0
  BY DEF SpentInv
<1> DEFINE Good == /\ joined'[i] <= 1
                   /\ joined'[i] = 0 \/ invite'[i].status \in {"ACCEPTED", "REVOKED"} \/ Marker(i)'
                   /\ invite'[i].status = "unused" => joined'[i] = 0
<1>t. /\ invite \in [Invite -> InviteRecord] /\ joined \in [Invite -> Nat]
      /\ \A r \in Request : req[r] \in RequestRecord /\ GoodRequest(req[r])
  BY DEF TypeInv, TypeOK, RequestsOK
<1>o. gap \cap Windows = {} =>
        /\ joined[i] <= 1
        /\ joined[i] = 0 \/ invite[i].status \in {"ACCEPTED", "REVOKED"} \/ Marker(i)
        /\ invite[i].status = "unused" => joined[i] = 0
  BY DEF SpentInv
<1>k. invite' = invite /\ joined' = joined /\ gap \subseteq gap' /\ (Marker(i) => Marker(i)') => Good
  BY <1>o
<1>1. CASE UNCHANGED vars
  <2>1. Marker(i) => Marker(i)' BY <1>1 DEF vars, Marker, At
  <2> QED BY <1>1, <1>k, <2>1 DEF vars
<1>2. ASSUME NEW r \in Request,
             \/ Manage(r) \/ ReadTarget(r) \/ CheckLastOwner(r) \/ RevokeSessions(r)
             \/ WriteTarget(r) \/ DemoteActor(r)
             \/ Signup(r) \/ SignupFind(r) \/ SignupCreate(r)
             \/ Login(r) \/ IssueSession(r) \/ LogoutAll(r)
             \/ CreateInvite(r) \/ InviteFind(r) \/ InvitePending(r) \/ RevokeInvite(r)
             \/ Accept(r) \/ AcceptFind(r)
      PROVE  Good
  <2>1. invite' = invite /\ joined' = joined /\ gap \subseteq gap'
    <3>1. Manage(r) \/ ReadTarget(r) \/ CheckLastOwner(r) \/ RevokeSessions(r) \/ WriteTarget(r)
            \/ DemoteActor(r) => invite' = invite /\ joined' = joined /\ gap \subseteq gap'
      BY DEF Manage, ReadTarget, CheckLastOwner, RevokeSessions, WriteTarget, DemoteActor
    <3>2. Signup(r) \/ SignupFind(r) \/ SignupCreate(r) \/ Login(r) \/ IssueSession(r) \/ LogoutAll(r)
            => invite' = invite /\ joined' = joined /\ gap \subseteq gap'
      BY DEF Signup, SignupFind, SignupCreate, Login, IssueSession, LogoutAll
    <3>3. CreateInvite(r) \/ InviteFind(r) \/ InvitePending(r) \/ RevokeInvite(r) \/ Accept(r)
            \/ AcceptFind(r) => invite' = invite /\ joined' = joined /\ gap \subseteq gap'
      BY DEF CreateInvite, InviteFind, InvitePending, RevokeInvite, Accept, AcceptFind
    <3> QED BY <1>2, <3>1, <3>2, <3>3
  <2>2. Marker(i) => Marker(i)'
    BY <1>2, MarkerStep
  <2> QED BY <1>k, <2>1, <2>2
<1>3. ASSUME NEW r \in Request, InviteWrite(r) PROVE Good
  <2>1. PICK j \in Invite :
          /\ invite' = [invite EXCEPT ![j] = [status |-> "PENDING", role |-> req[r].new,
                                              email |-> req[r].email]]
          /\ gap' = IF invite[j].status \in {"unused", "PENDING"} THEN gap ELSE gap \cup {"reopened"}
          /\ req[r].inv = Nobody \/ j = req[r].inv
    <3>1. req[r].inv \in Invite \cup {Nobody} BY <1>t DEF RequestRecord
    <3> QED BY <1>3, <3>1 DEF InviteWrite
  <2>2. gap' = gap /\ invite[j].status \in {"unused", "PENDING"} /\ joined' = joined
    BY <1>3, <2>1 DEF InviteWrite, Windows
  <2>3. Marker(i) => Marker(i)'
    BY <1>3, MarkerStep
  <2>4. i # j => invite'[i] = invite[i]
    BY <1>t, <2>1
  <2>5. i = j => invite'[i].status = "PENDING"
    BY <1>t, <2>1
  <2> QED BY <1>o, <2>2, <2>3, <2>4, <2>5
<1>4. ASSUME NEW r \in Request, RevokeWrite(r) PROVE Good
  <2>1. req[r].inv \in Invite
    BY <1>4, <1>t DEF RevokeWrite, At, GoodRequest, GoodAs
  <2>2. invite'[i].status = IF i = req[r].inv THEN "REVOKED" ELSE invite[i].status
    BY <1>4, <1>t, <2>1 DEF RevokeWrite, InviteRecord
  <2>3. Marker(i) => Marker(i)'
    BY <1>4, MarkerStep
  <2>4. gap' = gap /\ joined' = joined
    BY <1>4 DEF RevokeWrite
  <2> QED BY <1>o, <2>2, <2>3, <2>4
<1>5. ASSUME NEW r \in Request, AcceptCreate(r) PROVE Good
  <2>1. Marker(i) => Marker(i)'
    BY <1>5, MarkerStep
  <2>2. CASE Has(req[r].email)
    BY <1>5, <1>k, <2>1, <2>2 DEF AcceptCreate
  <2>3. CASE ~Has(req[r].email)
    <3> DEFINE j == req[r].inv
    <3>1. j \in Invite
      BY <1>5, <1>t DEF AcceptCreate, At, GoodRequest, GoodAs
    <3>2. /\ joined' = [joined EXCEPT ![j] = @ + 1] /\ invite' = invite /\ gap' = gap
          /\ invite[j].status = "PENDING" /\ ~Marker(j) /\ Goto(r, "mark") /\ req[r].op = "accept"
      BY <1>5, <2>3 DEF AcceptCreate, At, Marker, Windows
    <3>3. i = j => Marker(i)'
      BY <3>2, Moves DEF Marker, At
    <3>4. CASE i = j
      <4>1. Marker(i)' BY <3>3, <3>4
      <4>2. joined[i] = 0
        <5>1. ~Marker(i) /\ invite[i].status = "PENDING" BY <3>2, <3>4
        <5> QED BY <1>o, <3>2, <5>1
      <4> QED BY <1>t, <3>2, <3>4, <4>1, <4>2
    <3>5. CASE i # j
      BY <1>o, <1>t, <2>1, <3>2, <3>5
    <3> QED BY <3>4, <3>5
  <2> QED BY <2>2, <2>3
<1>6. ASSUME NEW r \in Request, AcceptMark(r) PROVE Good
  <2>1. req[r].inv \in Invite
    BY <1>6, <1>t DEF AcceptMark, At, GoodRequest, GoodAs
  <2>2. invite'[i].status = IF i = req[r].inv THEN "ACCEPTED" ELSE invite[i].status
    BY <1>6, <1>t, <2>1 DEF AcceptMark, Marked, InviteRecord
  <2>3. \A p \in Request : p # r => req'[p] = req[p]
    BY <1>6, Moves DEF AcceptMark
  <2>4. i # req[r].inv /\ Marker(i) => Marker(i)'
    BY <2>3 DEF Marker, At
  <2>5. gap' = gap /\ joined' = joined
    BY <1>6 DEF AcceptMark
  <2> QED BY <1>o, <2>2, <2>4, <2>5
<1>7. ASSUME NEW r \in Request, RequestDies(r) PROVE Good
  <2>1. ~At(r, "accept", "mark") /\ gap' = gap /\ invite' = invite /\ joined' = joined
    BY <1>7 DEF RequestDies, Windows
  <2>2. \A p \in Request : p # r => req'[p] = req[p]
    BY <1>7, Moves DEF RequestDies
  <2>3. Marker(i) => Marker(i)'
    BY <2>1, <2>2 DEF Marker, At
  <2> QED BY <1>k, <2>1, <2>3
<1>8. ASSUME NEW u \in User, SessionEnds(u) PROVE Good
  <2>1. Marker(i) => Marker(i)' BY <1>8 DEF SessionEnds, Marker, At
  <2> QED BY <1>8, <1>k, <2>1 DEF SessionEnds
<1> QED
  BY <1>1, <1>2, <1>3, <1>4, <1>5, <1>6, <1>7, <1>8 DEF Next

(* An invitation admits one account.                                      *)
THEOREM InvitationSpentOnce == Spec => []SpentOnce
<1>1. Init => SpentInv
  BY DEF Init, SpentInv
<1>2. SpentInv => SpentOnce BY DEF SpentInv, SpentOnce, Windows
<1> QED BY <1>1, <1>2, SpentStep, TypeInvHolds, PTL DEF Spec

-----------------------------------------------------------------------------
(* One request at a time.  What a request has read still holds when it     *)
(* writes, whatever it does, so that nothing but the death of a request    *)
(* opens a window: each of the others needs a second request.              *)

Alone == \A p, r \in Request : p = r

InStep(r) ==
  LET q == req[r] IN
  /\ Demotes(q) /\ q.pc \in {"count", "revoke", "write"} => account[q.target].role = q.role
  /\ Demotes(q) /\ q.pc \in {"revoke", "write"} /\ q.role = "OWNER" => SpareOwner
  /\ q.op = "transfer" /\ q.pc \in {"write", "demote"} => MayOwn(r)
  /\ q.pc = "demote" => q.op = "transfer" /\ account[q.target].role = "OWNER"
  /\ q.op = "login" /\ q.pc = "issue" => account[q.target].state = "ACTIVE"
  /\ q.op = "signup" /\ q.pc \in {"find", "write"} => Claimable
  /\ q.op = "accept" /\ q.pc \in {"find", "write"} => invite[q.inv].status = "PENDING"
  /\ q.op = "invite" /\ q.pc = "write" /\ q.inv # Nobody => invite[q.inv].status = "PENDING"

AloneInv == gap \subseteq {"accept_unmarked"} /\ \A r \in Request : InStep(r)

LEMMA IdleInStep == ASSUME NEW r \in Request, req[r] = Idle PROVE InStep(r)
BY DEF Idle, InStep, Demotes

LEMMA EndsInStep == ASSUME TypeInv, NEW r \in Request, Finish(r) PROVE InStep(r)'
<1>1. req'[r] = Idle BY DEF Finish, TypeInv, TypeOK
<1> QED BY <1>1 DEF Idle, InStep, Demotes

(* The next statement, and all else as it was.                             *)
LEMMA GoesOn ==
  ASSUME TypeInv, NEW r \in Request, NEW pc, Goto(r, pc)
  PROVE  /\ req'[r].pc = pc /\ req'[r].op = req[r].op /\ req'[r].target = req[r].target
         /\ req'[r].role = req[r].role /\ req'[r].new = req[r].new /\ req'[r].inv = req[r].inv
BY DEF Goto, TypeInv, TypeOK, RequestRecord

LEMMA AloneManage ==
  ASSUME TypeInv, AloneInv, NEW r \in Request,
         Manage(r) \/ ReadTarget(r) \/ CheckLastOwner(r) \/ RevokeSessions(r) \/ LogoutAll(r)
  PROVE  gap' \subseteq {"accept_unmarked"} /\ InStep(r)'
<1>t. req \in [Request -> RequestRecord] BY DEF TypeInv, TypeOK
<1>i. InStep(r) /\ gap \subseteq {"accept_unmarked"} BY DEF AloneInv
<1>1. /\ UNCHANGED <<account, invite, gap>> /\ CountOwners' = CountOwners
  BY DEF Manage, ReadTarget, CheckLastOwner, RevokeSessions, LogoutAll, CountOwners, ActiveOwner
<1>2. CASE Manage(r) \/ LogoutAll(r)
  <2>a. Manage(r) => req'[r].pc = "read" /\ req'[r].op \in Managing BY Starts, StartGood
  <2>b. LogoutAll(r) => req'[r].pc = "revoke" /\ req'[r].op = "logout_all" BY Starts, StartGood
  <2>1. \/ req'[r].pc = "read" /\ req'[r].op \in Managing
        \/ req'[r].pc = "revoke" /\ req'[r].op = "logout_all"
    BY <1>2, <2>a, <2>b
  <2> QED BY <1>1, <1>i, <2>1 DEF InStep, Demotes, Managing
<1>3. CASE ReadTarget(r)
  <2>1. CASE ~Permitted(r) BY <2>1, <1>1, <1>3, <1>i, EndsInStep DEF ReadTarget
  <2>2. CASE Permitted(r)
    <3> DEFINE q == req[r]
               seen == account[q.target].role
    <3>1. /\ req'[r].role = seen /\ req'[r].op = q.op /\ req'[r].target = q.target
          /\ req'[r].new = q.new
          /\ req'[r].pc = IF Demotes(q) /\ seen = "OWNER" THEN "count" ELSE AfterCheck(q.op)
      BY <2>2, <1>3, <1>t DEF ReadTarget, RequestRecord
    <3>2. req[r].op \in Managing /\ req[r].pc = "read"
      BY <1>3 DEF ReadTarget, TypeInv, RequestsOK, GoodRequest, GoodAs
    <3>3. q.op = "transfer" => MayOwn(r) BY <2>2 DEF Permitted
    <3>4. (Demotes(req[r]) <=> Demotes(req'[r])) /\ (MayOwn(r)' <=> MayOwn(r))
      BY <3>1, <1>1 DEF Demotes, MayOwn
    <3> QED BY <1>1, <1>i, <3>1, <3>2, <3>3, <3>4 DEF InStep, AfterCheck, Managing, Demotes
  <2> QED BY <2>1, <2>2
<1>4. CASE CheckLastOwner(r)
  <2>1. CASE ~SpareOwner BY <2>1, <1>1, <1>4, <1>i, EndsInStep DEF CheckLastOwner
  <2>2. CASE SpareOwner
    <3>1. /\ req'[r].pc \in {"revoke", "write"} /\ req'[r].op = req[r].op
          /\ req'[r].target = req[r].target /\ req'[r].role = req[r].role
          /\ req'[r].new = req[r].new /\ req[r].pc = "count" /\ Demotes(req[r])
      BY <2>2, <1>4, GoesOn DEF CheckLastOwner, AfterCheck
    <3>2. SpareOwner' BY <2>2, <1>1 DEF SpareOwner
    <3> QED BY <1>1, <1>i, <3>1, <3>2 DEF InStep, Demotes
  <2> QED BY <2>1, <2>2
<1>5. CASE RevokeSessions(r)
  <2>1. CASE req[r].op = "logout_all" BY <2>1, <1>1, <1>5, <1>i, EndsInStep DEF RevokeSessions
  <2>2. CASE req[r].op # "logout_all"
    <3>1. /\ req'[r].pc = "write" /\ req'[r].op = req[r].op
          /\ req'[r].target = req[r].target /\ req'[r].role = req[r].role
          /\ req'[r].new = req[r].new /\ req[r].pc = "revoke"
      BY <2>2, <1>5, GoesOn DEF RevokeSessions
    <3>2. req[r].op \in {"disable", "remove"}
      BY <2>2, <3>1 DEF TypeInv, RequestsOK, GoodRequest, GoodAs
    <3>3. SpareOwner' <=> SpareOwner BY <1>1 DEF SpareOwner
    <3> QED BY <1>1, <1>i, <3>1, <3>2, <3>3 DEF InStep, Demotes
  <2> QED BY <2>1, <2>2
<1> QED BY <1>2, <1>3, <1>4, <1>5

LEMMA AloneWrites ==
  ASSUME TypeInv, AloneInv, NEW r \in Request, WriteTarget(r) \/ DemoteActor(r)
  PROVE  gap' \subseteq {"accept_unmarked"} /\ InStep(r)'
<1>t. /\ req \in [Request -> RequestRecord] /\ account \in [User -> AccountRecord]
      /\ GoodRequest(req[r])
  BY DEF TypeInv, TypeOK, RequestsOK
<1>i. InStep(r) /\ gap \subseteq {"accept_unmarked"} BY DEF AloneInv
<1>1. CASE DemoteActor(r)
  <2>1. MayOwn(r) /\ account[req[r].target].role = "OWNER"
    BY <1>1, <1>i DEF DemoteActor, InStep
  <2>2. gap' = gap BY <2>1, <1>1 DEF DemoteActor
  <2>3. Finish(r) BY <1>1 DEF DemoteActor
  <2> QED BY <2>2, <2>3, <1>i, EndsInStep
<1>2. CASE WriteTarget(r)
  <2>1. ~StaleCheck(r) BY <1>2, <1>i DEF WriteTarget, InStep, StaleCheck
  <2>2. gap' = gap BY <2>1, <1>2 DEF WriteTarget
  <2>3. CASE req[r].op # "transfer" \/ ~Exists(req[r].target)
    BY <2>3, <2>2, <1>2, <1>i, EndsInStep DEF WriteTarget
  <2>4. CASE req[r].op = "transfer" /\ Exists(req[r].target)
    <3>1. /\ req'[r].pc = "demote" /\ req'[r].op = "transfer" /\ req'[r].target = req[r].target
          /\ account' = [account EXCEPT ![req[r].target].role = "OWNER"]
      BY <2>4, <1>2, GoesOn DEF WriteTarget, Updated
    <3>2. req[r].target \in User /\ MayOwn(r)
      BY <2>4, <1>2, <1>t, <1>i DEF WriteTarget, GoodRequest, GoodAs, Managing, InStep
    <3>3. /\ account'[req[r].target].role = "OWNER"
          /\ account'[req[r].target].state = account[req[r].target].state
      BY <3>1, <3>2, <1>t DEF AccountRecord
    <3> QED BY <3>1, <3>2, <3>3, <2>2, <1>i DEF InStep, Demotes, MayOwn
  <2> QED BY <2>3, <2>4
<1> QED BY <1>1, <1>2

LEMMA AloneSessions ==
  ASSUME TypeInv, AloneInv, Alone, NEW r \in Request,
         Signup(r) \/ SignupFind(r) \/ SignupCreate(r) \/ Login(r) \/ IssueSession(r)
  PROVE  gap' \subseteq {"accept_unmarked"} /\ InStep(r)'
<1>t. /\ req \in [Request -> RequestRecord] /\ account \in [User -> AccountRecord]
  BY DEF TypeInv, TypeOK
<1>i. InStep(r) /\ gap \subseteq {"accept_unmarked"} BY DEF AloneInv
<1>1. CASE Signup(r)
  <2>1. req'[r].pc = "find" /\ req'[r].op = "signup" BY <1>1, Starts, StartGood
  <2>2. Claimable /\ UNCHANGED <<account, gap>> BY <1>1 DEF Signup
  <2>3. Claimable' BY <2>2 DEF Claimable, CountOwners, ActiveOwner
  <2> QED BY <2>1, <2>2, <2>3, <1>i DEF InStep, Demotes
<1>2. CASE SignupFind(r)
  <2>1. CASE Has(req[r].email) BY <2>1, <1>2, <1>i, EndsInStep DEF SignupFind
  <2>2. CASE ~Has(req[r].email)
    <3>1. /\ req'[r].pc = "write" /\ req'[r].op = "signup" /\ Claimable
          /\ UNCHANGED <<account, gap>>
      BY <2>2, <1>2, <1>i, GoesOn DEF SignupFind, At, InStep
    <3>2. Claimable' BY <3>1 DEF Claimable, CountOwners, ActiveOwner
    <3> QED BY <3>1, <3>2, <1>i DEF InStep, Demotes
  <2> QED BY <2>1, <2>2
<1>3. CASE SignupCreate(r)
  <2>1. CASE Has(req[r].email) BY <2>1, <1>3, <1>i, EndsInStep DEF SignupCreate
  <2>2. CASE ~Has(req[r].email)
    <3>1. Claimable BY <1>3, <1>i DEF SignupCreate, At, InStep
    <3>2. PICK u \in User : /\ account' = Created(u, req[r].email, "OWNER")
                            /\ req' = [req EXCEPT ![r] = [Idle EXCEPT !.pc = "issue", !.target = u]]
                            /\ gap' = gap
      BY <2>2, <3>1, <1>3 DEF SignupCreate
    <3>3. req'[r].pc = "issue" /\ req'[r].op = "login" /\ req'[r].target = u
      BY <3>2, <1>t, IdleGood DEF RequestRecord
    <3>4. account'[u].state = "ACTIVE" BY <3>2, <1>t DEF Created
    <3> QED BY <3>2, <3>3, <3>4, <1>i DEF InStep, Demotes
  <2> QED BY <2>1, <2>2
<1>4. CASE Login(r)
  <2>1. PICK u \in User : /\ account[u].state = "ACTIVE"
                          /\ Start(r, [Idle EXCEPT !.pc = "issue", !.target = u])
                          /\ UNCHANGED <<account, gap>>
    BY <1>4 DEF Login
  <2>2. req'[r].pc = "issue" /\ req'[r].op = "login" /\ req'[r].target = u
    BY <2>1, <1>t, IdleGood DEF Start, RequestRecord
  <2> QED BY <2>1, <2>2, <1>i DEF InStep, Demotes
<1>5. CASE IssueSession(r)
  <2>1. account[req[r].target].state = "ACTIVE" BY <1>5, <1>i DEF IssueSession, At, InStep
  <2>2. ~BeingDisabled(req[r].target) BY <1>5 DEF IssueSession, BeingDisabled, Alone, At
  <2>3. gap' = gap BY <2>1, <2>2, <1>5 DEF IssueSession
  <2> QED BY <2>3, <1>5, <1>i, EndsInStep DEF IssueSession
<1> QED BY <1>1, <1>2, <1>3, <1>4, <1>5

LEMMA AloneInvites ==
  ASSUME TypeInv, AloneInv, Alone, NEW r \in Request,
         \/ CreateInvite(r) \/ InviteFind(r) \/ InvitePending(r) \/ InviteWrite(r)
         \/ RevokeInvite(r) \/ RevokeWrite(r)
         \/ Accept(r) \/ AcceptFind(r) \/ AcceptCreate(r) \/ AcceptMark(r)
  PROVE  gap' \subseteq {"accept_unmarked"} /\ InStep(r)'
<1>t. req \in [Request -> RequestRecord] BY DEF TypeInv, TypeOK
<1>i. InStep(r) /\ gap \subseteq {"accept_unmarked"} BY DEF AloneInv
<1>1. CASE CreateInvite(r) \/ RevokeInvite(r)
  <2>1. \/ req'[r].pc = "find" /\ req'[r].op = "invite"
        \/ req'[r].pc = "write" /\ req'[r].op = "revoke_invite"
    BY <1>1, Starts, StartGood
  <2>2. gap' = gap BY <1>1 DEF CreateInvite, RevokeInvite
  <2> QED BY <2>1, <2>2, <1>i DEF InStep, Demotes
<1>2. CASE InviteFind(r)
  <2>1. CASE Has(req[r].email) BY <2>1, <1>2, <1>i, EndsInStep DEF InviteFind
  <2>2. CASE ~Has(req[r].email)
    <3>1. req'[r].pc = "pending" /\ req'[r].op = "invite" /\ gap' = gap
      BY <2>2, <1>2, GoesOn DEF InviteFind, At
    <3> QED BY <3>1, <1>i DEF InStep, Demotes
  <2> QED BY <2>1, <2>2
<1>3. CASE InvitePending(r)
  <2> DEFINE found == PendingFor(req[r].email)
  <2>1. PICK i \in IF found = {} THEN {Nobody} ELSE found :
          req' = [req EXCEPT ![r].pc = "write", ![r].inv = i]
    BY <1>3 DEF InvitePending
  <2>p. req[r].op = "invite" /\ UNCHANGED <<gap, invite>> BY <1>3 DEF InvitePending, At
  <2>q. req' = [req EXCEPT ![r] = [req[r] EXCEPT !.pc = "write", !.inv = i]] BY <2>1, <1>t
  <2>r. req'[r] = [req[r] EXCEPT !.pc = "write", !.inv = i] BY <2>q, <1>t
  <2>s. req[r] \in RequestRecord BY <1>t
  <2> HIDE DEF found
  <2>2. /\ req'[r].pc = "write" /\ req'[r].op = "invite" /\ req'[r].inv = i
        /\ UNCHANGED <<gap, invite>>
    BY <2>p, <2>r, <2>s DEF RequestRecord
  <2>3. i # Nobody => invite[i].status = "PENDING" BY DEF PendingFor, found
  <2> QED BY <2>2, <2>3, <1>i DEF InStep, Demotes
<1>4. CASE InviteWrite(r)
  <2>1. gap' = gap
    <3>1. PICK i \in IF req[r].inv = Nobody THEN {j \in Invite : invite[j].status = "unused"}
                     ELSE {req[r].inv} :
            gap' = IF invite[i].status \in {"unused", "PENDING"} THEN gap ELSE gap \cup {"reopened"}
      BY <1>4 DEF InviteWrite
    <3>2. invite[i].status \in {"unused", "PENDING"}
      BY <1>4, <1>i DEF InviteWrite, At, InStep
    <3> QED BY <3>1, <3>2
  <2> QED BY <2>1, <1>4, <1>i, EndsInStep DEF InviteWrite
<1>5. CASE RevokeWrite(r) \/ AcceptMark(r)
  BY <1>5, <1>i, EndsInStep DEF RevokeWrite, AcceptMark
<1>6. CASE Accept(r)
  <2>1. PICK i \in Invite :
          /\ invite[i].status = "PENDING"
          /\ Start(r, [Idle EXCEPT !.op = "accept", !.pc = "find", !.inv = i,
                                   !.email = invite[i].email, !.new = invite[i].role])
          /\ UNCHANGED <<invite, gap>>
    BY <1>6 DEF Accept
  <2>2. req'[r].pc = "find" /\ req'[r].op = "accept" /\ req'[r].inv = i
    BY <2>1, <1>t, IdleGood DEF Start, RequestRecord
  <2> QED BY <2>1, <2>2, <1>i DEF InStep, Demotes
<1>7. CASE AcceptFind(r)
  <2>1. CASE Has(req[r].email) BY <2>1, <1>7, <1>i, EndsInStep DEF AcceptFind
  <2>2. CASE ~Has(req[r].email)
    <3>1. /\ req'[r].pc = "write" /\ req'[r].op = "accept" /\ req'[r].inv = req[r].inv
          /\ invite[req[r].inv].status = "PENDING" /\ UNCHANGED <<invite, gap>>
      BY <2>2, <1>7, <1>i, GoesOn DEF AcceptFind, At, InStep
    <3> QED BY <3>1, <1>i DEF InStep, Demotes
  <2> QED BY <2>1, <2>2
<1>8. CASE AcceptCreate(r)
  <2>1. CASE Has(req[r].email) BY <2>1, <1>8, <1>i, EndsInStep DEF AcceptCreate
  <2>2. CASE ~Has(req[r].email)
    <3>1. invite[req[r].inv].status = "PENDING" BY <1>8, <1>i DEF AcceptCreate, At, InStep
    <3>2. ~\E p \in Request : At(p, "accept", "mark") /\ req[p].inv = req[r].inv
      BY <1>8 DEF AcceptCreate, At, Alone
    <3>3. gap' = gap /\ req'[r].pc = "mark" /\ req'[r].op = "accept"
      BY <2>2, <3>1, <3>2, <1>8, GoesOn DEF AcceptCreate, At
    <3> QED BY <3>3, <1>i DEF InStep, Demotes
  <2> QED BY <2>1, <2>2
<1> QED BY <1>1, <1>2, <1>3, <1>4, <1>5, <1>6, <1>7, <1>8

LEMMA AloneStep == ASSUME Alone, TypeInv, AloneInv, [Next]_vars PROVE AloneInv'
<1>i. gap \subseteq {"accept_unmarked"} /\ \A r \in Request : InStep(r) BY DEF AloneInv
<1>1. ASSUME NEW r \in Request, gap' \subseteq {"accept_unmarked"} /\ InStep(r)' PROVE AloneInv'
  BY <1>1 DEF AloneInv, Alone
<1>2. ASSUME UNCHANGED <<account, invite, req, gap>> PROVE AloneInv'
  BY <1>2, <1>i DEF AloneInv, InStep, Demotes, MayOwn, SpareOwner, Claimable, CountOwners, ActiveOwner
<1>3. ASSUME NEW r \in Request, RequestDies(r) PROVE AloneInv'
  <2>1. gap' \subseteq {"accept_unmarked"} /\ InStep(r)' BY <1>3, <1>i, EndsInStep DEF RequestDies
  <2> QED BY <2>1, <1>1
<1>4. ASSUME NEW u \in User, SessionEnds(u) PROVE AloneInv' BY <1>4, <1>2 DEF SessionEnds
<1>5. CASE UNCHANGED vars BY <1>5, <1>2 DEF vars
<1> QED
  BY <1>1, <1>3, <1>4, <1>5, AloneManage, AloneWrites, AloneSessions, AloneInvites DEF Next

(* With one request at a time the checks of changeRole, setStatus, remove, *)
(* transferOwnership, signup, login, create and accept all hold: none of   *)
(* them writes on anything that changed since it was read.  Every window   *)
(* but one therefore takes two overlapping requests, and that one a        *)
(* request that dies between the account and the mark of its invitation.   *)
THEOREM WindowsTakeTwo ==
  ASSUME Alone
  PROVE  Spec => [](gap \subseteq {"accept_unmarked"})
<1>1. Init => AloneInv
  <2> SUFFICES ASSUME Init PROVE AloneInv OBVIOUS
  <2>1. \A r \in Request : InStep(r) BY IdleInStep DEF Init
  <2> QED BY <2>1 DEF Init, AloneInv
<1>2. TypeInv /\ AloneInv /\ [Next]_vars => AloneInv' BY AloneStep
<1>3. AloneInv => gap \subseteq {"accept_unmarked"} BY DEF AloneInv
<1> QED BY <1>1, <1>2, <1>3, TypeInvHolds, PTL DEF Spec

(* What that means without any window: served one at a time, requests      *)
(* never lose the last active owner, never hand the organisation out a     *)
(* second time, and never leave a disabled account its sessions, however   *)
(* many of them die half way.                                              *)
THEOREM OneAtATimeIsSafe ==
  ASSUME Alone
  PROVE  Spec => [](/\ claims > 0 => CountOwners > 0
                    /\ claims <= 1
                    /\ \A u \in online : account[u].state = "ACTIVE")
<1>1. gap \subseteq {"accept_unmarked"} /\ OwnerRemains /\ ClaimedOnce /\ DisabledIsOut
        => /\ claims > 0 => CountOwners > 0
           /\ claims <= 1
           /\ \A u \in online : account[u].state = "ACTIVE"
  BY DEF OwnerRemains, ClaimedOnce, DisabledIsOut
<1> QED BY <1>1, WindowsTakeTwo, OwnerAlwaysRemains, ClaimedOnlyOnce, DisabledStaysOut, PTL
=============================================================================
