----------------------------- MODULE Organisation -----------------------------
(***************************************************************************)
(* Accounts of the (single) organisation: signup, login, sessions, roles,  *)
(* disabling, removal, transfer of ownership and invitations.              *)
(*                                                                         *)
(* Every request is a chain of single statements on the database with no   *)
(* transaction around them, so requests interleave between any two, and a  *)
(* request may die after any of them.  What a request has read is kept in  *)
(* its record until it writes.  The principal of a request is what the     *)
(* guard read when the request came in.                                    *)
(*                                                                         *)
(* Left out: names, passwords, tokens and time.  A session or an           *)
(* invitation that has expired is one nobody uses any more.                *)
(***************************************************************************)
EXTENDS Naturals, FiniteSets

CONSTANTS
  User,      \* rows of the users table: an id is never used twice
  Machine,   \* the principal of the x-admin-key header: no row of its own
  Email,
  Invite,    \* rows of the invitations table
  Request,   \* requests in progress at once
  Nobody     \* "none", for users, e-mail addresses and invitations

Role == {"OWNER", "ADMIN", "MEMBER"}

Op == {"role", "disable", "enable", "remove", "transfer", "logout_all",
       "signup", "login", "invite", "revoke_invite", "accept"}

(* What a request may have overlooked when it wrote.                       *)
GapKind ==
  {"stale_check",      \* the facts its last-owner or role check read had changed
   "stale_signup",     \* an owner had appeared since signup counted none
   "login_raced",      \* a session was stored although the account was being disabled
   "stale_invite",     \* the invitation it accepts was no longer pending
   "reopened",         \* the invitation it renews was no longer pending
   "accept_overlap",   \* another request was about to mark it accepted
   "accept_unmarked"}  \* the request that used it died before it marked it

ASSUME ConstantAssumption ==
  /\ IsFiniteSet(User)
  /\ Machine \notin User /\ Nobody \notin User \cup {Machine} \cup Email \cup Invite

VARIABLES
  account,  \* the users table
  online,   \* users who have a session row
  invite,   \* the invitations table
  req,      \* requests in progress
  gap,      \* history: what requests overlooked
  claims,   \* history: how many signups claimed the organisation
  joined    \* history: how many accounts an invitation was used for

vars == <<account, online, invite, req, gap, claims, joined>>

AccountRecord == [state : {"unused", "ACTIVE", "DISABLED", "deleted"},
                  role : Role, email : Email \cup {Nobody}]
InviteRecord == [status : {"unused", "PENDING", "ACCEPTED", "REVOKED"},
                 role : Role, email : Email \cup {Nobody}]

(* The next statement of a request, and what it still needs: role is that  *)
(* of the principal until the target is read, then that of the target; new *)
(* is the role asked for.  actor is kept by transfers only.                *)
PC == {"idle", "read", "count", "find", "pending", "revoke", "write", "demote", "mark", "issue"}
RequestRecord ==
  [op : Op, pc : PC, actor : User \cup {Machine, Nobody}, target : User \cup {Nobody},
   role : Role, new : Role, email : Email \cup {Nobody}, inv : Invite \cup {Nobody}]

(* Counters of the history are not bounded by the model: they count what   *)
(* should happen once.                                                     *)
TypeOK ==
  /\ account \in [User -> AccountRecord]
  /\ online \subseteq User
  /\ invite \in [Invite -> InviteRecord]
  /\ req \in [Request -> RequestRecord]
  /\ gap \subseteq GapKind
  /\ claims \in Nat
  /\ joined \in [Invite -> Nat]

Idle == [op |-> "login", pc |-> "idle", actor |-> Nobody, target |-> Nobody,
         role |-> "MEMBER", new |-> "MEMBER", email |-> Nobody, inv |-> Nobody]

NoAccount(state) == [state |-> state, role |-> "MEMBER", email |-> Nobody]

Init ==
  /\ account = [u \in User |-> NoAccount("unused")]
  /\ online = {}
  /\ invite = [i \in Invite |-> [status |-> "unused", role |-> "MEMBER", email |-> Nobody]]
  /\ req = [r \in Request |-> Idle]
  /\ gap = {}
  /\ claims = 0
  /\ joined = [i \in Invite |-> 0]

-----------------------------------------------------------------------------
(* The tables.                                                             *)

Exists(u) == account[u].state \in {"ACTIVE", "DISABLED"}
Has(e) == \E u \in User : Exists(u) /\ account[u].email = e
ActiveOwner(u) == account[u].state = "ACTIVE" /\ account[u].role = "OWNER"
CountOwners == Cardinality({u \in User : ActiveOwner(u)})

-----------------------------------------------------------------------------
(* Faulty variants.                                                        *)

(* The owner count includes disabled accounts.                             *)
SpareOwnerAnyStatus == Cardinality({u \in User : Exists(u) /\ account[u].role = "OWNER"}) > 1

(* Signup counts the first owner as none.                                  *)
ClaimableOffByOne == CountOwners <= 1

(* Disabling an account does not revoke its sessions.                      *)
AfterCheckKeepSessions(op) == IF op = "remove" THEN "revoke" ELSE "write"

(* An accepted invitation is deleted.                                      *)
MarkedDeleted(i) == [invite EXCEPT ![i].status = "deleted"]

(* An accepted invitation is not marked.                                   *)
MarkedUnchanged(i) == invite

-----------------------------------------------------------------------------
(* Permissions.                                                            *)

CanManageUser(actor, target) ==
  actor = "OWNER" \/ (actor = "ADMIN" /\ target \in {"MEMBER", "ADMIN"})

CanAssignRole(actor, current, desired) ==
  actor = "OWNER" \/ (actor = "ADMIN" /\ {current, desired} \subseteq {"MEMBER", "ADMIN"})

CanInviteWithRole(actor, role) == role # "OWNER" /\ actor \in {"OWNER", "ADMIN"}

(* The roles the route of an operation asks for.                           *)
RoleRequired(op) ==
  CASE op = "transfer"   -> {"OWNER"}
    [] op = "logout_all" -> Role
    [] OTHER             -> {"OWNER", "ADMIN"}

(* Another owner would remain: the negation of wouldRemoveLastOwner.       *)
SpareOwner == CountOwners > 1

-----------------------------------------------------------------------------
(* Steps shared by the requests.                                           *)

At(r, op, pc) == req[r].op = op /\ req[r].pc = pc
Goto(r, pc) == req' = [req EXCEPT ![r].pc = pc]
Finish(r) == req' = [req EXCEPT ![r] = Idle]
Start(r, record) == req[r].pc = "idle" /\ req' = [req EXCEPT ![r] = record]

(* A statement fails or the process dies.                                  *)
RequestDies(r) ==
  /\ req[r].pc # "idle"
  /\ gap' = IF At(r, "accept", "mark") THEN gap \cup {"accept_unmarked"} ELSE gap
  /\ Finish(r)
  /\ UNCHANGED <<account, online, invite, claims, joined>>

(* create() of a user: the row, unless the address is taken.               *)
Created(u, e, role) ==
  [account EXCEPT ![u] = [state |-> "ACTIVE", role |-> role, email |-> e]]

(* The guards: a machine key, or a session whose account is not disabled;  *)
(* then the roles the route asks for.                                      *)
Principal == {Machine} \cup {u \in online : account[u].state = "ACTIVE"}
RoleOf(a) == IF a = Machine THEN "OWNER" ELSE account[a].role

-----------------------------------------------------------------------------
(* Managing users: changeRole, setStatus, remove, transferOwnership.       *)

Manage(r) ==
  \E a \in Principal, op \in {"role", "disable", "enable", "remove", "transfer"},
     t \in {u \in User : Exists(u)}, new \in Role :
    /\ RoleOf(a) \in RoleRequired(op)
    /\ op # "role" => new = "MEMBER"
    /\ op = "transfer" => t # a
    /\ Start(r, [Idle EXCEPT !.op = op, !.pc = "read", !.target = t, !.new = new,
                             !.role = RoleOf(a), !.actor = IF op = "transfer" THEN a ELSE Nobody])
    /\ UNCHANGED <<account, online, invite, gap, claims, joined>>

MayOwn(r) == account[req[r].target].state = "ACTIVE"

Permitted(r) ==
  LET q == req[r] IN
  /\ Exists(q.target)
  /\ CASE q.op = "role"     -> CanAssignRole(q.role, account[q.target].role, q.new)
       [] q.op = "transfer" -> MayOwn(r)
       [] OTHER             -> CanManageUser(q.role, account[q.target].role)

(* Takes the organisation an owner, if the target is one.                  *)
Demotes(q) == q.op \in {"disable", "remove"} \/ (q.op = "role" /\ q.new # "OWNER")

AfterCheck(op) == IF op \in {"disable", "remove"} THEN "revoke" ELSE "write"

ReadTarget(r) ==
  LET q == req[r]
      seen == account[q.target].role
  IN
  /\ q.pc = "read"
  /\ IF Permitted(r)
     THEN req' = [req EXCEPT ![r].role = seen,
                    ![r].pc = IF Demotes(q) /\ seen = "OWNER" THEN "count" ELSE AfterCheck(q.op)]
     ELSE Finish(r)
  /\ UNCHANGED <<account, online, invite, gap, claims, joined>>

CheckLastOwner(r) ==
  /\ Demotes(req[r]) /\ req[r].pc = "count"
  /\ IF SpareOwner THEN Goto(r, AfterCheck(req[r].op)) ELSE Finish(r)
  /\ UNCHANGED <<account, online, invite, gap, claims, joined>>

RevokeSessions(r) ==
  /\ req[r].pc = "revoke"
  /\ online' = online \ {req[r].target}
  /\ IF req[r].op = "logout_all" THEN Finish(r) ELSE Goto(r, "write")
  /\ UNCHANGED <<account, invite, gap, claims, joined>>

(* The facts a request checked no longer hold when it writes.              *)
StaleCheck(r) ==
  LET q == req[r] IN
  \/ q.op = "transfer" /\ ~MayOwn(r)
  \/ Demotes(q) /\ (account[q.target].role # q.role \/ (q.role = "OWNER" /\ ~SpareOwner))

Updated(q) ==
  CASE q.op = "role"     -> [account EXCEPT ![q.target].role = q.new]
    [] q.op = "transfer" -> [account EXCEPT ![q.target].role = "OWNER"]
    [] q.op = "disable"  -> [account EXCEPT ![q.target].state = "DISABLED"]
    [] q.op = "enable"   -> [account EXCEPT ![q.target].state = "ACTIVE"]
    [] q.op = "remove"   -> [account EXCEPT ![q.target] = NoAccount("deleted")]

(* The update or delete by id; it throws when the row is gone.  Deleting a *)
(* user deletes the sessions (onDelete: Cascade).                          *)
WriteTarget(r) ==
  LET q == req[r] IN
  /\ q.op \in {"role", "disable", "enable", "remove", "transfer"} /\ q.pc = "write"
  /\ IF Exists(q.target)
     THEN /\ account' = Updated(q)
          /\ online' = IF q.op = "remove" THEN online \ {q.target} ELSE online
          /\ gap' = IF StaleCheck(r) THEN gap \cup {"stale_check"} ELSE gap
          /\ IF q.op = "transfer" THEN Goto(r, "demote") ELSE Finish(r)
     ELSE Finish(r) /\ UNCHANGED <<account, online, gap>>
  /\ UNCHANGED <<invite, claims, joined>>

(* The second write of transferOwnership; a machine has no row to demote.  *)
DemoteActor(r) ==
  LET q == req[r] IN
  /\ q.pc = "demote"
  /\ IF q.actor # Machine /\ Exists(q.actor)
     THEN /\ account' = [account EXCEPT ![q.actor].role = "ADMIN"]
          /\ gap' = IF MayOwn(r) /\ account[q.target].role = "OWNER"
                    THEN gap ELSE gap \cup {"stale_check"}
     ELSE UNCHANGED <<account, gap>>
  /\ Finish(r)
  /\ UNCHANGED <<online, invite, claims, joined>>

-----------------------------------------------------------------------------
(* Sessions.                                                               *)

Claimable == CountOwners = 0

Signup(r) ==
  \E e \in Email :
    /\ Claimable
    /\ Start(r, [Idle EXCEPT !.op = "signup", !.pc = "find", !.email = e])
    /\ UNCHANGED <<account, online, invite, gap, claims, joined>>

SignupFind(r) ==
  /\ At(r, "signup", "find")
  /\ IF Has(req[r].email) THEN Finish(r) ELSE Goto(r, "write")
  /\ UNCHANGED <<account, online, invite, gap, claims, joined>>

SignupCreate(r) ==
  LET e == req[r].email IN
  /\ At(r, "signup", "write")
  /\ IF Has(e)
     THEN Finish(r) /\ UNCHANGED <<account, gap, claims>>
     ELSE \E u \in User :
            /\ account[u].state = "unused"
            /\ account' = Created(u, e, "OWNER")
            /\ gap' = IF Claimable THEN gap ELSE gap \cup {"stale_signup"}
            /\ claims' = claims + 1
            /\ req' = [req EXCEPT ![r] = [Idle EXCEPT !.pc = "issue", !.target = u]]
  /\ UNCHANGED <<online, invite, joined>>

(* login() with the right password; a disabled account is refused.         *)
Login(r) ==
  \E u \in User :
    /\ account[u].state = "ACTIVE"
    /\ Start(r, [Idle EXCEPT !.pc = "issue", !.target = u])
    /\ UNCHANGED <<account, online, invite, gap, claims, joined>>

(* An account whose sessions setStatus has revoked but not yet disabled.   *)
BeingDisabled(u) == \E r \in Request : At(r, "disable", "write") /\ req[r].target = u

(* issue() stores the session; the insert fails when the user is gone.     *)
IssueSession(r) ==
  LET u == req[r].target IN
  /\ At(r, "login", "issue")
  /\ IF Exists(u)
     THEN /\ online' = online \cup {u}
          /\ gap' = IF account[u].state = "DISABLED" \/ BeingDisabled(u)
                    THEN gap \cup {"login_raced"} ELSE gap
     ELSE UNCHANGED <<online, gap>>
  /\ Finish(r)
  /\ UNCHANGED <<account, invite, claims, joined>>

(* The last session row of a user goes: logout(), or validate() and the    *)
(* hourly sweep when it expired.                                           *)
SessionEnds(u) ==
  /\ u \in online
  /\ online' = online \ {u}
  /\ UNCHANGED <<account, invite, req, gap, claims, joined>>

LogoutAll(r) ==
  \E u \in Principal \ {Machine} :
    /\ Start(r, [Idle EXCEPT !.op = "logout_all", !.pc = "revoke", !.target = u])
    /\ UNCHANGED <<account, online, invite, gap, claims, joined>>

-----------------------------------------------------------------------------
(* Invitations.  Previewing one, sending it again and listing them change  *)
(* only mail and expiry, and are left out.                                 *)

CreateInvite(r) ==
  \E a \in Principal, e \in Email, new \in Role :
    /\ RoleOf(a) \in RoleRequired("invite") /\ CanInviteWithRole(RoleOf(a), new)
    /\ Start(r, [Idle EXCEPT !.op = "invite", !.pc = "find", !.email = e, !.new = new])
    /\ UNCHANGED <<account, online, invite, gap, claims, joined>>

InviteFind(r) ==
  /\ At(r, "invite", "find")
  /\ IF Has(req[r].email) THEN Finish(r) ELSE Goto(r, "pending")
  /\ UNCHANGED <<account, online, invite, gap, claims, joined>>

PendingFor(e) == {i \in Invite : invite[i].status = "PENDING" /\ invite[i].email = e}

InvitePending(r) ==
  LET found == PendingFor(req[r].email) IN
  /\ At(r, "invite", "pending")
  /\ \E i \in IF found = {} THEN {Nobody} ELSE found :
       req' = [req EXCEPT ![r].pc = "write", ![r].inv = i]
  /\ UNCHANGED <<account, online, invite, gap, claims, joined>>

(* The pending row found is written again as pending, whatever became of   *)
(* it since; without one a row is added.                                   *)
InviteWrite(r) ==
  LET q == req[r] IN
  /\ At(r, "invite", "write")
  /\ \E i \in IF q.inv = Nobody THEN {j \in Invite : invite[j].status = "unused"} ELSE {q.inv} :
       /\ invite' = [invite EXCEPT ![i] = [status |-> "PENDING", role |-> q.new, email |-> q.email]]
       /\ gap' = IF invite[i].status \in {"unused", "PENDING"} THEN gap ELSE gap \cup {"reopened"}
  /\ Finish(r)
  /\ UNCHANGED <<account, online, claims, joined>>

(* revoke() reads that the row exists, then writes; rows are never deleted.*)
RevokeInvite(r) ==
  \E a \in Principal, i \in Invite :
    /\ RoleOf(a) \in RoleRequired("revoke_invite") /\ invite[i].status # "unused"
    /\ Start(r, [Idle EXCEPT !.op = "revoke_invite", !.pc = "write", !.inv = i])
    /\ UNCHANGED <<account, online, invite, gap, claims, joined>>

RevokeWrite(r) ==
  /\ At(r, "revoke_invite", "write")
  /\ invite' = [invite EXCEPT ![req[r].inv].status = "REVOKED"]
  /\ Finish(r)
  /\ UNCHANGED <<account, online, gap, claims, joined>>

Accept(r) ==
  \E i \in Invite :
    /\ invite[i].status = "PENDING"
    /\ Start(r, [Idle EXCEPT !.op = "accept", !.pc = "find", !.inv = i,
                             !.email = invite[i].email, !.new = invite[i].role])
    /\ UNCHANGED <<account, online, invite, gap, claims, joined>>

AcceptFind(r) ==
  /\ At(r, "accept", "find")
  /\ IF Has(req[r].email) THEN Finish(r) ELSE Goto(r, "write")
  /\ UNCHANGED <<account, online, invite, gap, claims, joined>>

AcceptCreate(r) ==
  LET q == req[r]
      late == IF invite[q.inv].status = "PENDING" THEN {} ELSE {"stale_invite"}
      overlap == IF \E p \in Request : At(p, "accept", "mark") /\ req[p].inv = q.inv
                 THEN {"accept_overlap"} ELSE {}
  IN
  /\ At(r, "accept", "write")
  /\ IF Has(q.email)
     THEN Finish(r) /\ UNCHANGED <<account, gap, joined>>
     ELSE \E u \in User :
            /\ account[u].state = "unused"
            /\ account' = Created(u, q.email, q.new)
            /\ gap' = gap \cup late \cup overlap
            /\ joined' = [joined EXCEPT ![q.inv] = @ + 1]
            /\ Goto(r, "mark")
  /\ UNCHANGED <<online, invite, claims>>

Marked(i) == [invite EXCEPT ![i].status = "ACCEPTED"]

AcceptMark(r) ==
  /\ At(r, "accept", "mark")
  /\ invite' = Marked(req[r].inv)
  /\ Finish(r)
  /\ UNCHANGED <<account, online, gap, claims, joined>>

-----------------------------------------------------------------------------
Next ==
  \/ \E r \in Request :
       \/ Manage(r) \/ ReadTarget(r) \/ CheckLastOwner(r) \/ RevokeSessions(r)
       \/ WriteTarget(r) \/ DemoteActor(r)
       \/ Signup(r) \/ SignupFind(r) \/ SignupCreate(r)
       \/ Login(r) \/ IssueSession(r) \/ LogoutAll(r)
       \/ CreateInvite(r) \/ InviteFind(r) \/ InvitePending(r) \/ InviteWrite(r)
       \/ RevokeInvite(r) \/ RevokeWrite(r)
       \/ Accept(r) \/ AcceptFind(r) \/ AcceptCreate(r) \/ AcceptMark(r)
       \/ RequestDies(r)
  \/ \E u \in User : SessionEnds(u)

Spec == Init /\ [][Next]_vars

-----------------------------------------------------------------------------
(* Properties.                                                             *)

(* Once claimed, the organisation keeps an owner who can log in, through   *)
(* any sequence of requests and however many of them die half way, as long *)
(* as no request writes on a check that has become false meanwhile         *)
(* (changeRole, setStatus, remove, transferOwnership).                     *)
OwnerRemains == claims > 0 /\ "stale_check" \notin gap => CountOwners > 0

(* Signup closes for good behind the first owner: it never hands the       *)
(* organisation out again, except to two simultaneous first signups, or    *)
(* after a stale check lost the last owner.                                *)
ClaimedOnce == gap \cap {"stale_check", "stale_signup"} = {} => claims <= 1

(* An invitation admits one account, whoever resends, revokes, removes or  *)
(* accepts at the same time; the exceptions are requests that wrote on a   *)
(* status that had changed and one that died before it marked the row.     *)
SpentOnce ==
  gap \cap {"stale_invite", "reopened", "accept_overlap", "accept_unmarked"} = {}
    => \A i \in Invite : joined[i] <= 1

(* A disabled account has no session to come back with when it is enabled  *)
(* again, and a removed one has none at all, except that of a login that   *)
(* overlapped with the disabling.                                          *)
DisabledIsOut ==
  \A u \in online :
    Exists(u) /\ ("login_raced" \notin gap => account[u].state = "ACTIVE")
=============================================================================
