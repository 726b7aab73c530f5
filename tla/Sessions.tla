------------------------------ MODULE Sessions ------------------------------
(***************************************************************************)
(* The sessions of ONE account: logins that copy the account's roles and    *)
(* grants into a session, and changes to the account that must end the      *)
(* sessions holding an older copy.  The account is rows of Postgres, the    *)
(* sessions are keys of Redis, and no transaction spans the two: a login is *)
(* five steps, a change is a write and the three Redis commands of          *)
(* invalidateAllForUser, and all of them interleave.                        *)
(*                                                                          *)
(* The session a login opens bears the login's name.  A grant is named by   *)
(* its role.  The idle and absolute time windows are not counted: a session *)
(* may expire at any moment.                                                *)
(***************************************************************************)
EXTENDS Integers, FiniteSets

CONSTANTS
  Logins,     \* login attempts on the account
  Changes,    \* requests that change the account
  Roles,
  Passwords

VARIABLES
  account,     \* the user row, its roles and its grants
  live,        \* idn:session:* keys of the account
  index,       \* idn:user-sessions:<account>
  login,       \* how far a login has come
  presented,   \* the password a login presents
  seen,        \* the user row a login read
  fetched,     \* which of roles and grants a login has read
  snapshot,    \* the roles and grants it read
  change,      \* how far a change has come
  members,     \* the session ids a change's SMEMBERS returned
  overlapped   \* history: logins that ran into a change or an invalidation

redis   == <<live, index>>
reads   == <<presented, seen, fetched, snapshot>>
vars    == <<account, redis, login, reads, change, members, overlapped>>

Stati        == {"active", "disabled", "must_reset"}
UserRow      == [password : Passwords, outdated : BOOLEAN, status : Stati]
Authority    == [roles : SUBSET Roles, grants : SUBSET Roles]
Account      == [password : Passwords, outdated : BOOLEAN, status : Stati,
                 roles : SUBSET Roles, grants : SUBSET Roles]
InFlight     == {"read", "rehash", "collect"}
LoginStages  == {"new", "refused", "issued"} \cup InFlight
Pending      == {"written", "listed"}
ChangeStages == {"new", "refused", "crashed", "checked", "deleted", "done"} \cup Pending

(* With the foreign key: a grant's role is held. *)
TypeOK ==
  /\ account \in Account /\ account.grants \subseteq account.roles
  /\ live \in SUBSET Logins
  /\ index \in SUBSET Logins
  /\ login \in [Logins -> LoginStages]
  /\ presented \in [Logins -> Passwords]
  /\ seen \in [Logins -> UserRow]
  /\ fetched \in [Logins -> SUBSET {"roles", "grants"}]
  /\ snapshot \in [Logins -> Authority]
  /\ change \in [Changes -> ChangeStages]
  /\ members \in [Changes -> SUBSET Logins]
  /\ overlapped \in SUBSET Logins

UserRowOf(a)   == [password |-> a.password, outdated |-> a.outdated, status |-> a.status]
AuthorityOf(a) == [roles |-> a.roles, grants |-> a.grants]

Init ==
  /\ account \in {a \in Account : a.grants \subseteq a.roles}
  /\ live = {} /\ index = {}
  /\ login = [l \in Logins |-> "new"]
  /\ presented = [l \in Logins |-> account.password]
  /\ seen = [l \in Logins |-> UserRowOf(account)]
  /\ fetched = [l \in Logins |-> {}]
  /\ snapshot = [l \in Logins |-> AuthorityOf(account)]
  /\ change = [c \in Changes |-> "new"]
  /\ members = [c \in Changes |-> {}]
  /\ overlapped = {}

-----------------------------------------------------------------------------
(* AuthService.login *)

(* The user row is read once, before the slow password verification. *)
ReadUser(l) ==
  /\ login[l] = "new"
  /\ login' = [login EXCEPT ![l] = "read"]
  /\ seen' = [seen EXCEPT ![l] = UserRowOf(account)]
  /\ \E p \in Passwords : presented' = [presented EXCEPT ![l] = p]
  /\ UNCHANGED <<account, redis, fetched, snapshot, change, members, overlapped>>

(* Mutation: a disabled account is not turned away. *)
AcceptedByPassword(l) == presented[l] = seen[l].password /\ seen[l].status # "must_reset"

Accepted(l) == presented[l] = seen[l].password /\ seen[l].status = "active"

Verify(l) ==
  /\ login[l] = "read"
  /\ Accepted(l)
  /\ login' = [login EXCEPT ![l] = IF seen[l].outdated THEN "rehash" ELSE "collect"]
  /\ UNCHANGED <<account, redis, reads, change, members, overlapped>>

(* A wrong password, a disabled or must_reset account, or a lockout. *)
RefuseLogin(l) ==
  /\ login[l] = "read"
  /\ login' = [login EXCEPT ![l] = "refused"]
  /\ UNCHANGED <<account, redis, reads, change, members, overlapped>>

(* The hash is upgraded; password and status are written back as they were
   read when the login began. *)
Rehash(l) ==
  /\ login[l] = "rehash"
  /\ account' = [account EXCEPT !.password = presented[l], !.outdated = FALSE,
                                !.status = seen[l].status]
  /\ login' = [login EXCEPT ![l] = "collect"]
  /\ UNCHANGED <<redis, reads, change, members, overlapped>>

ReadRoles(l) ==
  /\ login[l] = "collect" /\ "roles" \notin fetched[l]
  /\ fetched' = [fetched EXCEPT ![l] = @ \cup {"roles"}]
  /\ snapshot' = [snapshot EXCEPT ![l].roles = account.roles]
  /\ UNCHANGED <<account, redis, login, presented, seen, change, members, overlapped>>

ReadGrants(l) ==
  /\ login[l] = "collect" /\ "grants" \notin fetched[l]
  /\ fetched' = [fetched EXCEPT ![l] = @ \cup {"grants"}]
  /\ snapshot' = [snapshot EXCEPT ![l].grants = account.grants]
  /\ UNCHANGED <<account, redis, login, presented, seen, change, members, overlapped>>

(* SET and SADD in one MULTI. *)
Issue(l) ==
  /\ login[l] = "collect" /\ fetched[l] = {"roles", "grants"}
  /\ live' = live \cup {l}
  /\ index' = index \cup {l}
  /\ login' = [login EXCEPT ![l] = "issued"]
  /\ overlapped' = IF \E c \in Changes : change[c] \in {"listed", "deleted"}
                   THEN overlapped \cup {l} ELSE overlapped
  /\ UNCHANGED <<account, reads, change, members>>

(* Logout's DEL, or an expiry. *)
EndSession(l) ==
  /\ l \in live
  /\ live' = live \ {l}
  /\ UNCHANGED <<account, index, login, reads, change, members, overlapped>>

(* Logout's SREM comes after its DEL; an expired id stays in the index. *)
ForgetSession(l) ==
  /\ l \in index \ live
  /\ index' = index \ {l}
  /\ UNCHANGED <<account, live, login, reads, change, members, overlapped>>

-----------------------------------------------------------------------------
(* The changes.  Written names the effect on the rows; every change then
   ends the account's sessions. *)

(* A login under way when the rows change has overlapped the change. *)
Write(c, stage, row) ==
  /\ change[c] = stage
  /\ account' = row
  /\ change' = [change EXCEPT ![c] = "written"]
  /\ overlapped' = overlapped \cup {l \in Logins : login[l] \in InFlight}
  /\ UNCHANGED <<redis, login, reads, members>>

(* All role rows are deleted, which cascades to every grant, and the new
   ones inserted. *)
SetRoles(c) ==
  \E R \in SUBSET Roles :
    Write(c, "new", [account EXCEPT !.roles = R, !.grants = {}])

AddGrant(c) ==
  \E g \in account.roles : Write(c, "new", [account EXCEPT !.grants = @ \cup {g}])

RemoveGrant(c) ==
  \E g \in account.grants : Write(c, "new", [account EXCEPT !.grants = @ \ {g}])

Disable(c) == Write(c, "new", [account EXCEPT !.status = "disabled"])

(* Mutation: an administrator's password reset leaves the sessions alone. *)
SetPasswordQuietly(c) ==
  /\ change[c] = "new"
  /\ \E p \in Passwords : account' = [account EXCEPT !.password = p, !.outdated = FALSE,
                                                     !.status = "active"]
  /\ change' = [change EXCEPT ![c] = "done"]
  /\ UNCHANGED <<redis, login, reads, members, overlapped>>

(* adminSetPassword and a redeemed reset token. *)
SetPassword(c) ==
  \E p \in Passwords :
    Write(c, "new", [account EXCEPT !.password = p, !.outdated = FALSE, !.status = "active"])

(* changePassword verifies the current password, then writes: what it is
   given decides between this and RefuseChange. *)
CheckPassword(c) ==
  /\ change[c] = "new"
  /\ change' = [change EXCEPT ![c] = "checked"]
  /\ UNCHANGED <<account, redis, login, reads, members, overlapped>>

ChangePassword(c) ==
  \E p \in Passwords :
    Write(c, "checked", [account EXCEPT !.password = p, !.outdated = FALSE, !.status = "active"])

(* Enabling an account ends no session: a disabled account has none. *)
Enable(c) ==
  /\ change[c] = "new"
  /\ account' = [account EXCEPT !.status = "active"]
  /\ change' = [change EXCEPT ![c] = "done"]
  /\ UNCHANGED <<redis, login, reads, members, overlapped>>

(* A wrong current password, a grant that is not held, a role that is not. *)
RefuseChange(c) ==
  /\ change[c] \in {"new", "checked"}
  /\ change' = [change EXCEPT ![c] = "refused"]
  /\ UNCHANGED <<account, redis, login, reads, members, overlapped>>

-----------------------------------------------------------------------------
(* SessionManager.invalidateAllForUser: SMEMBERS, DEL of the keys, DEL of
   the index. *)

(* Mutation: the index is dropped before the keys it names. *)
DeleteIndexFirst(c) ==
  /\ change[c] = "written"
  /\ members' = [members EXCEPT ![c] = {}]
  /\ index' = {}
  /\ change' = [change EXCEPT ![c] = "listed"]
  /\ UNCHANGED <<account, live, login, reads, overlapped>>

ListMembers(c) ==
  /\ change[c] = "written"
  /\ members' = [members EXCEPT ![c] = index]
  /\ change' = [change EXCEPT ![c] = "listed"]
  /\ UNCHANGED <<account, redis, login, reads, overlapped>>

DeleteKeys(c) ==
  /\ change[c] = "listed"
  /\ live' = live \ members[c]
  /\ change' = [change EXCEPT ![c] = "deleted"]
  /\ UNCHANGED <<account, index, login, reads, members, overlapped>>

DeleteIndex(c) ==
  /\ change[c] = "deleted"
  /\ index' = {}
  /\ change' = [change EXCEPT ![c] = "done"]
  /\ UNCHANGED <<account, live, login, reads, members, overlapped>>

(* The process dies, or Redis fails, between the write and the last DEL. *)
CrashChange(c) ==
  /\ change[c] \in Pending \cup {"deleted"}
  /\ change' = [change EXCEPT ![c] = "crashed"]
  /\ UNCHANGED <<account, redis, login, reads, members, overlapped>>
-----------------------------------------------------------------------------
LoginStep(l) ==
  \/ ReadUser(l) \/ Verify(l) \/ RefuseLogin(l) \/ Rehash(l)
  \/ ReadRoles(l) \/ ReadGrants(l) \/ Issue(l)
  \/ EndSession(l) \/ ForgetSession(l)

ChangeStep(c) ==
  \/ SetRoles(c) \/ AddGrant(c) \/ RemoveGrant(c) \/ Disable(c) \/ Enable(c)
  \/ SetPassword(c) \/ CheckPassword(c) \/ ChangePassword(c) \/ RefuseChange(c)
  \/ ListMembers(c) \/ DeleteKeys(c) \/ DeleteIndex(c) \/ CrashChange(c)

Next == (\E l \in Logins : LoginStep(l)) \/ (\E c \in Changes : ChangeStep(c))

Spec == Init /\ [][Next]_vars
-----------------------------------------------------------------------------
(* Properties that hold *)

Crashed == \E c \in Changes : change[c] = "crashed"

(* Between a change's write and the deletion of the keys, old sessions are
   expected. *)
Settled == \A c \in Changes : change[c] \notin Pending

(* Sessions with an outdated copy of the account's authority come only from
   the races and the crash: when no change is half done, a session whose
   login met no change and no invalidation belongs to an active account and
   holds exactly its current roles and grants (the session-invalidation rule
   of UsersService and AuthService). *)
SettledSessionsCurrent ==
  Settled /\ ~ Crashed =>
    \A l \in live \ overlapped :
      account.status = "active" /\ snapshot[l] = AuthorityOf(account)

(* The same for passwords: unless a login overlapped a change, every session
   was opened with the password the account has now (adminSetPassword,
   changePassword, confirmReset). *)
PasswordChangeEvicts ==
  Settled /\ ~ Crashed /\ overlapped = {} =>
    \A l \in live : presented[l] = account.password

(* Only a session issued while an invalidation is between its SMEMBERS and
   its last DEL can be missing from the index that the next invalidation
   goes by (issue's MULTI, logout's DEL before SREM). *)
OrphansOnlyFromRaces == live \ index \subseteq overlapped

-----------------------------------------------------------------------------
(* What the documents say and the code does not do *)

(* No session outlives a change of the authority it was issued with, once
   the change is complete (ADR 0011). *)
NoStalePrivilegeSessions ==
  Settled /\ ~ Crashed => \A l \in live : snapshot[l] = AuthorityOf(account)
=============================================================================
