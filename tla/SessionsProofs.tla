--------------------------- MODULE SessionsProofs ---------------------------
(***************************************************************************)
(* Proofs about Sessions, for any number of logins, changes, roles and      *)
(* passwords, and about RateLimits, for any policy and number of hits.      *)
(***************************************************************************)
EXTENDS Sessions, RateLimits, FiniteSetTheorems, TLAPS

LEMMA InitType == Init => TypeOK
  BY DEF Init, TypeOK, Account, UserRow, UserRowOf, Authority, AuthorityOf,
         LoginStages, ChangeStages

(* What Write does to the types, for a row of the right type. *)
LEMMA WriteType ==
  ASSUME TypeOK, NEW c \in Changes, NEW stage, NEW row \in Account,
         row.grants \subseteq row.roles, Write(c, stage, row)
  PROVE  TypeOK'
  BY DEF TypeOK, Write, redis, reads, ChangeStages, Pending

LEMMA LoginType ==
  ASSUME TypeOK, NEW l \in Logins, LoginStep(l)
  PROVE  TypeOK'
  <1> USE DEF TypeOK, redis, reads, LoginStages, InFlight
  <1>1. CASE ReadUser(l)
    BY <1>1 DEF ReadUser, UserRowOf, UserRow, Account
  <1>2. CASE Verify(l) \/ RefuseLogin(l)
    BY <1>2 DEF Verify, RefuseLogin
  <1>3. CASE Rehash(l)
    BY <1>3 DEF Rehash, UserRow, Account
  <1>4. CASE ReadRoles(l) \/ ReadGrants(l)
    <2>1. account.roles \in SUBSET Roles /\ account.grants \in SUBSET Roles
      BY DEF Account
    <2>2. /\ [snapshot[l] EXCEPT !.roles = account.roles] \in Authority
          /\ [snapshot[l] EXCEPT !.grants = account.grants] \in Authority
      <3>1. snapshot[l] \in [roles : SUBSET Roles, grants : SUBSET Roles]
        BY DEF Authority
      <3> QED
        BY <2>1, <3>1 DEF Authority
    <2>4. snapshot' \in [Logins -> Authority]
      BY <1>4, <2>2 DEF ReadRoles, ReadGrants
    <2>3. fetched' \in [Logins -> SUBSET {"roles", "grants"}]
      BY <1>4 DEF ReadRoles, ReadGrants
    <2> QED
      BY <1>4, <2>3, <2>4 DEF ReadRoles, ReadGrants
  <1>5. CASE Issue(l) \/ EndSession(l) \/ ForgetSession(l)
    BY <1>5 DEF Issue, EndSession, ForgetSession
  <1> QED
    BY <1>1, <1>2, <1>3, <1>4, <1>5 DEF LoginStep

LEMMA ChangeType ==
  ASSUME TypeOK, NEW c \in Changes, ChangeStep(c)
  PROVE  TypeOK'
  <1>1. ASSUME SetRoles(c) \/ AddGrant(c) \/ RemoveGrant(c) \/ Disable(c)
               \/ SetPassword(c) \/ ChangePassword(c)
        PROVE  TypeOK'
    <2>1. account \in Account /\ account.grants \subseteq account.roles
      BY DEF TypeOK
    <2>2. CASE SetRoles(c) \/ AddGrant(c) \/ RemoveGrant(c)
      BY <2>1, <2>2, WriteType DEF SetRoles, AddGrant, RemoveGrant, Account
    <2>3. CASE Disable(c) \/ SetPassword(c) \/ ChangePassword(c)
      BY <2>1, <2>3, WriteType DEF Disable, SetPassword, ChangePassword, Account, Stati
    <2> QED
      BY <1>1, <2>2, <2>3
  <1>2. CASE Enable(c) \/ CheckPassword(c) \/ RefuseChange(c)
    BY <1>2 DEF Enable, CheckPassword, RefuseChange, TypeOK, Account, Stati,
                redis, reads, ChangeStages
  <1>3. CASE ListMembers(c) \/ DeleteKeys(c) \/ DeleteIndex(c) \/ CrashChange(c)
    BY <1>3 DEF ListMembers, DeleteKeys, DeleteIndex, CrashChange, TypeOK,
                redis, reads, ChangeStages, Pending
  <1> QED
    BY <1>1, <1>2, <1>3 DEF ChangeStep

(* Every step keeps every variable in its type, and no grant outlives its
   role. *)
LEMMA NextType == TypeOK /\ [Next]_vars => TypeOK'
  <1> SUFFICES ASSUME TypeOK, [Next]_vars PROVE TypeOK'
    OBVIOUS
  <1>1. CASE UNCHANGED vars
    BY <1>1 DEF vars, redis, reads, TypeOK
  <1> QED
    BY <1>1, LoginType, ChangeType DEF Next

(* Every variable keeps its type, in every behaviour. *)
THEOREM TypeCorrect == Spec => []TypeOK
  BY InitType, NextType, PTL DEF Spec
-----------------------------------------------------------------------------
(* The inductive invariant. *)

(* A login reads roles and grants after its verification, and a session is
   its login's last step. *)
InOrder ==
  /\ \A l \in Logins : login[l] \in {"new", "read", "rehash"} => fetched[l] = {}
  /\ \A l \in Logins : login[l] \in {"rehash", "collect"} => Accepted(l)
  /\ \A l \in live : login[l] = "issued"

(* What a login that met no change has read is what the account still is. *)
ReadsFresh ==
  \A l \in Logins \ overlapped : login[l] \in InFlight =>
    /\ seen[l].status = "active" => account.status = "active"
    /\ "roles" \in fetched[l] => snapshot[l].roles = account.roles
    /\ "grants" \in fetched[l] => snapshot[l].grants = account.grants

(* An invalidation has listed every session it must end; after its DEL only
   sessions that raced it are left. *)
Listed ==
  /\ \A c \in Changes : change[c] = "listed" => live \ overlapped \subseteq members[c]
  /\ \A c \in Changes : change[c] = "deleted" => live \subseteq overlapped

(* The password a login read, while none met a change. *)
PasswordsFresh ==
  overlapped = {} => \A l \in Logins : login[l] \in InFlight =>
    seen[l].password = account.password

SessionsInv ==
  /\ TypeOK
  /\ InOrder
  /\ ReadsFresh
  /\ Listed
  /\ PasswordsFresh
  /\ OrphansOnlyFromRaces
  /\ SettledSessionsCurrent
  /\ PasswordChangeEvicts

LEMMA InitInv == Init => SessionsInv
  BY InitType
  DEF Init, SessionsInv, InOrder, ReadsFresh, Listed, PasswordsFresh, InFlight,
      OrphansOnlyFromRaces, SettledSessionsCurrent, PasswordChangeEvicts

(* A change of the rows: every login under way is overlapped, and the change
   is pending until its DEL. *)
LEMMA WriteInv ==
  ASSUME SessionsInv, TypeOK', NEW c \in Changes, NEW stage \in {"new", "checked"}, NEW row,
         Write(c, stage, row)
  PROVE  SessionsInv'
  <1> USE DEF SessionsInv, TypeOK, Write, redis, reads
  <1>1. change'[c] \in Pending /\ ~ Settled'
    BY DEF Settled, Pending
  <1>2. overlapped \subseteq overlapped' /\ \A l \in Logins \ overlapped' : login'[l] \notin InFlight
    OBVIOUS
  <1>3. InOrder'
    BY DEF InOrder, Accepted
  <1>4. ReadsFresh' /\ PasswordsFresh'
    BY <1>2 DEF ReadsFresh, PasswordsFresh
  <1>5. Listed'
    BY <1>2 DEF Listed
  <1> QED
    BY <1>1, <1>2, <1>3, <1>4, <1>5
    DEF OrphansOnlyFromRaces, SettledSessionsCurrent, PasswordChangeEvicts

(* The Redis commands of an invalidation, and its crash. *)
LEMMA InvalidationInv ==
  ASSUME SessionsInv, TypeOK', NEW c \in Changes,
         ListMembers(c) \/ DeleteKeys(c) \/ DeleteIndex(c) \/ CrashChange(c)
  PROVE  SessionsInv'
  <1> USE DEF SessionsInv, TypeOK, redis, reads, Pending
  <1>1. CASE ListMembers(c)
    <2>1. InOrder' /\ ReadsFresh' /\ PasswordsFresh' /\ OrphansOnlyFromRaces'
      BY <1>1 DEF ListMembers, InOrder, Accepted, ReadsFresh, PasswordsFresh,
                  OrphansOnlyFromRaces
    <2>2. Listed'
      BY <1>1 DEF ListMembers, Listed, OrphansOnlyFromRaces
    <2>3. change'[c] \in Pending /\ ~ Settled'
      BY <1>1 DEF ListMembers, Settled
    <2> QED
      BY <2>1, <2>2, <2>3 DEF SettledSessionsCurrent, PasswordChangeEvicts
  <1>2. CASE DeleteKeys(c)
    <2>1. InOrder' /\ ReadsFresh' /\ PasswordsFresh' /\ OrphansOnlyFromRaces'
      BY <1>2 DEF DeleteKeys, InOrder, Accepted, ReadsFresh, PasswordsFresh,
                  OrphansOnlyFromRaces
    <2>2. live' \subseteq overlapped'
      BY <1>2 DEF DeleteKeys, Listed
    <2>3. Listed'
      BY <1>2, <2>2 DEF DeleteKeys, Listed
    <2> QED
      BY <2>1, <2>2, <2>3 DEF SettledSessionsCurrent, PasswordChangeEvicts
  <1>3. CASE DeleteIndex(c)
    <2>1. InOrder' /\ ReadsFresh' /\ PasswordsFresh' /\ Listed'
      BY <1>3 DEF DeleteIndex, InOrder, Accepted, ReadsFresh, PasswordsFresh, Listed
    <2>2. live' \subseteq overlapped'
      BY <1>3 DEF DeleteIndex, Listed
    <2> QED
      BY <2>1, <2>2 DEF OrphansOnlyFromRaces, SettledSessionsCurrent, PasswordChangeEvicts
  <1>4. CASE CrashChange(c)
    <2>1. InOrder' /\ ReadsFresh' /\ PasswordsFresh' /\ Listed' /\ OrphansOnlyFromRaces'
      BY <1>4 DEF CrashChange, InOrder, Accepted, ReadsFresh, PasswordsFresh, Listed,
                  OrphansOnlyFromRaces
    <2>2. Crashed'
      BY <1>4 DEF CrashChange, Crashed
    <2> QED
      BY <2>1, <2>2 DEF SettledSessionsCurrent, PasswordChangeEvicts
  <1> QED
    BY <1>1, <1>2, <1>3, <1>4

(* A login that wrote nothing and opened nothing. *)
LEMMA ReadInv ==
  ASSUME SessionsInv, TypeOK', NEW l \in Logins,
         \/ ReadUser(l) \/ Verify(l) \/ RefuseLogin(l) \/ ReadRoles(l) \/ ReadGrants(l)
  PROVE  SessionsInv'
  <1> USE DEF SessionsInv, TypeOK, redis, reads, InFlight
  <1>1. InOrder'
    <2>1. CASE ReadUser(l)
      BY <2>1 DEF ReadUser, InOrder, Accepted
    <2>2. CASE Verify(l) \/ RefuseLogin(l)
      BY <2>2 DEF Verify, RefuseLogin, InOrder, Accepted
    <2>3. CASE ReadRoles(l) \/ ReadGrants(l)
      BY <2>3 DEF ReadRoles, ReadGrants, InOrder, Accepted
    <2> QED
      BY <2>1, <2>2, <2>3
  <1>2. ReadsFresh' /\ PasswordsFresh'
    <2>1. CASE ReadUser(l)
      BY <2>1 DEF ReadUser, InOrder, ReadsFresh, PasswordsFresh, UserRowOf
    <2>2. CASE Verify(l) \/ RefuseLogin(l)
      BY <2>2 DEF Verify, RefuseLogin, ReadsFresh, PasswordsFresh
    <2>3. CASE ReadRoles(l)
      BY <2>3 DEF ReadRoles, ReadsFresh, PasswordsFresh, Authority
    <2>4. CASE ReadGrants(l)
      BY <2>4 DEF ReadGrants, ReadsFresh, PasswordsFresh, Authority
    <2> QED
      BY <2>1, <2>2, <2>3, <2>4
  <1>3. Listed' /\ OrphansOnlyFromRaces'
    BY DEF ReadUser, Verify, RefuseLogin, ReadRoles, ReadGrants, Listed, OrphansOnlyFromRaces
  <1>4. \A k \in live : snapshot'[k] = snapshot[k] /\ presented'[k] = presented[k]
    BY DEF ReadUser, Verify, RefuseLogin, ReadRoles, ReadGrants, InOrder
  <1>5. SettledSessionsCurrent' /\ PasswordChangeEvicts'
    BY <1>4
    DEF ReadUser, Verify, RefuseLogin, ReadRoles, ReadGrants, Settled, Crashed,
        SettledSessionsCurrent, PasswordChangeEvicts
  <1> QED
    BY <1>1, <1>2, <1>3, <1>5

(* The upgrade of the hash writes back what the login read: when nothing has
   changed since, that is what is there. *)
LEMMA RehashInv ==
  ASSUME SessionsInv, TypeOK', NEW l \in Logins, Rehash(l)
  PROVE  SessionsInv'
  <1> USE DEF SessionsInv, TypeOK, Rehash, redis, reads
  <1>1. /\ account'.status = "active"
        /\ account'.roles = account.roles /\ account'.grants = account.grants
        /\ AuthorityOf(account') = AuthorityOf(account)
    BY DEF InOrder, Accepted, Account, AuthorityOf
  <1>2. overlapped = {} => account'.password = account.password
    BY DEF InOrder, Accepted, PasswordsFresh, InFlight, Account
  <1>3. InOrder' /\ Listed' /\ OrphansOnlyFromRaces'
    BY DEF InOrder, Accepted, Listed, OrphansOnlyFromRaces
  <1>4. ReadsFresh' /\ PasswordsFresh'
    BY <1>1, <1>2 DEF InOrder, ReadsFresh, PasswordsFresh, InFlight
  <1>5. SettledSessionsCurrent' /\ PasswordChangeEvicts'
    BY <1>1, <1>2 DEF Settled, Crashed, SettledSessionsCurrent, PasswordChangeEvicts
  <1> QED
    BY <1>3, <1>4, <1>5

(* A session is opened as its login read it; one opened during an
   invalidation has overlapped it. *)
LEMMA IssueInv ==
  ASSUME SessionsInv, TypeOK', NEW l \in Logins, Issue(l)
  PROVE  SessionsInv'
  <1> USE DEF SessionsInv, TypeOK, Issue, redis, reads
  <1>1. l \notin overlapped => account.status = "active" /\ snapshot[l] = AuthorityOf(account)
    BY DEF InOrder, Accepted, ReadsFresh, InFlight, Authority, AuthorityOf
  <1>2. overlapped = {} => presented[l] = account.password
    BY DEF InOrder, Accepted, PasswordsFresh, InFlight
  <1>3. overlapped \subseteq overlapped'
    OBVIOUS
  <1>4. InOrder' /\ ReadsFresh' /\ PasswordsFresh'
    BY <1>3 DEF InOrder, Accepted, ReadsFresh, PasswordsFresh, InFlight
  <1>5. Listed' /\ OrphansOnlyFromRaces'
    BY <1>3 DEF Listed, OrphansOnlyFromRaces
  <1>6. SettledSessionsCurrent' /\ PasswordChangeEvicts'
    BY <1>1, <1>2, <1>3 DEF Settled, Crashed, SettledSessionsCurrent, PasswordChangeEvicts
  <1> QED
    BY <1>4, <1>5, <1>6

(* The ends of a session, and the requests that end none. *)
LEMMA OtherInv ==
  ASSUME SessionsInv, TypeOK',
         \/ \E l \in Logins : EndSession(l) \/ ForgetSession(l)
         \/ \E c \in Changes : Enable(c) \/ CheckPassword(c) \/ RefuseChange(c)
  PROVE  SessionsInv'
  <1> USE DEF SessionsInv, TypeOK, redis, reads
  <1>1. ASSUME NEW l \in Logins, EndSession(l) \/ ForgetSession(l)
        PROVE  SessionsInv'
    BY <1>1
    DEF EndSession, ForgetSession, InOrder, Accepted, ReadsFresh, Listed, PasswordsFresh,
        OrphansOnlyFromRaces, SettledSessionsCurrent, PasswordChangeEvicts, Settled, Crashed
  <1>2. ASSUME NEW c \in Changes, Enable(c) \/ CheckPassword(c) \/ RefuseChange(c)
        PROVE  SessionsInv'
    <2> USE DEF Enable, CheckPassword, RefuseChange
    <2>1. /\ account'.status = "active" \/ account'.status = account.status
          /\ account'.password = account.password
          /\ account'.roles = account.roles /\ account'.grants = account.grants
          /\ AuthorityOf(account') = AuthorityOf(account)
      BY <1>2 DEF Account, AuthorityOf
    <2>2. (Settled' => Settled) /\ (Crashed => Crashed')
      BY <1>2 DEF Settled, Crashed, Pending
    <2>3. InOrder' /\ ReadsFresh' /\ PasswordsFresh'
      BY <1>2, <2>1 DEF InOrder, Accepted, ReadsFresh, PasswordsFresh
    <2>4. Listed' /\ OrphansOnlyFromRaces'
      BY <1>2 DEF Listed, OrphansOnlyFromRaces
    <2>5. SettledSessionsCurrent' /\ PasswordChangeEvicts'
      BY <1>2, <2>1, <2>2 DEF SettledSessionsCurrent, PasswordChangeEvicts
    <2> QED
      BY <2>3, <2>4, <2>5
  <1> QED
    BY <1>1, <1>2

LEMMA NextInv == SessionsInv /\ [Next]_vars => SessionsInv'
  <1> SUFFICES ASSUME SessionsInv, [Next]_vars PROVE SessionsInv'
    OBVIOUS
  <1>1. TypeOK'
    BY NextType DEF SessionsInv
  <1>2. ASSUME NEW l \in Logins, LoginStep(l) PROVE SessionsInv'
    BY <1>1, <1>2, ReadInv, RehashInv, IssueInv, OtherInv DEF LoginStep
  <1>3. ASSUME NEW c \in Changes,
               SetRoles(c) \/ AddGrant(c) \/ RemoveGrant(c) \/ Disable(c)
               \/ SetPassword(c) \/ ChangePassword(c)
        PROVE  SessionsInv'
    BY <1>1, <1>3, WriteInv
    DEF SetRoles, AddGrant, RemoveGrant, Disable, SetPassword, ChangePassword
  <1>4. ASSUME NEW c \in Changes, ChangeStep(c) PROVE SessionsInv'
    BY <1>1, <1>3, <1>4, InvalidationInv, OtherInv DEF ChangeStep
  <1>5. CASE UNCHANGED vars
    BY <1>5
    DEF vars, redis, reads, SessionsInv, TypeOK, InOrder, Accepted, ReadsFresh,
        Listed, PasswordsFresh, OrphansOnlyFromRaces, SettledSessionsCurrent,
        PasswordChangeEvicts, Settled, Crashed
  <1> QED
    BY <1>2, <1>4, <1>5 DEF Next

(* The inductive invariant holds in every behaviour. *)
THEOREM Invariance == Spec => []SessionsInv
  BY InitInv, NextInv, PTL DEF Spec
-----------------------------------------------------------------------------
(* When no change is half done, the sessions whose login met no change carry
   the account's current authority (login, invalidateAllForUser). *)
THEOREM SettledSessionsCurrentAlways == Spec => []SettledSessionsCurrent
  <1>1. SessionsInv => SettledSessionsCurrent
    BY DEF SessionsInv
  <1> QED
    BY <1>1, Invariance, PTL

(* Sessions opened with an earlier password do not survive its change. *)
THEOREM PasswordChangeEvictsAlways == Spec => []PasswordChangeEvicts
  <1>1. SessionsInv => PasswordChangeEvicts
    BY DEF SessionsInv
  <1> QED
    BY <1>1, Invariance, PTL

(* A live session missing from the index raced an invalidation. *)
THEOREM OrphansOnlyFromRacesAlways == Spec => []OrphansOnlyFromRaces
  <1>1. SessionsInv => OrphansOnlyFromRaces
    BY DEF SessionsInv
  <1> QED
    BY <1>1, Invariance, PTL
-----------------------------------------------------------------------------
(* The rate limiter. *)

(* A power of two is the number of subsets of a set. *)
LEMMA PowerOfTwo ==
  ASSUME NEW n \in Nat
  PROVE  2^n \in Nat \ {0}
  <1>1. IsFiniteSet(1 .. n) /\ Cardinality(1 .. n) = n
    BY FS_Interval
  <1>2. IsFiniteSet(SUBSET (1 .. n)) /\ Cardinality(SUBSET (1 .. n)) = 2^n
    BY <1>1, FS_SUBSET
  <1>3. 1 .. n \in SUBSET (1 .. n)
    OBVIOUS
  <1>4. Cardinality(SUBSET (1 .. n)) # 0
    BY <1>2, <1>3, FS_EmptySet
  <1> QED
    BY <1>2, <1>4, FS_CardinalityType

(* Every block lasts at least a tick and at most the longest. *)
LEMMA BackoffType ==
  ASSUME NEW n \in Nat \ {0}
  PROVE  Backoff(n) \in 1 .. Longest
  <1>1. 2^(n - 1) \in Nat \ {0}
    BY PowerOfTwo
  <1>2. Base \in Nat \ {0} /\ Longest \in Nat \ {0}
    BY PolicyAssumption
  <1> DEFINE power == 2^(n - 1)
  <1> HIDE DEF power
  <1>3. power \in Nat \ {0}
    BY <1>1 DEF power
  <1>4. Base * power \in Nat \ {0}
    BY <1>2, <1>3
  <1>5. Backoff(n) = Lesser(Base * power, Longest)
    BY DEF Backoff, power
  <1> QED
    BY <1>2, <1>4, <1>5 DEF Lesser

(* A hit that holds a block has been given its level, and the hits let
   through are among those the window has counted. *)
LimitsInv ==
  /\ RatesTypeOK
  /\ \A h \in Hits : hit[h].stage \in {"memory", "block", "hold"} => hit[h].level \in Nat \ {0}
  /\ allowed <= Budget /\ allowed <= count.value

LEMMA LimitsInit == RatesInit => LimitsInv
  BY PolicyAssumption
  DEF RatesInit, LimitsInv, RatesTypeOK, Key, Absent, Forever, Stages

(* INCR, EXPIRE and the passing of time keep the type of a key. *)
LEMMA KeyTypes ==
  ASSUME NEW longest \in Nat \ {0}, NEW k \in Key(longest)
  PROVE  /\ k.value \in Nat
         /\ Incr(k) \in Key(longest) /\ Incr(k).value = k.value + 1
         /\ \A t \in 1 .. longest :
              Expiring(k, t) \in Key(longest) /\ Expiring(k, t).value = k.value
         /\ Older(k) \in Key(longest)
         /\ Older(k).value = (IF k.ttl = 1 THEN 0 ELSE k.value)
  BY DEF Key, Incr, Expiring, Older, Absent, Forever

LEMMA KeysType ==
  ASSUME RatesTypeOK
  PROVE  /\ Incr(count) \in Key(Window) /\ Incr(count).value = count.value + 1
         /\ Expiring(count, Window) \in Key(Window)
         /\ Expiring(count, Window).value = count.value
         /\ Incr(penalty) \in Key(Memory) /\ Expiring(penalty, Memory) \in Key(Memory)
         /\ Incr(block) \in Key(Longest)
         /\ \A n \in 1 .. Longest : Expiring(block, n) \in Key(Longest)
         /\ count.value \in Nat /\ penalty.value \in Nat
         /\ Older(count) \in Key(Window) /\ Older(penalty) \in Key(Memory)
         /\ Older(block) \in Key(Longest)
         /\ Older(count).value = (IF count.ttl = 1 THEN 0 ELSE count.value)
  <1>1. count \in Key(Window) /\ penalty \in Key(Memory) /\ block \in Key(Longest)
    BY DEF RatesTypeOK
  <1>2. Window \in Nat \ {0} /\ Memory \in Nat \ {0} /\ Longest \in Nat \ {0}
    BY PolicyAssumption
  <1>3. Window \in 1 .. Window /\ Memory \in 1 .. Memory
    BY <1>2
  <1> QED
    BY <1>1, <1>2, <1>3, KeyTypes

(* The keys of a hit that goes from one stage to the next. *)
LEMMA HitInv ==
  ASSUME LimitsInv, NEW h \in Hits, Answer(h) \/ Crash(h) \/ Again(h)
  PROVE  LimitsInv'
  <1>1. RatesTypeOK /\ Budget \in Nat /\ hit[h] \in [stage : Stages, level : Nat]
    BY PolicyAssumption DEF LimitsInv, RatesTypeOK
  <1> USE <1>1 DEF LimitsInv, RatesTypeOK, keys, At, To, Stages
  <1>2. CASE CheckBlock(h)
    BY <1>2 DEF CheckBlock
  <1>3. CASE Count(h)
    BY <1>3, KeysType DEF Count
  <1>4. CASE StartWindow(h)
    BY <1>4, KeysType DEF StartWindow
  <1>5. CASE Penalise(h)
    <2>1. hit' = [hit EXCEPT ![h] = [stage |-> IF penalty.value = 0 THEN "memory" ELSE "block",
                                     level |-> penalty.value + 1]]
      BY <1>5 DEF Penalise
    <2>2. penalty.value + 1 \in Nat \ {0}
      BY KeysType
    <2>3. hit' \in [Hits -> [stage : Stages, level : Nat]]
      BY <2>1, <2>2
    <2>4. \A k \in Hits : hit'[k].stage \in {"memory", "block", "hold"}
                          => hit'[k].level \in Nat \ {0}
      BY <2>1, <2>2
    <2> QED
      BY <1>5, <2>3, <2>4, KeysType DEF Penalise
  <1>6. CASE Remember(h)
    BY <1>6, KeysType DEF Remember
  <1>7. CASE Block(h)
    BY <1>7, KeysType DEF Block
  <1>8. CASE Hold(h)
    <2>1. Backoff(hit[h].level) \in 1 .. Longest
      BY <1>8, BackoffType DEF Hold
    <2> QED
      BY <1>8, <2>1, KeysType DEF Hold
  <1>9. CASE Crash(h) \/ Again(h)
    BY <1>9, PolicyAssumption DEF Crash, Again
  <1> QED
    BY <1>2, <1>3, <1>4, <1>5, <1>6, <1>7, <1>8, <1>9 DEF Answer

LEMMA LimitsNext == LimitsInv /\ [RatesNext]_rateVars => LimitsInv'
  <1> SUFFICES ASSUME LimitsInv, [RatesNext]_rateVars PROVE LimitsInv'
    OBVIOUS
  <1>1. CASE Tick
    BY <1>1, PolicyAssumption, KeysType DEF Tick, LimitsInv, RatesTypeOK
  <1>2. CASE UNCHANGED rateVars
    BY <1>2 DEF rateVars, keys, LimitsInv, RatesTypeOK
  <1> QED
    BY <1>1, <1>2, HitInv DEF RatesNext

(* However hits of an address overlap, and whenever a process dies, no more
   than the budget are let through in one window, and no block is longer than
   the longest (BackoffLimiter.hit). *)
THEOREM RatesInvAlways == RatesSpec => []RatesInv
  <1>1. LimitsInv => RatesInv
    BY DEF LimitsInv, RatesInv
  <1> QED
    BY <1>1, LimitsInit, LimitsNext, PTL DEF RatesSpec
=============================================================================
