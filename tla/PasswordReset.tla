--------------------------- MODULE PasswordReset ---------------------------
(***************************************************************************)
(* The password of one account: reset tokens an administrator hands out,    *)
(* their redemption from one address, a change by the owner and a password  *)
(* set by an administrator, as requests that overlap and may die between    *)
(* two steps, with the hourly job that deletes stale tokens and the         *)
(* FailureThrottle of the address: one Redis key that the separate commands *)
(* GET, INCR, EXPIRE and DEL work on.  Logins count their failures in the   *)
(* same class.                                                              *)
(*                                                                          *)
(* A password is named by the request that set it and a session by the      *)
(* password it was opened with; the steps of a login and of ending sessions *)
(* are in Sessions.                                                         *)
(***************************************************************************)
EXTENDS Integers, FiniteSets

CONSTANTS
  Requests,   \* requests that set the account's password
  Tokens,     \* bound: the reset tokens ever minted
  First,      \* the password the account was created with
  MadeUp,     \* any string that is no token
  MaxAttempts, \* policy: failures until the address is locked
  Crashes     \* bound: how many requests die

ASSUME NamesAssumption  == First \notin Requests /\ MadeUp \notin Tokens
ASSUME PolicyAssumption == MaxAttempts \in Nat \ {0}
ASSUME CrashAssumption  == Crashes \in Nat

VARIABLES
  password,   \* of the user row
  status,     \* of the user row
  sessions,   \* the passwords live sessions were opened with
  minted,     \* tokens handed out
  rows,       \* tokens in idn_reset_tokens
  used,       \* rows with a usedAt
  expired,    \* tokens past their expiresAt
  request,    \* how far a request has come
  crashes,
  count,      \* the value of the address's key, 0 when there is no key
  ttl,        \* whether the key has a time to live
  told,       \* history: failures answered as such since the key was last gone
  late        \* history: redemptions begun when their token was dead

account == <<password, status, sessions>>
table   == <<minted, rows, used, expired>>
key     == <<count, ttl, told>>
vars    == <<account, table, request, crashes, key, late>>

Passwords == Requests \cup {First}
Kinds  == {"redeem", "change", "set"}
Stages == {"new", "begun", "failing", "window", "found", "spent", "verified",
           "written", "clear", "done", "refused", "crashed"}

ResetTypeOK ==
  /\ password \in Passwords /\ status \in {"active", "disabled", "must_reset"}
  /\ sessions \subseteq Passwords
  /\ minted \subseteq Tokens /\ rows \subseteq minted /\ used \subseteq rows /\ expired \subseteq minted
  /\ request \in [Requests -> [stage : Stages, kind : Kinds, token : Tokens \cup {MadeUp}]]
  /\ crashes \in 0..Crashes
  /\ count \in Nat /\ ttl \in BOOLEAN /\ (count = 0 => ~ttl) /\ told \in Nat
  /\ late \subseteq Requests

(* An account is created with a temporary password and must_reset. *)
Init ==
  /\ password = First /\ status = "must_reset" /\ sessions = {}
  /\ minted = {} /\ rows = {} /\ used = {} /\ expired = {}
  /\ request \in [Requests -> [stage : {"new"}, kind : Kinds, token : {MadeUp}]]
  /\ crashes = 0 /\ late = {}
  /\ count = 0 /\ ttl = FALSE /\ told = 0

IsA(r, kind, stage) == request[r].kind = kind /\ request[r].stage = stage
To(r, stage)        == request' = [request EXCEPT ![r].stage = stage]

-----------------------------------------------------------------------------
(* The tokens *)

(* findValidByHash *)
Valid(t) == t \in rows \ (used \cup expired)

(* initiateReset; the row's hash is of fresh random bytes. *)
Mint(t) ==
  /\ t \notin minted
  /\ minted' = minted \cup {t}
  /\ rows' = rows \cup {t}
  /\ UNCHANGED <<account, used, expired, request, crashes, key, late>>

Expire(t) ==
  /\ t \in minted \ expired
  /\ expired' = expired \cup {t}
  /\ UNCHANGED <<account, minted, rows, used, request, crashes, key, late>>

Stale == rows \cap (used \cup expired)

(* deleteStale *)
Purge ==
  /\ Stale # {}
  /\ rows' = rows \ Stale
  /\ used' = used \ Stale
  /\ UNCHANGED <<account, minted, expired, request, crashes, key, late>>

-----------------------------------------------------------------------------
(* confirmReset *)

Locked == count >= MaxAttempts

(* Nobody guesses a token before it is minted.  isLocked comes first. *)
BeginRedeem(r) ==
  /\ IsA(r, "redeem", "new")
  /\ \E t \in minted \cup {MadeUp} :
       /\ request' = [request EXCEPT ![r].stage = IF Locked THEN "refused" ELSE "begun", ![r].token = t]
       /\ late' = IF Valid(t) THEN late ELSE late \cup {r}
  /\ UNCHANGED <<account, table, crashes, key>>

(* Mutation: a used token is refused, an expired one is not. *)
FindUnused(r) ==
  /\ IsA(r, "redeem", "begun")
  /\ To(r, IF request[r].token \in rows \ used THEN "found" ELSE "failing")
  /\ UNCHANGED <<account, table, crashes, key, late>>

Find(r) ==
  /\ IsA(r, "redeem", "begun")
  /\ To(r, IF Valid(request[r].token) THEN "found" ELSE "failing")
  /\ UNCHANGED <<account, table, crashes, key, late>>

(* Mutation: the answer is taken from the lock that was read. *)
IncrementUnseen(r) ==
  /\ IsA(r, "redeem", "failing")
  /\ count' = count + 1 /\ told' = told + 1
  /\ To(r, IF count = 0 THEN "window" ELSE "refused")
  /\ UNCHANGED <<account, table, crashes, ttl, late>>

(* recordFailure: INCR, and the answer depends on what it returned. *)
Increment(r) ==
  /\ IsA(r, "redeem", "failing")
  /\ count' = count + 1
  /\ told' = IF count + 1 < MaxAttempts THEN told + 1 ELSE told
  /\ To(r, IF count = 0 THEN "window" ELSE "refused")
  /\ UNCHANGED <<account, table, crashes, ttl, late>>

(* EXPIRE after the first INCR; of a key that is gone it does nothing. *)
StartWindow(r) ==
  /\ IsA(r, "redeem", "window")
  /\ ttl' = (count > 0)
  /\ To(r, "refused")
  /\ UNCHANGED <<account, table, crashes, count, told, late>>

(* markUsed: an UPDATE by id that asks for nothing else. *)
Spend(r) ==
  /\ IsA(r, "redeem", "found")
  /\ used' = used \cup ({request[r].token} \cap rows)
  /\ To(r, "spent")
  /\ UNCHANGED <<account, minted, rows, expired, crashes, key, late>>

-----------------------------------------------------------------------------
(* changePassword verifies the current password first; adminSetPassword asks
   for nothing. *)

Verify(r) ==
  /\ IsA(r, "change", "new")
  /\ \E typed \in Passwords : To(r, IF typed = password THEN "verified" ELSE "refused")
  /\ UNCHANGED <<account, table, crashes, key, late>>

Ready(r) == IsA(r, "redeem", "spent") \/ IsA(r, "change", "verified") \/ IsA(r, "set", "new")

(* Mutation: the sessions are left alone. *)
WriteQuietly(r) ==
  /\ Ready(r)
  /\ password' = r /\ status' = "active"
  /\ To(r, "done")
  /\ UNCHANGED <<sessions, table, crashes, key, late>>

(* updatePasswordHash *)
Write(r) ==
  /\ Ready(r)
  /\ password' = r /\ status' = "active"
  /\ To(r, "written")
  /\ UNCHANGED <<sessions, table, crashes, key, late>>

(* invalidateAllForUser *)
EndSessions(r) ==
  /\ request[r].stage = "written"
  /\ sessions' = {}
  /\ To(r, IF request[r].kind = "redeem" THEN "clear" ELSE "done")
  /\ UNCHANGED <<password, status, table, crashes, key, late>>

(* The key is deleted, or expires. *)
Gone == count' = 0 /\ ttl' = FALSE /\ told' = 0

Clear(r) ==
  /\ IsA(r, "redeem", "clear")
  /\ Gone
  /\ To(r, "done")
  /\ UNCHANGED <<account, table, crashes, late>>

Lapse ==
  /\ ttl
  /\ Gone
  /\ UNCHANGED <<account, table, request, crashes, late>>

Crash(r) ==
  /\ request[r].stage \in Stages \ {"new", "done", "refused", "crashed"}
  /\ crashes < Crashes
  /\ crashes' = crashes + 1
  /\ To(r, "crashed")
  /\ UNCHANGED <<account, table, key, late>>

-----------------------------------------------------------------------------
(* The rest of the system: a login, and an administrator who disables. *)

Login ==
  /\ status = "active"
  /\ sessions' = sessions \cup {password}
  /\ UNCHANGED <<password, status, table, request, crashes, key, late>>

Disable ==
  /\ status # "disabled"
  /\ status' = "disabled" /\ sessions' = {}
  /\ UNCHANGED <<password, table, request, crashes, key, late>>

Work(r) ==
  \/ BeginRedeem(r) \/ Find(r) \/ Increment(r) \/ StartWindow(r) \/ Spend(r)
  \/ Verify(r) \/ Write(r) \/ EndSessions(r) \/ Clear(r)

Next ==
  \/ \E t \in Tokens : Mint(t) \/ Expire(t)
  \/ Purge \/ Lapse
  \/ \E r \in Requests : Work(r) \/ Crash(r)
  \/ Login \/ Disable

Spec == Init /\ [][Next]_vars

-----------------------------------------------------------------------------
(* A request that dies after the token was found leaves it used or leaves
   the password alone: no password was set by a token that can still be
   redeemed. *)
SpentBeforeUse ==
  \A r \in Requests :
    request[r].kind = "redeem" /\ (request[r].stage \in {"written", "clear", "done"} \/ password = r)
      => ~Valid(request[r].token)

(* "Single-use" (ADR-0011) as far as it goes: a token that is used, expired,
   deleted or was never minted when a redemption begins sets no password by
   it.  The look-up and the marking are two statements, so redemptions that
   were both begun before either marked the token both succeed. *)
DeadStaysDead ==
  \A r \in late : request[r].stage \notin {"found", "spent", "written", "clear", "done"} /\ password # r

(* When no request is between its write and the end of the sessions, and
   none has died there, whoever is signed in knows the password. *)
SignedInKnowThePassword ==
  (\A r \in Requests : request[r].stage \notin {"written", "crashed"}) => sessions \subseteq {password}

(* Between two disappearances of the key fewer than MaxAttempts failures are
   answered as mere failures, however many redemptions had read the key
   before the others wrote it. *)
FewAreTold == told < MaxAttempts

=============================================================================
