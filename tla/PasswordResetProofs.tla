------------------------ MODULE PasswordResetProofs ------------------------
(***************************************************************************)
(* Proofs about PasswordReset, for any number of requests and tokens, any   *)
(* limit of attempts and any number of crashes.                             *)
(***************************************************************************)
EXTENDS PasswordReset, TLAPS

(* A redemption that was begun holds a token that had been minted by then, or
   a string that is no token. *)
Handed == \A r \in Requests :
  request[r].kind = "redeem" /\ request[r].stage # "new" => request[r].token \in minted \cup {MadeUp}

(* Once a token is marked, or was dead from the start, it is never valid
   again. *)
Spent == \A r \in Requests :
  request[r].kind = "redeem" /\ (request[r].stage \in {"spent", "written", "clear", "done"} \/ password = r)
    => request[r].stage # "new" /\ ~Valid(request[r].token)

Begun == \A r \in late :
  /\ request[r].kind = "redeem" /\ request[r].stage # "new"
  /\ ~Valid(request[r].token)

(* What was told is counted in the key. *)
Counted == told <= count

ResetInv == /\ ResetTypeOK /\ Handed /\ Spent /\ Begun /\ Counted
            /\ DeadStaysDead /\ SignedInKnowThePassword /\ FewAreTold

(* The initial state satisfies the invariant. *)
LEMMA InitKeeps == Init => ResetInv
  <1> SUFFICES ASSUME Init PROVE ResetInv
    OBVIOUS
  <1> USE DEF Init
  <1>1. request \in [Requests -> [stage : Stages, kind : Kinds, token : Tokens \cup {MadeUp}]]
    <2>1. "new" \in Stages
      BY DEF Stages
    <2>2. [stage : {"new"}, kind : Kinds, token : {MadeUp}] \subseteq [stage : Stages, kind : Kinds, token : Tokens \cup {MadeUp}]
      BY <2>1
    <2> QED
      BY <2>2
  <1>6. ResetTypeOK
    <2>1. 0 \in 0..Crashes
      BY CrashAssumption
    <2>2. ttl \in BOOLEAN /\ ~ttl
      OBVIOUS
    <2> QED
      BY <1>1, <2>1, <2>2 DEF ResetTypeOK, Passwords
  <1>2. \A r \in Requests : request[r].stage = "new" /\ password # r
    BY NamesAssumption
  <1>3. Handed /\ Spent
    BY <1>2 DEF Handed, Spent
  <1>4. Begun /\ DeadStaysDead /\ SignedInKnowThePassword
    BY DEF Begun, DeadStaysDead, SignedInKnowThePassword
  <1>5. Counted /\ FewAreTold
    BY PolicyAssumption DEF Counted, FewAreTold
  <1> QED
    BY <1>3, <1>4, <1>5, <1>6 DEF ResetInv

(* A dead token that was minted, or is none, stays dead: a row is only ever
   added for a new token. *)
LEMMA DeadTokens ==
  ASSUME ResetTypeOK, [Next]_vars, NEW t \in minted \cup {MadeUp}, ~Valid(t)
  PROVE  ~Valid(t)'
  <1> USE NamesAssumption DEF ResetTypeOK, Valid
  <1>1. CASE \E u \in Tokens : Mint(u)
    BY <1>1 DEF Mint
  <1>2. CASE \E u \in Tokens : Expire(u)
    BY <1>2 DEF Expire
  <1>3. CASE Purge
    BY <1>3 DEF Purge, Stale
  <1>4. CASE \E r \in Requests : Spend(r)
    BY <1>4 DEF Spend
  <1>5. CASE UNCHANGED <<rows, used, expired>>
    BY <1>5
  <1>6. \/ \E u \in Tokens : Mint(u) \/ Expire(u)
        \/ Purge
        \/ \E r \in Requests : Spend(r)
        \/ UNCHANGED <<rows, used, expired>>
    BY DEF Next, Work, BeginRedeem, Find, Increment, StartWindow, Verify, Write, EndSessions, Clear, Crash,
           Lapse, Login, Disable, table, vars
  <1> QED
    BY <1>1, <1>2, <1>3, <1>4, <1>5, <1>6

(* What every step does to the stages: the actor of an action moves to a
   stage, and with BeginRedeem to a token. *)
LEMMA RequestType ==
  ASSUME ResetTypeOK, NEW r \in Requests, NEW s \in Stages, NEW t \in Tokens \cup {MadeUp}
  PROVE  /\ [request EXCEPT ![r].stage = s] \in [Requests -> [stage : Stages, kind : Kinds, token : Tokens \cup {MadeUp}]]
         /\ [request EXCEPT ![r].stage = s, ![r].token = t]
              \in [Requests -> [stage : Stages, kind : Kinds, token : Tokens \cup {MadeUp}]]
  BY DEF ResetTypeOK

(* The request keeps its type whatever the step. *)
LEMMA RequestKeepsType ==
  ASSUME ResetTypeOK, [Next]_vars
  PROVE  request' \in [Requests -> [stage : Stages, kind : Kinds, token : Tokens \cup {MadeUp}]]
  <1>1. CASE \E r \in Requests : BeginRedeem(r)
    <2> PICK r \in Requests : BeginRedeem(r)
      BY <1>1
    <2>1. PICK t \in minted \cup {MadeUp} :
            request' = [request EXCEPT ![r].stage = IF Locked THEN "refused" ELSE "begun", ![r].token = t]
      BY DEF BeginRedeem
    <2>2. t \in Tokens \cup {MadeUp} /\ (IF Locked THEN "refused" ELSE "begun") \in Stages
      BY DEF ResetTypeOK, Stages
    <2> QED
      BY <2>1, <2>2, RequestType
  <1>2. CASE \E r \in Requests : \E s \in Stages : To(r, s)
    <2> PICK r \in Requests, s \in Stages : To(r, s)
      BY <1>2
    <2>1. MadeUp \in Tokens \cup {MadeUp}
      OBVIOUS
    <2> QED
      BY <2>1, RequestType DEF To
  <1>3. CASE UNCHANGED request
    BY <1>3 DEF ResetTypeOK
  <1>4. \A r \in Requests : Work(r) \/ Crash(r) => BeginRedeem(r) \/ \E s \in Stages : To(r, s)
    BY DEF Work, Find, Increment, StartWindow, Spend, Verify, Write, EndSessions, Clear, Crash, Stages
  <1> QED
    BY <1>1, <1>2, <1>3, <1>4 DEF Next, Mint, Expire, Purge, Lapse, Login, Disable, vars

(* The rest of the type, one group of variables at a time. *)
LEMMA TypeKept == ResetTypeOK /\ [Next]_vars => ResetTypeOK'
  <1> SUFFICES ASSUME ResetTypeOK, [Next]_vars PROVE ResetTypeOK'
    OBVIOUS
  <1> USE DEF ResetTypeOK
  <1>1. (password \in Passwords /\ status \in {"active", "disabled", "must_reset"} /\ sessions \subseteq Passwords)'
    <2>1. CASE \E r \in Requests : Write(r)
      BY <2>1 DEF Write, Passwords
    <2>2. CASE \E r \in Requests : EndSessions(r)
      BY <2>2 DEF EndSessions, Passwords
    <2>3. CASE Login
      BY <2>3 DEF Login, Passwords
    <2>4. CASE Disable
      BY <2>4 DEF Disable, Passwords
    <2>5. CASE UNCHANGED account
      BY <2>5 DEF account, Passwords
    <2> QED
      BY <2>1, <2>2, <2>3, <2>4, <2>5
      DEF Next, Work, Mint, Expire, Purge, Lapse, BeginRedeem, Find, Increment, StartWindow, Spend, Verify, Clear,
          Crash, vars
  <1>2. (minted \subseteq Tokens /\ rows \subseteq minted /\ used \subseteq rows /\ expired \subseteq minted)'
    <2>1. CASE \E t \in Tokens : Mint(t)
      BY <2>1 DEF Mint
    <2>2. CASE \E t \in Tokens : Expire(t)
      BY <2>2 DEF Expire
    <2>3. CASE Purge
      BY <2>3 DEF Purge, Stale
    <2>4. CASE \E r \in Requests : Spend(r)
      BY <2>4 DEF Spend
    <2>5. CASE UNCHANGED table
      BY <2>5 DEF table
    <2> QED
      BY <2>1, <2>2, <2>3, <2>4, <2>5
      DEF Next, Work, Lapse, BeginRedeem, Find, Increment, StartWindow, Verify, Write, EndSessions, Clear,
          Crash, Login, Disable, vars
  <1>3. (crashes \in 0..Crashes)'
    <2>1. CASE \E r \in Requests : Crash(r)
      BY <2>1, CrashAssumption DEF Crash
    <2>2. CASE UNCHANGED crashes
      BY <2>2
    <2> QED
      BY <2>1, <2>2
      DEF Next, Work, Mint, Expire, Purge, Lapse, BeginRedeem, Find, Increment, StartWindow, Spend, Verify, Write,
          EndSessions, Clear, Login, Disable, vars
  <1>4. (late \subseteq Requests)'
    <2>1. CASE \E r \in Requests : BeginRedeem(r)
      BY <2>1 DEF BeginRedeem
    <2>2. CASE UNCHANGED late
      BY <2>2
    <2> QED
      BY <2>1, <2>2
      DEF Next, Work, Mint, Expire, Purge, Lapse, Find, Increment, StartWindow, Spend, Verify, Write,
          EndSessions, Clear, Crash, Login, Disable, vars
  <1>5. (count \in Nat /\ ttl \in BOOLEAN /\ (count = 0 => ~ttl) /\ told \in Nat)'
    <2>1. CASE \E r \in Requests : Increment(r)
      <3>1. count' \in Nat /\ told' \in Nat /\ count' # 0
        BY <2>1 DEF Increment
      <3>2. ttl' \in BOOLEAN
        BY <2>1 DEF Increment
      <3> QED
        BY <3>1, <3>2
    <2>2. CASE \E r \in Requests : StartWindow(r)
      <3>1. count' = count /\ told' = told /\ ttl' = (count > 0)
        BY <2>2 DEF StartWindow
      <3>2. (count > 0) \in BOOLEAN /\ (count = 0 => ~(count > 0))
        OBVIOUS
      <3> QED
        BY <3>1, <3>2
    <2>3. CASE Gone
      BY <2>3 DEF Gone
    <2>4. CASE UNCHANGED <<count, ttl, told>>
      BY <2>4
    <2> QED
      BY <2>1, <2>2, <2>3, <2>4
      DEF Next, Work, Mint, Expire, Purge, Lapse, BeginRedeem, Find, Spend, Verify, Write,
          EndSessions, Clear, Crash, Login, Disable, vars, key
  <1> QED
    BY <1>1, <1>2, <1>3, <1>4, <1>5, RequestKeepsType

-----------------------------------------------------------------------------
(* Tokens that are minted or none stay minted or none. *)
LEMMA HandedKept == ResetTypeOK /\ Handed /\ [Next]_vars => Handed'
  <1> SUFFICES ASSUME ResetTypeOK, Handed, [Next]_vars, NEW r \in Requests,
                      request'[r].kind = "redeem", request'[r].stage # "new"
               PROVE  request'[r].token \in minted' \cup {MadeUp}
    BY DEF Handed
  <1>1. minted \subseteq minted'
    BY DEF Next, Work, Mint, Expire, Purge, Lapse, BeginRedeem, Find, Increment, StartWindow, Spend, Verify, Write,
           EndSessions, Clear, Crash, Login, Disable, table, vars
  <1>2. CASE \E q \in Requests : BeginRedeem(q)
    <2> PICK q \in Requests : BeginRedeem(q)
      BY <1>2
    <2>1. PICK t \in minted \cup {MadeUp} :
            request' = [request EXCEPT ![q].stage = IF Locked THEN "refused" ELSE "begun", ![q].token = t]
      BY DEF BeginRedeem
    <2>2. CASE q = r
      BY <1>1, <2>1, <2>2 DEF ResetTypeOK
    <2>3. CASE q # r
      BY <1>1, <2>1, <2>3 DEF ResetTypeOK, Handed
    <2> QED
      BY <2>2, <2>3
  <1>3. CASE \E q \in Requests : \E s \in Stages : To(q, s) /\ (request[q].kind = "redeem" => request[q].stage # "new")
    BY <1>1, <1>3 DEF To, ResetTypeOK, Handed
  <1>4. CASE UNCHANGED request
    BY <1>1, <1>4 DEF Handed
  <1>5. \A q \in Requests : Work(q) \/ Crash(q) =>
          \/ BeginRedeem(q)
          \/ \E s \in Stages : To(q, s) /\ (request[q].kind = "redeem" => request[q].stage # "new")
    BY DEF Work, Find, Increment, StartWindow, Spend, Verify, Write, Ready, EndSessions, Clear, Crash, IsA, Stages
  <1> QED
    BY <1>2, <1>3, <1>4, <1>5 DEF Next, Mint, Expire, Purge, Lapse, Login, Disable, vars

After == {"spent", "written", "clear", "done"}

(* How a redemption comes to the stages after the marking: by marking its own
   token, or from another of these stages; and the password is its own only
   if it wrote it. *)
LEMMA SpentFrom ==
  ASSUME ResetTypeOK, [Next]_vars, NEW r \in Requests,
         request'[r].kind = "redeem", request'[r].stage \in After \/ password' = r
  PROVE  \/ Spend(r)
         \/ /\ request[r].kind = "redeem" /\ (request[r].stage \in After \/ password = r)
            /\ request[r].stage # "new" => request'[r].token = request[r].token /\ request'[r].stage # "new"
  <1> USE DEF After
  <1>1. CASE \E q \in Requests : BeginRedeem(q)
    <2> PICK q \in Requests : BeginRedeem(q)
      BY <1>1
    <2>1. PICK t \in minted \cup {MadeUp} :
            request' = [request EXCEPT ![q].stage = IF Locked THEN "refused" ELSE "begun", ![q].token = t]
      BY DEF BeginRedeem
    <2>2. password' = password /\ request[q].stage = "new" /\ request[q].kind = "redeem"
      BY DEF BeginRedeem, account, IsA
    <2> QED
      BY <2>1, <2>2 DEF ResetTypeOK
  <1>2. CASE \E q \in Requests : Work(q) /\ ~BeginRedeem(q)
    <2> PICK q \in Requests : Work(q) /\ ~BeginRedeem(q)
      BY <1>2
    <2>1. CASE Find(q)
      BY <2>1 DEF Find, To, IsA, account, ResetTypeOK
    <2>2. CASE Increment(q)
      BY <2>2 DEF Increment, To, IsA, account, ResetTypeOK
    <2>3. CASE StartWindow(q)
      BY <2>3 DEF StartWindow, To, IsA, account, ResetTypeOK
    <2>4. CASE Spend(q)
      BY <2>4 DEF Spend, To, IsA, account, ResetTypeOK
    <2>5. CASE Verify(q)
      BY <2>5 DEF Verify, To, IsA, account, ResetTypeOK
    <2>6. CASE Write(q)
      BY <2>6 DEF Write, Ready, To, IsA, ResetTypeOK
    <2>7. CASE EndSessions(q)
      BY <2>7 DEF EndSessions, To, ResetTypeOK
    <2>8. CASE Clear(q)
      BY <2>8 DEF Clear, To, IsA, account, ResetTypeOK
    <2> QED
      BY <2>1, <2>2, <2>3, <2>4, <2>5, <2>6, <2>7, <2>8 DEF Work
  <1>3. CASE \E q \in Requests : Crash(q)
    BY <1>3 DEF Crash, To, account, ResetTypeOK
  <1>4. CASE UNCHANGED <<password, request>>
    BY <1>4
  <1> QED
    BY <1>1, <1>2, <1>3, <1>4 DEF Next, Mint, Expire, Purge, Lapse, Login, Disable, account, vars

LEMMA SpentKept == ResetTypeOK /\ Handed /\ Spent /\ [Next]_vars => Spent'
  <1> SUFFICES ASSUME ResetTypeOK, Handed, Spent, [Next]_vars, NEW r \in Requests,
                      request'[r].kind = "redeem", request'[r].stage \in After \/ password' = r
               PROVE  request'[r].stage # "new" /\ request'[r].token \notin rows' \ (used' \cup expired')
    BY DEF Spent, After, Valid
  <1>1. CASE Spend(r)
    <2>1. request' = [request EXCEPT ![r].stage = "spent"] /\ rows' = rows
          /\ used' = used \cup ({request[r].token} \cap rows)
      BY <1>1 DEF Spend, To
    <2> QED
      BY <2>1 DEF ResetTypeOK, Valid
  <1>2. CASE /\ request[r].kind = "redeem" /\ (request[r].stage \in After \/ password = r)
             /\ request[r].stage # "new" => request'[r].token = request[r].token /\ request'[r].stage # "new"
    <2>1. request[r].stage # "new" /\ ~Valid(request[r].token)
      BY <1>2 DEF Spent, After
    <2>2. request[r].token \in minted \cup {MadeUp}
      BY <1>2, <2>1 DEF Handed
    <2>3. PICK t \in minted \cup {MadeUp} : t = request[r].token
      BY <2>2
    <2>4. t \notin rows' \ (used' \cup expired')
      BY <2>1, <2>3, DeadTokens DEF Valid
    <2> QED
      BY <1>2, <2>1, <2>3, <2>4
  <1> QED
    BY <1>1, <1>2, SpentFrom

(* A redemption that began with a dead token is still about it. *)
LEMMA BegunKept == ResetTypeOK /\ Handed /\ Begun /\ [Next]_vars => Begun'
  <1> SUFFICES ASSUME ResetTypeOK, Handed, Begun, [Next]_vars, NEW r \in late'
               PROVE  /\ request'[r].kind = "redeem" /\ request'[r].stage # "new"
                      /\ request'[r].token \notin rows' \ (used' \cup expired')
    BY DEF Begun, Valid
  <1>1. CASE \E q \in Requests : BeginRedeem(q)
    <2> PICK q \in Requests : BeginRedeem(q)
      BY <1>1
    <2>1. PICK t \in minted \cup {MadeUp} :
            /\ request' = [request EXCEPT ![q].stage = IF Locked THEN "refused" ELSE "begun", ![q].token = t]
            /\ late' = IF Valid(t) THEN late ELSE late \cup {q}
      BY DEF BeginRedeem
    <2>2. UNCHANGED <<rows, used, expired>> /\ request[q].kind = "redeem" /\ request[q].stage = "new"
      BY DEF BeginRedeem, IsA, table
    <2>3. CASE r = q
      <3>1. ~Valid(t)
        BY <2>1, <2>2, <2>3 DEF Begun
      <3> QED
        BY <2>1, <2>2, <2>3, <3>1 DEF ResetTypeOK, Valid
    <2>4. CASE r # q
      <3>1. r \in late /\ request'[r] = request[r]
        BY <2>1, <2>4 DEF ResetTypeOK
      <3> QED
        BY <2>2, <3>1 DEF Begun, Valid
    <2> QED
      BY <2>3, <2>4
  <1>2. CASE ~(\E q \in Requests : BeginRedeem(q))
    <2>1. late' = late
      BY <1>2 DEF Next, Work, Mint, Expire, Purge, Lapse, Find, Increment, StartWindow, Spend, Verify, Write,
                  EndSessions, Clear, Crash, Login, Disable, vars
    <2>2. r \in Requests /\ request[r].kind = "redeem" /\ request[r].stage # "new" /\ ~Valid(request[r].token)
      BY <2>1 DEF Begun, ResetTypeOK
    <2>3. PICK t \in minted \cup {MadeUp} : t = request[r].token
      BY <2>2 DEF Handed
    <2>4. t \notin rows' \ (used' \cup expired')
      BY <2>2, <2>3, DeadTokens DEF Valid
    <2>5. \/ \E q \in Requests : \E s \in Stages \ {"new"} : To(q, s)
          \/ UNCHANGED request
      BY <1>2 DEF Next, Work, Mint, Expire, Purge, Lapse, Find, Increment, StartWindow, Spend, Verify, Write,
                  EndSessions, Clear, Crash, Login, Disable, vars, Stages
    <2>6. request'[r].kind = "redeem" /\ request'[r].stage # "new" /\ request'[r].token = request[r].token
      BY <2>2, <2>5 DEF To, ResetTypeOK
    <2> QED
      BY <2>3, <2>4, <2>6
  <1> QED
    BY <1>1, <1>2

Reached == {"found", "spent", "written", "clear", "done"}

(* A request gets to these stages by finding a valid token, or it was there,
   or it is no redemption. *)
LEMMA DeadKept == ResetTypeOK /\ Spent /\ Begun /\ Begun' /\ DeadStaysDead /\ [Next]_vars => DeadStaysDead'
  <1> SUFFICES ASSUME ResetTypeOK, Spent, Begun, Begun', DeadStaysDead, [Next]_vars, NEW r \in late',
                      request'[r].stage \in Reached \/ password' = r
               PROVE  FALSE
    BY DEF DeadStaysDead, Reached
  <1> USE DEF Reached
  <1>1. CASE \E q \in Requests : BeginRedeem(q)
    <2> PICK q \in Requests : BeginRedeem(q)
      BY <1>1
    <2>1. PICK t \in minted \cup {MadeUp} :
            /\ request' = [request EXCEPT ![q].stage = IF Locked THEN "refused" ELSE "begun", ![q].token = t]
            /\ late' = IF Valid(t) THEN late ELSE late \cup {q}
      BY DEF BeginRedeem
    <2>2. password' = password
      BY DEF BeginRedeem, account
    <2>3. CASE r = q
      BY <2>1, <2>2, <2>3 DEF BeginRedeem, IsA, ResetTypeOK, Spent
    <2>4. CASE r # q
      BY <2>1, <2>2, <2>4 DEF ResetTypeOK, DeadStaysDead
    <2> QED
      BY <2>3, <2>4
  <1>2. CASE ~(\E q \in Requests : BeginRedeem(q))
    <2>1. late' = late
      BY <1>2 DEF Next, Work, Mint, Expire, Purge, Lapse, Find, Increment, StartWindow, Spend, Verify, Write,
                  EndSessions, Clear, Crash, Login, Disable, vars
    <2>2. /\ r \in Requests /\ request[r].kind = "redeem" /\ ~Valid(request[r].token)
          /\ request[r].stage \notin Reached /\ password # r
      BY <2>1 DEF Begun, ResetTypeOK, DeadStaysDead
    <2>3. CASE \E q \in Requests : Find(q)
      BY <2>2, <2>3 DEF Find, To, account, ResetTypeOK
    <2>4. CASE \E q \in Requests : Write(q)
      BY <2>2, <2>4 DEF Write, Ready, IsA, To, ResetTypeOK
    <2>5. CASE \E q \in Requests : Increment(q) \/ StartWindow(q) \/ Spend(q) \/ Verify(q)
      BY <2>2, <2>5 DEF Increment, StartWindow, Spend, Verify, IsA, To, account, ResetTypeOK
    <2>6. CASE \E q \in Requests : EndSessions(q)
      <3>1. PICK q \in Requests : EndSessions(q)
        BY <2>6
      <3>2. q # r /\ password' = password /\ \E s : To(q, s)
        BY <2>2, <3>1 DEF EndSessions
      <3>3. request'[r] = request[r]
        BY <3>2 DEF To, ResetTypeOK
      <3> QED
        BY <2>2, <3>2, <3>3
    <2>8. CASE \E q \in Requests : Clear(q) \/ Crash(q)
      BY <2>2, <2>8 DEF Clear, Crash, IsA, To, account, ResetTypeOK
    <2>7. CASE UNCHANGED <<password, request>>
      BY <2>2, <2>7
    <2> QED
      BY <1>2, <2>3, <2>4, <2>5, <2>6, <2>7, <2>8
      DEF Next, Work, Mint, Expire, Purge, Lapse, Login, Disable, account, vars
  <1> QED
    BY <1>1, <1>2

(* Sessions of an old password live on only while a request has written the
   password and not ended the sessions, or has died there. *)
LEMMA SignedInKept == ResetTypeOK /\ SignedInKnowThePassword /\ [Next]_vars => SignedInKnowThePassword'
  <1> DEFINE Half == \E r \in Requests : request[r].stage \in {"written", "crashed"}
  <1> SUFFICES ASSUME ResetTypeOK, SignedInKnowThePassword, [Next]_vars, ~Half'
               PROVE  sessions' \subseteq {password'}
    BY DEF SignedInKnowThePassword
  <1>1. CASE \E r \in Requests : EndSessions(r)
    BY <1>1 DEF EndSessions
  <1>2. CASE \E r \in Requests : Write(r) \/ Crash(r)
    BY <1>2 DEF Write, Crash, To, ResetTypeOK
  <1>3. CASE Disable
    BY <1>3 DEF Disable
  <1>4. CASE UNCHANGED request /\ password' = password /\ sessions' \subseteq sessions \cup {password}
    BY <1>4 DEF SignedInKnowThePassword
  <1>5. CASE /\ UNCHANGED account
             /\ \E r \in Requests : request[r].stage \notin {"written", "crashed"}
                                     /\ \E s \in Stages : To(r, s)
    BY <1>5 DEF To, account, SignedInKnowThePassword, ResetTypeOK
  <1>6. CASE \E r \in Requests : BeginRedeem(r)
    <2> PICK r \in Requests : BeginRedeem(r)
      BY <1>6
    <2>1. \A q \in Requests : q # r => request'[q] = request[q]
      BY DEF BeginRedeem, ResetTypeOK
    <2>2. request[r].stage = "new" /\ UNCHANGED account
      BY DEF BeginRedeem, IsA
    <2> QED
      BY <2>1, <2>2 DEF SignedInKnowThePassword, account
  <1>7. \A r \in Requests :
          Find(r) \/ Increment(r) \/ StartWindow(r) \/ Spend(r) \/ Verify(r) \/ Clear(r)
            => /\ UNCHANGED account
               /\ request[r].stage \notin {"written", "crashed"} /\ \E s \in Stages : To(r, s)
    BY DEF Find, Increment, StartWindow, Spend, Verify, Clear, IsA, Stages
  <1>8. Login => UNCHANGED request /\ password' = password /\ sessions' \subseteq sessions \cup {password}
    BY DEF Login
  <1>9. (\E t \in Tokens : Mint(t) \/ Expire(t)) \/ Purge \/ Lapse \/ UNCHANGED vars
          => UNCHANGED request /\ password' = password /\ sessions' \subseteq sessions \cup {password}
    BY DEF Mint, Expire, Purge, Lapse, account, vars
  <1> QED
    BY <1>1, <1>2, <1>3, <1>4, <1>5, <1>6, <1>7, <1>8, <1>9 DEF Next, Work

(* The key counts every failure before it is answered. *)
LEMMA ThrottleKept == ResetTypeOK /\ Counted /\ FewAreTold /\ [Next]_vars => Counted' /\ FewAreTold'
  <1> SUFFICES ASSUME ResetTypeOK, Counted, FewAreTold, [Next]_vars PROVE Counted' /\ FewAreTold'
    OBVIOUS
  <1> USE PolicyAssumption DEF Counted, FewAreTold
  <1>1. CASE \E r \in Requests : Increment(r)
    BY <1>1 DEF Increment, ResetTypeOK
  <1>2. CASE Gone
    BY <1>2 DEF Gone
  <1>3. CASE UNCHANGED <<count, told>>
    BY <1>3
  <1> QED
    BY <1>1, <1>2, <1>3
    DEF Next, Work, Mint, Expire, Purge, Lapse, BeginRedeem, Find, StartWindow, Spend, Verify, Write,
        EndSessions, Clear, Crash, Login, Disable, vars, key

LEMMA NextKeeps == ResetInv /\ [Next]_vars => ResetInv'
  BY TypeKept, HandedKept, SpentKept, BegunKept, DeadKept, SignedInKept, ThrottleKept DEF ResetInv

-----------------------------------------------------------------------------
(* Every reachable state satisfies the inductive invariant. *)
THEOREM Invariance == Spec => []ResetInv
  BY InitKeeps, NextKeeps, PTL DEF Spec

(* The account, the tokens, the requests and the address's key have their
   types; a key that is absent has no time to live. *)
THEOREM TypeCorrect == Spec => []ResetTypeOK
  BY Invariance, PTL DEF ResetInv

(* A token that is dead when a redemption begins sets no password by it. *)
THEOREM DeadStaysDeadAlways == Spec => []DeadStaysDead
  BY Invariance, PTL DEF ResetInv

(* With no request between its write and the end of the sessions, whoever is
   signed in knows the current password. *)
THEOREM SignedInKnowThePasswordAlways == Spec => []SignedInKnowThePassword
  BY Invariance, PTL DEF ResetInv

(* Fewer than MaxAttempts failures are answered as such between two
   disappearances of the key. *)
THEOREM FewAreToldAlways == Spec => []FewAreTold
  BY Invariance, PTL DEF ResetInv

(* A password set by a token was set after the token had become useless. *)
THEOREM SpentBeforeUseAlways == Spec => []SpentBeforeUse
  <1>1. ResetInv => SpentBeforeUse
    BY DEF ResetInv, Spent, SpentBeforeUse
  <1> QED
    BY <1>1, Invariance, PTL

=============================================================================
