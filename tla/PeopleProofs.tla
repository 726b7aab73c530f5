---------------------------- MODULE PeopleProofs ----------------------------
(***************************************************************************)
(* Proofs about Guardians, for any finite number of adults, any codes,      *)
(* claims and staff requests, and any limit, and about Imports, for any     *)
(* imports, files, deliveries and faults.                                   *)
(***************************************************************************)
EXTENDS Guardians, Imports, FiniteSetTheorems, TLAPS

(* The claim that holds the pupil's row is the one that has locked it, its
   code is unspent, and it has counted at least the live relationships of the
   other adults: while it holds the row these can only become fewer. *)
Holding == \A p \in Claims :
  /\ claim[p].stage = "locked" <=> pupil = p
  /\ claim[p].stage = "locked" =>
       /\ invitation[claim[p].code].status = "pending"
       /\ Cardinality(Others(claim[p].adult)) <= counted[p]

(* Whoever claims has a login by then. *)
LoggedIn == \A p \in Claims : claim[p].stage \in {"account", "locked"} => claim[p].adult \in accounts

GuardiansInv == /\ GuardiansTypeOK /\ Holding /\ LoggedIn
                /\ StandingEarned /\ CodesWorkOnce /\ OnePrimaryContact

-----------------------------------------------------------------------------
(* Sets of adults are finite, and fewer of them are no more. *)
LEMMA FewerAdults ==
  ASSUME NEW S \in SUBSET Adults, NEW T \in SUBSET S
  PROVE  IsFiniteSet(S) /\ Cardinality(T) <= Cardinality(S) /\ Cardinality(T) \in Nat /\ Cardinality(S) \in Nat
  BY PeopleAssumption, FS_Subset, FS_CardinalityType

LEMMA OneMoreAdult ==
  ASSUME NEW S \in SUBSET Adults, NEW a \in Adults
  PROVE  Cardinality(S \cup {a}) <= Cardinality(S) + 1
  BY FewerAdults, FS_AddElement

LEMMA NoAdults ==
  ASSUME NEW S \in SUBSET Adults, Cardinality(S) = 0
  PROVE  S = {}
  BY FewerAdults, FS_EmptySet

-----------------------------------------------------------------------------
(* The initial state satisfies the invariant. *)
LEMMA InitKeeps == GuardiansInit => GuardiansInv
  <1> SUFFICES ASSUME GuardiansInit PROVE GuardiansInv
    OBVIOUS
  <1>1. \A c \in Codes : invitation[c].status = "unissued" /\ claimedBy[c] = None
    BY DEF GuardiansInit
  <1>2. \A p \in Claims : claim[p].stage = "new" /\ pupil # p
    BY NobodyAssumption DEF GuardiansInit
  <1>3. \A a \in Adults : relation[a].status = "none"
    BY DEF GuardiansInit
  <1>4. GuardiansTypeOK
    <2>1. invitation \in [Codes -> Invitation]
      <3>1. (CHOOSE c \in Contacts : TRUE) \in Contacts
        BY PeopleAssumption
      <3>2. PICK k \in Contacts : k = CHOOSE c \in Contacts : TRUE
        BY <3>1
      <3>3. invitation \in [Codes -> {[status |-> "unissued", contact |-> k, kind |-> "parent", verified |-> FALSE]}]
        BY <3>2 DEF GuardiansInit
      <3>4. [status |-> "unissued", contact |-> k, kind |-> "parent", verified |-> FALSE] \in Invitation
        BY DEF Invitation, Kinds
      <3> QED
        BY <3>3, <3>4
    <2>2. relation \in [Adults -> Relation]
      BY DEF GuardiansInit, Relation, Kinds
    <2>3. claim \in [Claims -> Claim]
      <3>1. [stage : {"new"}, adult : Adults, code : Codes] \subseteq Claim
        BY DEF Claim
      <3> QED
        BY <3>1 DEF GuardiansInit
    <2>4. staff \in [Staff -> StaffWork]
      <3>1. [stage : {"new"}, adult : Adults, seen : {"pending"}] \subseteq StaffWork
        BY DEF StaffWork
      <3> QED
        BY <3>1 DEF GuardiansInit
    <2> QED
      BY <2>1, <2>2, <2>3, <2>4 DEF GuardiansInit, GuardiansTypeOK
  <1>5. Holding /\ LoggedIn
    BY <1>2 DEF Holding, LoggedIn
  <1>6. StandingEarned
    <2>1. SelfAttested = {}
      BY <1>3 DEF SelfAttested
    <2> QED
      BY <2>1, LimitAssumption, FS_EmptySet DEF StandingEarned
  <1>7. CodesWorkOnce
    BY <1>1 DEF CodesWorkOnce
  <1>8. OnePrimaryContact
    BY <1>3 DEF OnePrimaryContact, Live
  <1> QED
    BY <1>4, <1>5, <1>6, <1>7, <1>8 DEF GuardiansInv

-----------------------------------------------------------------------------
(* Steps that leave the relationships alone *)

LEMMA SameRelations ==
  ASSUME UNCHANGED relation
  PROVE  /\ \A a : Others(a)' = Others(a)
         /\ StandingEarned => StandingEarned'
         /\ OnePrimaryContact => OnePrimaryContact'
  BY DEF Others, Live, StandingEarned, SelfAttested, OnePrimaryContact

LEMMA IssueKeeps ==
  ASSUME GuardiansInv, NEW c \in Codes, NEW k \in Contacts, NEW kind \in Kinds, NEW v \in BOOLEAN,
         Issue(c, k, kind, v)
  PROVE  GuardiansInv'
  <1> DEFINE new == [status |-> "pending", contact |-> k, kind |-> kind, verified |-> v]
             change(d) == CASE d = c -> new
                            [] invitation[d].status = "pending" /\ invitation[d].contact = k
                                 -> [invitation[d] EXCEPT !.status = "revoked"]
                            [] OTHER -> invitation[d]
  <1>1. /\ invitation[c].status = "unissued" /\ pupil = None
        /\ invitation' = [d \in Codes |-> change(d)]
        /\ UNCHANGED <<lapsed, relation, accounts, known, actors, claimedBy>>
    BY DEF Issue
  <1>2. ASSUME NEW d \in Codes
        PROVE  /\ invitation'[d] \in Invitation
               /\ d = c => invitation'[d].status = "pending" /\ invitation'[d].contact = k
               /\ d # c => /\ invitation'[d].contact = invitation[d].contact
                           /\ invitation'[d].status = IF invitation[d].status = "pending" /\ invitation[d].contact = k
                                                      THEN "revoked" ELSE invitation[d].status
    <2>1. invitation[d] \in Invitation /\ invitation'[d] = change(d)
      BY <1>1 DEF GuardiansInv, GuardiansTypeOK
    <2>2. CASE d = c
      <3>1. invitation'[d] = new
        BY <1>1, <2>1, <2>2
      <3> QED
        BY <2>2, <3>1 DEF Invitation
    <2>3. CASE d # c /\ invitation[d].status = "pending" /\ invitation[d].contact = k
      <3>1. invitation'[d] = [invitation[d] EXCEPT !.status = "revoked"]
        BY <2>1, <2>3
      <3> QED
        BY <2>1, <2>3, <3>1 DEF Invitation
    <2>4. CASE d # c /\ ~(invitation[d].status = "pending" /\ invitation[d].contact = k)
      BY <2>1, <2>4
    <2> QED
      BY <2>2, <2>3, <2>4
  <1>3. GuardiansTypeOK'
    BY <1>1, <1>2 DEF GuardiansInv, GuardiansTypeOK, actors
  <1>4. Holding' /\ LoggedIn'
    BY <1>1, NobodyAssumption DEF GuardiansInv, Holding, LoggedIn, actors
  <1>5. CodesWorkOnce'
    BY <1>1, <1>2 DEF GuardiansInv, CodesWorkOnce
  <1> QED
    BY <1>1, <1>3, <1>4, <1>5, SameRelations DEF GuardiansInv

LEMMA LapseKeeps == ASSUME GuardiansInv, NEW c \in Codes, Lapse(c) PROVE GuardiansInv'
  <1>1. lapsed' = lapsed \cup {c} /\ UNCHANGED <<invitation, relation, accounts, known, actors, claimedBy>>
    BY DEF Lapse
  <1>2. GuardiansTypeOK'
    BY <1>1 DEF GuardiansInv, GuardiansTypeOK, actors
  <1>3. Holding' /\ LoggedIn' /\ CodesWorkOnce'
    BY <1>1, SameRelations DEF GuardiansInv, Holding, LoggedIn, CodesWorkOnce, actors
  <1> QED
    BY <1>1, <1>2, <1>3, SameRelations DEF GuardiansInv

(* A step of a claim that neither takes nor gives back the pupil's row. *)
LEMMA ClaimStep ==
  ASSUME GuardiansInv, NEW p \in Claims, NEW s \in {"found", "account", "refused"},
         claim' = [claim EXCEPT ![p].stage = s], claim[p].stage # "locked",
         accounts' \in SUBSET Adults, accounts \subseteq accounts',
         s = "account" => claim[p].adult \in accounts',
         UNCHANGED <<invitation, lapsed, relation, known, pupil, counted, staff, claimedBy>>
  PROVE  GuardiansInv'
  <1>1. \A q \in Claims : /\ claim'[q].adult = claim[q].adult /\ claim'[q].code = claim[q].code
                          /\ claim'[q].stage = IF q = p THEN s ELSE claim[q].stage
    BY DEF GuardiansInv, GuardiansTypeOK, Claim
  <1>2. GuardiansTypeOK'
    <2>1. claim' \in [Claims -> Claim]
      BY DEF GuardiansInv, GuardiansTypeOK, Claim
    <2> QED
      BY <2>1 DEF GuardiansInv, GuardiansTypeOK
  <1>3. Holding'
    BY <1>1, SameRelations DEF GuardiansInv, Holding
  <1>4. LoggedIn' /\ CodesWorkOnce'
    BY <1>1 DEF GuardiansInv, LoggedIn, CodesWorkOnce
  <1> QED
    BY <1>2, <1>3, <1>4, SameRelations DEF GuardiansInv

LEMMA EarlyClaimKeeps ==
  ASSUME GuardiansInv, NEW p \in Claims, FindCode(p) \/ CreateAccount(p) \/ RefuseClaim(p) \/ LoseCode(p)
  PROVE  GuardiansInv'
  <1>1. known \subseteq accounts /\ accounts \in SUBSET Adults /\ claim[p].adult \in Adults
    BY DEF GuardiansInv, GuardiansTypeOK, Claim
  <1>2. CASE FindCode(p)
    <2>1. PICK s \in {"found", "account"} :
            claim' = [claim EXCEPT ![p].stage = s] /\ (s = "account" => claim[p].adult \in accounts)
      BY <1>1, <1>2 DEF FindCode
    <2> QED
      BY <1>1, <1>2, <2>1, ClaimStep DEF FindCode, rows
  <1>3. CASE CreateAccount(p)
    BY <1>1, <1>3, ClaimStep DEF CreateAccount
  <1>4. CASE RefuseClaim(p)
    BY <1>1, <1>4, ClaimStep DEF RefuseClaim, rows
  <1>5. CASE LoseCode(p)
    BY <1>1, <1>5, ClaimStep DEF LoseCode, rows
  <1> QED
    BY <1>2, <1>3, <1>4, <1>5

LEMMA LockAndCountKeeps == ASSUME GuardiansInv, NEW p \in Claims, LockAndCount(p) PROVE GuardiansInv'
  <1>1. /\ claim[p].stage = "account" /\ pupil = None /\ Claimable(claim[p].code)
        /\ pupil' = p /\ counted' = [counted EXCEPT ![p] = Cardinality(Others(claim[p].adult))]
        /\ claim' = [claim EXCEPT ![p].stage = "locked"]
        /\ UNCHANGED <<invitation, lapsed, relation, accounts, known, staff, claimedBy>>
    BY DEF LockAndCount, rows
  <1>2. \A q \in Claims : /\ claim'[q].adult = claim[q].adult /\ claim'[q].code = claim[q].code
                          /\ claim'[q].stage = IF q = p THEN "locked" ELSE claim[q].stage
    BY <1>1 DEF GuardiansInv, GuardiansTypeOK, Claim
  <1>3. Others(claim[p].adult) \in SUBSET Adults
    BY DEF Others
  <1>4. Cardinality(Others(claim[p].adult)) \in Nat
    BY <1>3, FewerAdults
  <1>5. GuardiansTypeOK'
    <2>1. claim' \in [Claims -> Claim]
      BY <1>1 DEF GuardiansInv, GuardiansTypeOK, Claim
    <2> QED
      BY <1>1, <1>4, <2>1 DEF GuardiansInv, GuardiansTypeOK
  <1>6. Holding'
    <2>1. counted'[p] = Cardinality(Others(claim[p].adult))
      BY <1>1 DEF GuardiansInv, GuardiansTypeOK
    <2>2. \A q \in Claims : claim[q].stage # "locked"
      BY <1>1, NobodyAssumption DEF GuardiansInv, Holding
    <2> QED
      BY <1>1, <1>2, <1>4, <2>1, <2>2, SameRelations DEF Holding, Claimable
  <1>7. LoggedIn' /\ CodesWorkOnce'
    BY <1>1, <1>2 DEF GuardiansInv, LoggedIn, CodesWorkOnce
  <1> QED
    BY <1>1, <1>5, <1>6, <1>7, SameRelations DEF GuardiansInv

LEMMA RollBackKeeps == ASSUME GuardiansInv, NEW p \in Claims, RollBack(p) PROVE GuardiansInv'
  <1>1. /\ claim[p].stage = "locked" /\ pupil' = None /\ claim' = [claim EXCEPT ![p].stage = "refused"]
        /\ UNCHANGED <<invitation, lapsed, relation, accounts, known, counted, staff, claimedBy>>
    BY DEF RollBack, rows
  <1>2. \A q \in Claims : /\ claim'[q].adult = claim[q].adult /\ claim'[q].code = claim[q].code
                          /\ claim'[q].stage = IF q = p THEN "refused" ELSE claim[q].stage
    BY <1>1 DEF GuardiansInv, GuardiansTypeOK, Claim
  <1>3. \A q \in Claims : claim'[q].stage # "locked"
    BY <1>1, <1>2 DEF GuardiansInv, Holding
  <1>4. GuardiansTypeOK'
    <2>1. claim' \in [Claims -> Claim]
      BY <1>1 DEF GuardiansInv, GuardiansTypeOK, Claim
    <2> QED
      BY <1>1, <2>1 DEF GuardiansInv, GuardiansTypeOK
  <1>5. Holding'
    BY <1>1, <1>3, NobodyAssumption DEF Holding
  <1>6. LoggedIn' /\ CodesWorkOnce'
    BY <1>1, <1>2 DEF GuardiansInv, LoggedIn, CodesWorkOnce
  <1> QED
    BY <1>1, <1>4, <1>5, <1>6, SameRelations DEF GuardiansInv

-----------------------------------------------------------------------------
(* The steps that change a relationship *)

LEMMA AttachKeeps == ASSUME GuardiansInv, NEW p \in Claims, Attach(p) PROVE GuardiansInv'
  <1> DEFINE a == claim[p].adult
             c == claim[p].code
             i == invitation[c]
             n == counted[p]
             status == IF NeedsStaff(i, n) /\ ~i.verified THEN "pending" ELSE "active"
  <1>1. /\ claim[p].stage = "locked"
        /\ relation' = [relation EXCEPT ![a] = [status |-> status, kind |-> i.kind,
                                                verified |-> i.verified, primary |-> n = 0]]
        /\ invitation' = [invitation EXCEPT ![c].status = "activated"]
        /\ known' = known \cup {a} /\ claimedBy' = [claimedBy EXCEPT ![c] = a]
        /\ claim' = [claim EXCEPT ![p].stage = "done"] /\ pupil' = None
        /\ UNCHANGED <<lapsed, accounts, counted, staff>>
    BY DEF Attach
  <1>2. /\ a \in Adults /\ c \in Codes /\ a \in accounts /\ n \in Nat /\ i \in Invitation
        /\ i.status = "pending" /\ Cardinality(Others(a)) <= n /\ claimedBy[c] = None
    <2>1. a \in Adults /\ c \in Codes /\ n \in Nat
      BY DEF GuardiansInv, GuardiansTypeOK, Claim
    <2>2. i \in Invitation
      BY <2>1 DEF GuardiansInv, GuardiansTypeOK
    <2>3. a \in accounts /\ i.status = "pending" /\ Cardinality(Others(a)) <= n
      BY <1>1 DEF GuardiansInv, LoggedIn, Holding
    <2> QED
      BY <2>1, <2>2, <2>3 DEF GuardiansInv, CodesWorkOnce
  <1>3. \A q \in Claims : /\ claim'[q].adult = claim[q].adult /\ claim'[q].code = claim[q].code
                          /\ claim'[q].stage = IF q = p THEN "done" ELSE claim[q].stage
    BY <1>1 DEF GuardiansInv, GuardiansTypeOK, Claim
  <1>4. /\ relation'[a].status = status /\ relation'[a].kind = i.kind
        /\ relation'[a].verified = i.verified /\ relation'[a].primary = (n = 0)
        /\ \A b \in Adults : b # a => relation'[b] = relation[b]
    BY <1>1, <1>2 DEF GuardiansInv, GuardiansTypeOK
  <1>5. \A d \in Codes : /\ invitation'[d].contact = invitation[d].contact
                         /\ invitation'[d].status = IF d = c THEN "activated" ELSE invitation[d].status
                         /\ claimedBy'[d] = IF d = c THEN a ELSE claimedBy[d]
    BY <1>1, <1>2 DEF GuardiansInv, GuardiansTypeOK, Invitation
  <1>6. GuardiansTypeOK'
    <2>1. relation' \in [Adults -> Relation]
      <3>1. status \in {"none", "pending", "active", "revoked"} /\ (n = 0) \in BOOLEAN
        OBVIOUS
      <3>2. i.kind \in Kinds /\ i.verified \in BOOLEAN
        BY <1>2 DEF Invitation
      <3>3. PICK r \in Relation : r = [status |-> status, kind |-> i.kind, verified |-> i.verified, primary |-> n = 0]
        BY <3>1, <3>2, Zenon DEF Relation
      <3>4. relation' = [relation EXCEPT ![a] = r]
        BY <1>1, <3>3
      <3> QED
        BY <3>4 DEF GuardiansInv, GuardiansTypeOK
    <2>2. claim' \in [Claims -> Claim]
      BY <1>1 DEF GuardiansInv, GuardiansTypeOK, Claim
    <2>3. invitation' \in [Codes -> Invitation]
      BY <1>1 DEF GuardiansInv, GuardiansTypeOK, Invitation
    <2> QED
      BY <1>1, <1>2, <2>1, <2>2, <2>3 DEF GuardiansInv, GuardiansTypeOK
  <1>7. Holding'
    <2>1. \A q \in Claims : claim'[q].stage # "locked"
      BY <1>1, <1>3 DEF GuardiansInv, Holding
    <2> QED
      BY <1>1, <2>1, NobodyAssumption DEF Holding
  <1>8. LoggedIn'
    BY <1>1, <1>3 DEF GuardiansInv, LoggedIn
  <1>9. CodesWorkOnce'
    <2>1. a # None
      BY <1>2, NobodyAssumption
    <2>2. \A d \in Codes : invitation'[d].status = "activated" <=> claimedBy'[d] # None
      BY <1>5, <2>1 DEF GuardiansInv, CodesWorkOnce
    <2>3. \A d \in Codes : claimedBy'[d] # None => claimedBy'[d] \in known'
      BY <1>1, <1>5 DEF GuardiansInv, CodesWorkOnce
    <2>4. \A d, e \in Codes : invitation'[d].status = "pending" /\ invitation'[e].status = "pending"
                                /\ invitation'[d].contact = invitation'[e].contact => d = e
      BY <1>5 DEF GuardiansInv, CodesWorkOnce
    <2> QED
      BY <2>2, <2>3, <2>4 DEF CodesWorkOnce
  <1>10. Others(a) \in SUBSET Adults
    BY DEF Others
  <1>11. OnePrimaryContact'
    <2>1. n = 0 => Others(a) = {}
      BY <1>2, <1>10, FewerAdults, NoAdults
    <2>2. ASSUME NEW b \in Adults, b # a, Live(b)' PROVE n # 0
      BY <1>4, <2>1, <2>2 DEF Others, Live
    <2>3. ASSUME NEW b \in Adults, NEW d \in Adults, Live(b)', Live(d)', relation'[b].primary, relation'[d].primary
          PROVE  b = d
      BY <1>4, <2>2, <2>3 DEF GuardiansInv, OnePrimaryContact, Live
    <2> QED
      BY <2>3 DEF OnePrimaryContact
  <1>12. StandingEarned'
    <2>1. CASE status = "active" /\ ~i.verified
      <3>1. i.kind # "contact" /\ n < Limit
        BY <1>2, <2>1, LimitAssumption DEF NeedsStaff
      <3>2. i.kind = "parent"
        BY <1>2, <3>1 DEF Invitation, Kinds
      <3>3. SelfAttested' \subseteq Others(a) \cup {a}
        BY <1>4 DEF SelfAttested, Others, Live
      <3>4. Cardinality(SelfAttested') <= Cardinality(Others(a) \cup {a})
        BY <1>2, <1>10, <3>3, FewerAdults
      <3>5. Cardinality(Others(a) \cup {a}) <= Cardinality(Others(a)) + 1
        BY <1>2, <1>10, OneMoreAdult
      <3>6. /\ Cardinality(SelfAttested') \in Nat /\ Cardinality(Others(a) \cup {a}) \in Nat
            /\ Cardinality(Others(a)) \in Nat
        BY <1>2, <1>10, <3>3, FewerAdults
      <3>7. Cardinality(SelfAttested') <= Limit
        BY <1>2, <3>1, <3>4, <3>5, <3>6, LimitAssumption
      <3>8. \A b \in SelfAttested' : relation'[b].kind = "parent"
        BY <1>4, <3>2 DEF GuardiansInv, StandingEarned, SelfAttested
      <3> QED
        BY <3>7, <3>8 DEF StandingEarned
    <2>2. CASE ~(status = "active" /\ ~i.verified)
      <3>1. SelfAttested' \subseteq SelfAttested /\ SelfAttested \in SUBSET Adults /\ a \notin SelfAttested'
        BY <1>4, <2>2 DEF SelfAttested
      <3>2. /\ Cardinality(SelfAttested') <= Cardinality(SelfAttested)
            /\ Cardinality(SelfAttested') \in Nat /\ Cardinality(SelfAttested) \in Nat
        BY <3>1, FewerAdults
      <3>3. Cardinality(SelfAttested') <= Limit
        BY <3>2, LimitAssumption DEF GuardiansInv, StandingEarned
      <3>4. \A b \in SelfAttested' : relation'[b].kind = "parent"
        BY <1>4, <3>1 DEF GuardiansInv, StandingEarned, SelfAttested
      <3> QED
        BY <3>3, <3>4 DEF StandingEarned
    <2> QED
      BY <2>1, <2>2
  <1> QED
    BY <1>6, <1>7, <1>8, <1>9, <1>11, <1>12 DEF GuardiansInv

(* A staff step brings nobody to life and makes nobody self-attested. *)
LEMMA StaffStep ==
  ASSUME GuardiansInv, relation' \in [Adults -> Relation], staff' \in [Staff -> StaffWork],
         \A a \in Adults : /\ Live(a)' => Live(a)
                           /\ relation'[a].primary = relation[a].primary
                           /\ relation'[a].kind = relation[a].kind
                           /\ a \in SelfAttested' => a \in SelfAttested,
         UNCHANGED <<invitation, lapsed, accounts, known, pupil, claim, counted, claimedBy>>
  PROVE  GuardiansInv'
  <1>1. GuardiansTypeOK'
    BY DEF GuardiansInv, GuardiansTypeOK
  <1>2. Holding'
    <2>1. ASSUME NEW p \in Claims, claim[p].stage = "locked", NEW a, a = claim[p].adult
          PROVE  Cardinality(Others(a)') <= counted[p]
      <3>1. Others(a) \in SUBSET Adults
        BY DEF Others
      <3>2. Others(a)' \in SUBSET Others(a)
        BY DEF Others
      <3>3. Cardinality(Others(a)) <= counted[p] /\ counted[p] \in Nat
        BY <2>1 DEF GuardiansInv, Holding, GuardiansTypeOK
      <3>4. /\ Cardinality(Others(a)') <= Cardinality(Others(a))
            /\ Cardinality(Others(a)') \in Nat /\ Cardinality(Others(a)) \in Nat
        BY <3>1, <3>2, FewerAdults
      <3> QED
        BY <3>3, <3>4
    <2>2. ASSUME NEW p \in Claims, claim[p].stage = "locked"
          PROVE  Cardinality(Others(claim[p].adult))' <= counted[p]
      <3>1. PICK a : a = claim[p].adult
        OBVIOUS
      <3>2. Others(claim[p].adult)' = Others(a)'
        BY <3>1 DEF Others
      <3> QED
        BY <2>1, <2>2, <3>1, <3>2
    <2> QED
      BY <2>2 DEF GuardiansInv, Holding
  <1>3. LoggedIn' /\ CodesWorkOnce'
    BY DEF GuardiansInv, LoggedIn, CodesWorkOnce
  <1>4. OnePrimaryContact'
    BY DEF GuardiansInv, OnePrimaryContact
  <1>5. StandingEarned'
    <2>1. SelfAttested \in SUBSET Adults /\ SelfAttested' \in SUBSET SelfAttested
      BY DEF SelfAttested
    <2>2. /\ Cardinality(SelfAttested') <= Cardinality(SelfAttested)
          /\ Cardinality(SelfAttested') \in Nat /\ Cardinality(SelfAttested) \in Nat
      BY <2>1, FewerAdults
    <2>3. Cardinality(SelfAttested') <= Limit
      BY <2>2, LimitAssumption DEF GuardiansInv, StandingEarned
    <2> QED
      BY <2>1, <2>3 DEF GuardiansInv, StandingEarned
  <1> QED
    BY <1>1, <1>2, <1>3, <1>4, <1>5 DEF GuardiansInv

LEMMA DecideKeeps == ASSUME GuardiansInv, NEW s \in Staff, Decide(s) PROVE GuardiansInv'
  <1>1. staff[s].adult \in Adults /\ staff[s].seen \in {"pending", "active", "revoked"}
    BY DEF GuardiansInv, GuardiansTypeOK, StaffWork
  <1>2. CASE LoadRelation(s)
    <2>1. relation[staff[s].adult].status \in {"pending", "active", "revoked"}
      BY <1>1, <1>2 DEF LoadRelation, GuardiansInv, GuardiansTypeOK, Relation
    <2>2. staff' \in [Staff -> StaffWork]
      BY <1>2, <2>1 DEF LoadRelation, GuardiansInv, GuardiansTypeOK, StaffWork
    <2> QED
      BY <1>2, <2>2, StaffStep DEF LoadRelation, rows, Live, SelfAttested, GuardiansInv, GuardiansTypeOK
  <1>3. CASE RefuseStaff(s)
    <2>1. staff' \in [Staff -> StaffWork]
      BY <1>3 DEF RefuseStaff, GuardiansInv, GuardiansTypeOK, StaffWork
    <2> QED
      BY <1>3, <2>1, StaffStep DEF RefuseStaff, rows, Live, SelfAttested, GuardiansInv, GuardiansTypeOK
  <1>4. ASSUME Verify(s) \/ Revoke(s)
        PROVE  staff' \in [Staff -> StaffWork]
    BY <1>4 DEF Verify, Revoke, GuardiansInv, GuardiansTypeOK, StaffWork
  <1>5. CASE Verify(s)
    <2>1. /\ relation[staff[s].adult].status \in {"pending", "active"}
          /\ relation' = [relation EXCEPT ![staff[s].adult].status = "active", ![staff[s].adult].verified = TRUE]
      BY <1>1, <1>5 DEF Verify
    <2>2. relation' \in [Adults -> Relation]
      BY <1>1, <2>1 DEF GuardiansInv, GuardiansTypeOK, Relation
    <2>3. \A a \in Adults : a # staff[s].adult => relation'[a] = relation[a]
      BY <2>1 DEF GuardiansInv, GuardiansTypeOK
    <2>4. /\ relation'[staff[s].adult].verified
          /\ relation'[staff[s].adult].primary = relation[staff[s].adult].primary
          /\ relation'[staff[s].adult].kind = relation[staff[s].adult].kind
      BY <1>1, <2>1 DEF GuardiansInv, GuardiansTypeOK, Relation
    <2> QED
      BY <1>4, <1>5, <2>1, <2>2, <2>3, <2>4, StaffStep DEF Verify, Live, SelfAttested
  <1>6. CASE Revoke(s)
    <2>1. relation' = [relation EXCEPT ![staff[s].adult].status = "revoked"]
      BY <1>6 DEF Revoke
    <2>2. relation' \in [Adults -> Relation]
      BY <1>1, <2>1 DEF GuardiansInv, GuardiansTypeOK, Relation
    <2>3. \A a \in Adults : a # staff[s].adult => relation'[a] = relation[a]
      BY <2>1 DEF GuardiansInv, GuardiansTypeOK
    <2>4. /\ relation'[staff[s].adult].status = "revoked"
          /\ relation'[staff[s].adult].primary = relation[staff[s].adult].primary
          /\ relation'[staff[s].adult].kind = relation[staff[s].adult].kind
      BY <1>1, <2>1 DEF GuardiansInv, GuardiansTypeOK, Relation
    <2> QED
      BY <1>4, <1>6, <2>2, <2>3, <2>4, StaffStep DEF Revoke, Live, SelfAttested
  <1> QED
    BY <1>2, <1>3, <1>5, <1>6 DEF Decide

LEMMA NextKeeps == GuardiansInv /\ [GuardiansNext]_gvars => GuardiansInv'
  <1> SUFFICES ASSUME GuardiansInv, [GuardiansNext]_gvars PROVE GuardiansInv'
    OBVIOUS
  <1>1. CASE UNCHANGED gvars
    <2>1. UNCHANGED <<invitation, lapsed, relation, accounts, known, pupil, claim, counted, staff, claimedBy>>
      BY <1>1 DEF gvars, rows, actors
    <2>2. GuardiansTypeOK' /\ Holding' /\ LoggedIn' /\ CodesWorkOnce'
      BY <2>1, SameRelations DEF GuardiansInv, GuardiansTypeOK, Holding, LoggedIn, CodesWorkOnce
    <2> QED
      BY <2>1, <2>2, SameRelations DEF GuardiansInv
  <1>2. CASE GuardiansNext
    BY <1>2, IssueKeeps, LapseKeeps, EarlyClaimKeeps, LockAndCountKeeps, AttachKeeps, RollBackKeeps, DecideKeeps
    DEF GuardiansNext, Redeem, Invite
  <1> QED
    BY <1>1, <1>2


-----------------------------------------------------------------------------
(* Every reachable state satisfies the inductive invariant. *)
THEOREM Invariance == GuardiansSpec => []GuardiansInv
  BY InitKeeps, NextKeeps, PTL DEF GuardiansSpec

(* Invitations, relationships, claims and staff requests have their types. *)
THEOREM TypeCorrect == GuardiansSpec => []GuardiansTypeOK
  BY Invariance, PTL DEF GuardiansInv

(* Never more than Limit relationships are active on their holders' own word,
   and none of a mere contact. *)
THEOREM StandingEarnedAlways == GuardiansSpec => []StandingEarned
  BY Invariance, PTL DEF GuardiansInv

(* A code is spent by one adult, who is a guardian, and a contact has one
   usable code. *)
THEOREM CodesWorkOnceAlways == GuardiansSpec => []CodesWorkOnce
  BY Invariance, PTL DEF GuardiansInv

(* A pupil has one primary contact among the live relationships. *)
THEOREM OnePrimaryContactAlways == GuardiansSpec => []OnePrimaryContact
  BY Invariance, PTL DEF GuardiansInv

(* The code a claim has locked was nobody's, and becomes its adult's. *)
LEMMA CodeTaken ==
  ASSUME GuardiansInv, NEW p \in Claims, Attach(p)
  PROVE  /\ claim[p].code \in Codes /\ claimedBy[claim[p].code] = None
         /\ claimedBy' = [claimedBy EXCEPT ![claim[p].code] = claim[p].adult]
         /\ claimedBy'[claim[p].code] = claim[p].adult
         /\ \A a \in Adults : a # claim[p].adult => relation'[a] = relation[a]
  <1>1. claim[p].code \in Codes /\ claim[p].adult \in Adults
    BY DEF GuardiansInv, GuardiansTypeOK, Claim
  <1>2. claim[p].stage = "locked" /\ claimedBy' = [claimedBy EXCEPT ![claim[p].code] = claim[p].adult]
    BY DEF Attach
  <1>3. claimedBy[claim[p].code] = None
    BY <1>1, <1>2 DEF GuardiansInv, Holding, CodesWorkOnce
  <1>4. \A a \in Adults : a # claim[p].adult => relation'[a] = relation[a]
    BY DEF Attach, GuardiansInv, GuardiansTypeOK
  <1> QED
    BY <1>1, <1>2, <1>3, <1>4 DEF GuardiansInv, GuardiansTypeOK

(* Only Attach spends a code; a relationship changes by Attach or by staff. *)
LEMMA WhoChanges ==
  ASSUME [GuardiansNext]_gvars
  PROVE  /\ (\E p \in Claims : Attach(p)) \/ UNCHANGED claimedBy
         /\ (\E p \in Claims : Attach(p)) \/ (\E s \in Staff : Verify(s) \/ Revoke(s)) \/ UNCHANGED relation
  BY DEF GuardiansNext, Redeem, Decide, Invite, Issue, Lapse, FindCode, CreateAccount, RefuseClaim, LockAndCount,
         LoseCode, RollBack, LoadRelation, Verify, Revoke, RefuseStaff, rows, actors, gvars

(* A code is spent by one adult for ever. *)
THEOREM NeverClaimedTwiceAlways == GuardiansSpec => NeverClaimedTwice
  <1>1. ASSUME GuardiansInv, [GuardiansNext]_gvars
        PROVE  [\A c \in Codes : claimedBy[c] # None => claimedBy'[c] = claimedBy[c]]_gvars
    <2>1. CASE \E p \in Claims : Attach(p)
      <3>1. PICK p \in Claims : Attach(p)
        BY <2>1
      <3>2. \A c \in Codes : claimedBy[c] # None => claimedBy'[c] = claimedBy[c]
        BY <1>1, <3>1, CodeTaken DEF GuardiansInv, GuardiansTypeOK
      <3> QED
        BY <3>2
    <2>2. CASE UNCHANGED claimedBy
      BY <2>2
    <2> QED
      BY <1>1, <2>1, <2>2, WhoChanges
  <1> QED
    BY <1>1, Invariance, PTL DEF GuardiansSpec, NeverClaimedTwice

(* Nothing but a claimed code revives a revoked relationship. *)
THEOREM RevivedByCodeOnlyAlways == GuardiansSpec => RevivedByCodeOnly
  <1>1. ASSUME GuardiansInv, [GuardiansNext]_gvars
        PROVE  [\A a \in Adults : relation[a].status = "revoked" /\ relation'[a].status # "revoked"
                  => \E c \in Codes : claimedBy[c] = None /\ claimedBy'[c] = a]_gvars
    <2> SUFFICES ASSUME NEW a \in Adults, relation[a].status = "revoked", relation'[a].status # "revoked"
                 PROVE  \E c \in Codes : claimedBy[c] = None /\ claimedBy'[c] = a
      OBVIOUS
    <2>1. CASE \E p \in Claims : Attach(p)
      <3>1. PICK p \in Claims : Attach(p)
        BY <2>1
      <3>2. a = claim[p].adult
        BY <1>1, <3>1, CodeTaken
      <3> QED
        BY <1>1, <3>1, <3>2, CodeTaken
    <2>2. CASE \E s \in Staff : Verify(s) \/ Revoke(s)
      <3>1. PICK s \in Staff : Verify(s) \/ Revoke(s)
        BY <2>2
      <3>2. a = staff[s].adult
        BY <1>1, <3>1 DEF Verify, Revoke, GuardiansInv, GuardiansTypeOK
      <3>3. CASE Verify(s)
        BY <3>2, <3>3 DEF Verify
      <3>4. CASE Revoke(s)
        BY <1>1, <3>2, <3>4 DEF Revoke, GuardiansInv, GuardiansTypeOK, Relation
      <3> QED
        BY <3>1, <3>3, <3>4
    <2>3. CASE UNCHANGED relation
      BY <2>3
    <2> QED
      BY <1>1, <2>1, <2>2, <2>3, WhoChanges
  <1> QED
    BY <1>1, Invariance, PTL DEF GuardiansSpec, RevivedByCodeOnly
-----------------------------------------------------------------------------
(* Imports: the inductive invariant. *)

(* An import is known before its job, the job before its deliveries, and only
   a known import has created students. *)
JobsKnown ==
  /\ \A i \in Imports : imp[i].status = "absent" =>
       i \notin enqueued /\ \A n \in DOMAIN source : source[n] # i
  /\ \A w \in Deliveries : work[w].stage # "idle" =>
       w[1] \in enqueued /\ w[2] <= delivered[w[1]]

(* Where a delivery has the rows of its file: each is to do, being enrolled,
   imported, or in error, and those imported it has created and enrolled. *)
RowsKept(w) ==
  /\ work[w].todo \cup work[w].ok \cup work[w].errors
       \cup (IF At(w, "enroll") THEN work[w].row ELSE {}) = file[w[1]]
  /\ work[w].ok \cap work[w].errors = {}
  /\ work[w].todo \cap (work[w].ok \cup work[w].errors) = {}
  /\ w[1] \in dry => work[w].todo = {}
  /\ w[1] \notin dry => \A n \in work[w].ok :
       n \in DOMAIN source /\ source[n] = w[1] /\ (n \in Enrolling => n \in enrolled)

(* A row that is being enrolled is a student the delivery has created. *)
HalfDone(w) ==
  /\ work[w].row \cap (work[w].ok \cup work[w].errors) = {}
  /\ w[1] \notin dry
  /\ \A n \in work[w].row :
       n \in DOMAIN source /\ source[n] = w[1] /\ n \in Enrolling /\ n \notin enrolled

Working == \A w \in Deliveries :
  /\ work[w].stage \in {"rows", "enroll", "progress"} => RowsKept(w)
  /\ At(w, "enroll") => HalfDone(w)

(* No row is enrolled by two deliveries. *)
OneEnrolls == \A v, w \in Deliveries :
  At(v, "enroll") /\ At(w, "enroll") /\ v # w => work[v].row \cap work[w].row = {}

(* The students of an import are in a report, each with what became of it. *)
Told(i, ok, errors) ==
  \A n \in DOMAIN source : source[n] = i =>
    IF n \in Enrolling /\ n \notin enrolled THEN n \in errors ELSE n \in ok

NoStudents(i) == \A n \in DOMAIN source : source[n] # i

NotDelivered(i) ==
  imp[i].status \in {"absent", "pending"} /\ audits[i] = 0 /\ NoStudents(i)

DeliveredOnce(i) ==
  LET w == <<i, 1>> IN
  /\ work[w].stage # "idle"
  /\ work[w].stage \in {"read", "marked"} => NoStudents(i)
  /\ At(w, "read") => imp[i].status = "pending"
  /\ work[w].stage \in {"marked", "rows", "enroll", "progress"} => imp[i].status = "running"
  /\ work[w].stage \notin {"acknowledged", "dead"} => audits[i] = 0
  /\ work[w].stage \in {"rows", "progress"} => Told(i, work[w].ok, work[w].errors)
  /\ At(w, "enroll") => Told(i, work[w].ok, work[w].errors \cup work[w].row)
  /\ At(w, "finished") => imp[i].status = "completed"
  /\ At(w, "acknowledged") => imp[i].status = "completed" /\ audits[i] = 1
  /\ At(w, "thrown") => imp[i].status = "failed"
  /\ imp[i].status = "completed" =>
       imp[i].processed = file[i] /\ Told(i, imp[i].ok, imp[i].errors)

FirstDeliveries == \A i \in Imports :
  /\ delivered[i] = 0 => NotDelivered(i)
  /\ delivered[i] = 1 => DeliveredOnce(i)

AllImports ==
  /\ ImportsInv /\ ImportedRowsAreThere
  /\ JobsKnown /\ Working /\ OneEnrolls /\ FirstDeliveries

-----------------------------------------------------------------------------
(* What the steps change. *)

LEMMA DeliveryOf ==
  /\ \A w \in Deliveries : /\ w[1] \in Imports /\ w[2] \in 1 .. MaxDeliveries[w[1]]
                           /\ w = <<w[1], w[2]>>
  /\ \A i \in Imports : MaxDeliveries[i] \in Nat \ {0}
  /\ \A i \in Imports, d \in Nat : d >= 1 /\ d <= MaxDeliveries[i] => <<i, d>> \in Deliveries
  BY ImportsAssumption DEF Deliveries

LEMMA ToChanges ==
  ASSUME ImportsTypeOK, NEW w \in Deliveries, NEW stage \in {"idle"} \cup Running \cup Ended,
         To(w, stage)
  PROVE  /\ work' \in [Deliveries -> Delivery]
         /\ \A v \in Deliveries \ {w} : work'[v] = work[v]
         /\ work'[w].stage = stage /\ work'[w].todo = work[w].todo /\ work'[w].row = work[w].row
         /\ work'[w].ok = work[w].ok /\ work'[w].errors = work[w].errors
  <1>1. work \in [Deliveries -> Delivery]
    BY DEF ImportsTypeOK
  <1>2. work' = [work EXCEPT ![w] = [work[w] EXCEPT !.stage = stage]]
    BY Zenon DEF To
  <1>3. [work[w] EXCEPT !.stage = stage] \in Delivery
    BY <1>1 DEF Delivery
  <1>4. work'[w] = [work[w] EXCEPT !.stage = stage]
    BY <1>1, <1>2
  <1> QED
    BY <1>1, <1>2, <1>3, <1>4 DEF Delivery

LEMMA TriedChanges ==
  ASSUME ImportsTypeOK, NEW w \in Deliveries, NEW stage \in Running,
         NEW row \in SUBSET Numbers, NEW ok \in SUBSET Numbers, NEW errors \in SUBSET Numbers,
         Tried(w, row, stage, ok, errors)
  PROVE  /\ work' \in [Deliveries -> Delivery]
         /\ \A v \in Deliveries \ {w} : work'[v] = work[v]
         /\ work'[w].stage = stage /\ work'[w].todo = work[w].todo \ row /\ work'[w].row = row
         /\ work'[w].ok = work[w].ok \cup ok /\ work'[w].errors = work[w].errors \cup errors
  BY DEF ImportsTypeOK, Tried, Delivery

(* The row of an import, as another status or count replaces it. *)
LEMMA ImportChanges ==
  ASSUME ImportsTypeOK, NEW i \in Imports
  PROVE  /\ \A s \in {"pending", "running"} : imp' = [imp EXCEPT ![i].status = s] =>
              /\ imp' \in [Imports -> Import]
              /\ \A j \in Imports \ {i} : imp'[j] = imp[j]
              /\ imp'[i].status = s /\ imp'[i].ok = imp[i].ok
              /\ imp'[i].errors = imp[i].errors /\ imp'[i].processed = imp[i].processed
         /\ \A some \in SUBSET Numbers : imp' = [imp EXCEPT ![i].processed = some] =>
              /\ imp' \in [Imports -> Import]
              /\ \A j \in Imports \ {i} : imp'[j] = imp[j]
              /\ imp'[i].status = imp[i].status /\ imp'[i].ok = imp[i].ok
              /\ imp'[i].errors = imp[i].errors
  <1>1. imp \in [Imports -> Import]
    BY DEF ImportsTypeOK
  <1>2. ASSUME NEW s \in {"pending", "running"}, imp' = [imp EXCEPT ![i].status = s]
        PROVE  /\ imp' \in [Imports -> Import]
               /\ \A j \in Imports \ {i} : imp'[j] = imp[j]
               /\ imp'[i].status = s /\ imp'[i].ok = imp[i].ok
               /\ imp'[i].errors = imp[i].errors /\ imp'[i].processed = imp[i].processed
    <2>1. imp' = [imp EXCEPT ![i] = [imp[i] EXCEPT !.status = s]]
      BY <1>2, Zenon
    <2>2. [imp[i] EXCEPT !.status = s] \in Import
      BY <1>1 DEF Import
    <2>3. imp'[i] = [imp[i] EXCEPT !.status = s]
      BY <1>1, <2>1
    <2> QED
      BY <1>1, <2>1, <2>2, <2>3 DEF Import
  <1>3. ASSUME NEW some \in SUBSET Numbers, imp' = [imp EXCEPT ![i].processed = some]
        PROVE  /\ imp' \in [Imports -> Import]
               /\ \A j \in Imports \ {i} : imp'[j] = imp[j]
               /\ imp'[i].status = imp[i].status /\ imp'[i].ok = imp[i].ok
               /\ imp'[i].errors = imp[i].errors
    <2>1. imp' = [imp EXCEPT ![i] = [imp[i] EXCEPT !.processed = some]]
      BY <1>3, Zenon
    <2>2. [imp[i] EXCEPT !.processed = some] \in Import
      BY <1>1 DEF Import
    <2>3. imp'[i] = [imp[i] EXCEPT !.processed = some]
      BY <1>1, <2>1
    <2> QED
      BY <1>1, <2>1, <2>2, <2>3 DEF Import
  <1> QED
    BY <1>2, <1>3

LEMMA AllImportsInit == Init => AllImports
  <1> SUFFICES ASSUME Init PROVE AllImports
    OBVIOUS
  <1>1. \A w \in Deliveries : work[w].stage = "idle"
    BY DEF Init, Idle
  <1>2. ImportsTypeOK
    BY ImportsAssumption DEF Init, ImportsTypeOK, Idle, Delivery, Import, Running, Ended
  <1>3. \A i \in Imports : NotDelivered(i) /\ delivered[i] = 0 /\ imp[i].ok = {}
                           /\ imp[i].status = "absent" /\ dry = {} /\ enqueued = {}
    BY ImportsAssumption DEF Init, NotDelivered, NoStudents
  <1>4. JobsKnown /\ Working /\ OneEnrolls /\ FirstDeliveries
    BY <1>1, <1>3 DEF JobsKnown, Working, OneEnrolls, FirstDeliveries, At, NotDelivered, NoStudents
  <1> QED
    BY <1>2, <1>3, <1>4
    DEF Init, AllImports, ImportsInv, EveryRowAccounted, DryRunsWriteNothing, ImportedRowsAreThere

-----------------------------------------------------------------------------
(* What one delivery does leaves the others' rows and the other imports. *)

LEMMA OnlyDelivery ==
  ASSUME AllImports, NEW w \in Deliveries, work[w].stage # "idle"
  PROVE  /\ delivered[w[1]] \in Nat \ {0}
         /\ delivered[w[1]] = 1 => w = <<w[1], 1>>
  <1>1. w[1] \in Imports /\ w[2] \in Nat \ {0} /\ w = <<w[1], w[2]>>
    BY DeliveryOf
  <1>2. w[2] <= delivered[w[1]] /\ delivered[w[1]] \in Nat
    BY <1>1 DEF AllImports, JobsKnown, ImportsInv, ImportsTypeOK
  <1> QED
    BY <1>1, <1>2

LEMMA OtherImports ==
  ASSUME AllImports, NEW w \in Deliveries, work[w].stage # "idle",
         \A v \in Deliveries \ {w} : work'[v] = work[v],
         \A j \in Imports \ {w[1]} : /\ imp'[j] = imp[j] /\ audits'[j] = audits[j]
                                     /\ file'[j] = file[j],
         UNCHANGED delivered,
         \A n \in DOMAIN source' : source'[n] # w[1] => n \in DOMAIN source /\ source'[n] = source[n],
         \A n \in DOMAIN source : n \in DOMAIN source' /\ source'[n] = source[n],
         \A n \in enrolled : n \in enrolled',
         \A n \in enrolled' \ enrolled : n \in DOMAIN source /\ source[n] = w[1],
         delivered[w[1]] = 1 => DeliveredOnce(w[1])'
  PROVE  FirstDeliveries'
  <1>1. delivered[w[1]] \in Nat \ {0} /\ w[1] \in Imports
    BY OnlyDelivery, DeliveryOf
  <1>2. ASSUME NEW j \in Imports \ {w[1]}, delivered[j] = 0 PROVE NotDelivered(j)'
    BY <1>2 DEF AllImports, FirstDeliveries, NotDelivered, NoStudents
  <1>3. ASSUME NEW j \in Imports \ {w[1]}, delivered[j] = 1 PROVE DeliveredOnce(j)'
    <2>1. <<j, 1>> \in Deliveries \ {w}
      BY DeliveryOf
    <2>2. /\ work'[<<j, 1>>] = work[<<j, 1>>] /\ imp'[j] = imp[j] /\ audits'[j] = audits[j]
          /\ file'[j] = file[j]
      BY <2>1
    <2>3. NoStudents(j) => NoStudents(j)'
      BY DEF NoStudents
    <2>4. \A ok, errors : Told(j, ok, errors) => Told(j, ok, errors)'
      BY DEF Told
    <2>5. DeliveredOnce(j)
      BY <1>3 DEF AllImports, FirstDeliveries
    <2> QED
      BY <2>2, <2>3, <2>4, <2>5 DEF DeliveredOnce, At
  <1> QED
    BY <1>1, <1>2, <1>3 DEF FirstDeliveries

LEMMA OtherWork ==
  ASSUME AllImports, NEW w \in Deliveries,
         \A v \in Deliveries \ {w} : work'[v] = work[v],
         UNCHANGED <<file, dry>>,
         \A n \in DOMAIN source : n \in DOMAIN source' /\ source'[n] = source[n],
         \A n \in enrolled : n \in enrolled',
         \A v \in Deliveries \ {w} : At(v, "enroll") => work[v].row \cap (enrolled' \ enrolled) = {},
         work'[w].stage \in {"rows", "enroll", "progress"} => RowsKept(w)',
         At(w, "enroll")' => HalfDone(w)'
  PROVE  Working'
  <1>1. ASSUME NEW v \in Deliveries \ {w}, work[v].stage \in {"rows", "enroll", "progress"}
        PROVE  RowsKept(v)'
    <2>1. RowsKept(v)
      BY <1>1 DEF AllImports, Working
    <2> QED
      BY <2>1 DEF RowsKept, At
  <1>2. ASSUME NEW v \in Deliveries \ {w}, At(v, "enroll")
        PROVE  HalfDone(v)'
    <2>1. HalfDone(v)
      BY <1>2 DEF AllImports, Working
    <2> QED
      BY <1>2, <2>1 DEF HalfDone
  <1> QED
    BY <1>1, <1>2 DEF Working, At

(* A step that only moves a delivery on from stage to stage. *)
LEMMA OnwardKept ==
  ASSUME AllImports, NEW w \in Deliveries, work[w].stage # "idle",
         NEW stage \in {"marked", "rows", "finished", "failing"} \cup Ended,
         To(w, stage), stage = "rows" => At(w, "progress"),
         UNCHANGED <<students, file, dry, queue>>,
         \A i \in Imports : imp'[i].status = "absent" => imp[i].status = "absent"
  PROVE  JobsKnown' /\ Working' /\ OneEnrolls' /\ DryRunsWriteNothing'
  <1>1. /\ \A v \in Deliveries \ {w} : work'[v] = work[v]
        /\ work'[w].stage = stage /\ work'[w].todo = work[w].todo
        /\ work'[w].ok = work[w].ok /\ work'[w].errors = work[w].errors
        /\ stage \notin {"idle", "enroll", "progress"}
    BY ToChanges DEF AllImports, ImportsInv, Running, Ended
  <1>2. JobsKnown'
    BY <1>1 DEF AllImports, JobsKnown, students, queue
  <1>3. stage = "rows" => RowsKept(w)'
    BY <1>1 DEF AllImports, Working, RowsKept, At, students
  <1>4. Working'
    BY <1>1, <1>3, OtherWork DEF At, students
  <1>5. OneEnrolls'
    BY <1>1 DEF AllImports, OneEnrolls, At
  <1> QED
    BY <1>2, <1>4, <1>5 DEF AllImports, ImportsInv, DryRunsWriteNothing, students

(* Each of these steps moves one delivery on and writes its import's row. *)
LEMMA OnwardInv ==
  ASSUME AllImports, NEW w \in Deliveries,
         \/ MarkRunning(w) \/ Progress(w) \/ Finish(w) \/ Audit(w) \/ FinishFailed(w)
         \/ Throw(w) \/ Die(w)
  PROVE  AllImports'
  <1> DEFINE i == w[1]
  <1>1. /\ ImportsTypeOK /\ i \in Imports /\ work[w] \in Delivery /\ imp[i] \in Import
        /\ UNCHANGED <<students, file, dry, queue>>
    BY DeliveryOf
    DEF AllImports, ImportsInv, ImportsTypeOK, MarkRunning, Progress, Finish, Audit,
        FinishFailed, Throw, Die, students, queue
  <1>2. PICK stage \in {"marked", "rows", "finished", "failing"} \cup Ended :
          To(w, stage) /\ (stage = "rows" => At(w, "progress"))
    BY DEF MarkRunning, Progress, Finish, Audit, FinishFailed, Throw, Die, Ended
  <1>3. work[w].stage # "idle"
    BY DEF MarkRunning, Progress, Finish, Audit, FinishFailed, Throw, Die, At, Running
  <1>4. /\ work' \in [Deliveries -> Delivery]
        /\ \A v \in Deliveries \ {w} : work'[v] = work[v]
        /\ work'[w].stage = stage /\ work'[w].todo = work[w].todo
        /\ work'[w].ok = work[w].ok /\ work'[w].errors = work[w].errors
    BY <1>1, <1>2, ToChanges DEF Running, Ended
  (* The row of the import. *)
  <1>5. ASSUME MarkRunning(w)
        PROVE  /\ imp' \in [Imports -> Import] /\ \A j \in Imports \ {i} : imp'[j] = imp[j]
               /\ imp'[i].status = "running" /\ imp'[i].ok = imp[i].ok
               /\ imp'[i].errors = imp[i].errors /\ UNCHANGED <<audits, faults>>
               /\ At(w, "read") /\ At(w, "marked")'
    BY <1>1, <1>4, <1>5, ImportChanges, ToChanges DEF MarkRunning, At, Running
  <1>6. ASSUME Progress(w)
        PROVE  /\ imp' \in [Imports -> Import] /\ \A j \in Imports \ {i} : imp'[j] = imp[j]
               /\ imp'[i].status = imp[i].status /\ imp'[i].ok = imp[i].ok
               /\ imp'[i].errors = imp[i].errors /\ UNCHANGED <<audits, faults>>
               /\ At(w, "progress") /\ At(w, "rows")'
    <2> DEFINE some == work[w].ok \cup work[w].errors
    <2>1. some \in SUBSET Numbers
      BY <1>1 DEF Delivery
    <2>2. imp' = [imp EXCEPT ![i].processed = some]
      BY <1>6 DEF Progress
    <2> HIDE DEF some
    <2>3. /\ imp' \in [Imports -> Import] /\ \A j \in Imports \ {i} : imp'[j] = imp[j]
          /\ imp'[i].status = imp[i].status /\ imp'[i].ok = imp[i].ok
          /\ imp'[i].errors = imp[i].errors
      BY <1>1, <2>1, <2>2, ImportChanges
    <2> QED
      BY <1>1, <1>6, <2>3, ToChanges DEF Progress, At, Running
  <1>7. ASSUME Finish(w)
        PROVE  /\ imp' \in [Imports -> Import] /\ \A j \in Imports \ {i} : imp'[j] = imp[j]
               /\ imp'[i].status = "completed" /\ imp'[i].ok = work[w].ok
               /\ imp'[i].errors = work[w].errors /\ imp'[i].processed = file[i]
               /\ UNCHANGED <<audits, faults>>
               /\ At(w, "rows") /\ work[w].todo = {} /\ At(w, "finished")'
    BY <1>1, <1>4, <1>7, ToChanges DEF Finish, At, Running, Import, Delivery, ImportsTypeOK
  <1>8. ASSUME FinishFailed(w)
        PROVE  /\ imp' \in [Imports -> Import] /\ \A j \in Imports \ {i} : imp'[j] = imp[j]
               /\ imp'[i].status = "failed" /\ imp'[i].ok = {} /\ imp'[i].errors = {}
               /\ UNCHANGED <<audits, faults>>
               /\ At(w, "failing") /\ At(w, "thrown")'
    BY <1>1, <1>4, <1>8, ToChanges DEF FinishFailed, At, Ended, Import, ImportsTypeOK
  <1>9. ASSUME Audit(w)
        PROVE  /\ UNCHANGED <<imp, faults>> /\ audits' = [audits EXCEPT ![i] = @ + 1]
               /\ At(w, "finished") /\ At(w, "acknowledged")'
    BY <1>1, <1>4, <1>9, ToChanges DEF Audit, At, Ended
  <1>10. ASSUME Throw(w)
         PROVE  /\ UNCHANGED <<imp, audits>> /\ faults' \in 0 .. MaxFaults
                /\ work[w].stage \in {"marked", "progress", "finished", "rows"}
                /\ At(w, "failing")'
    BY <1>1, <1>4, <1>10, ToChanges, ImportsAssumption DEF Throw, At, Running, ImportsTypeOK
  <1>11. ASSUME Die(w)
         PROVE  UNCHANGED <<imp, audits>> /\ faults' \in 0 .. MaxFaults /\ At(w, "dead")'
    BY <1>1, <1>4, <1>11, ToChanges, ImportsAssumption DEF Die, At, Ended, ImportsTypeOK
  (* The invariant. *)
  <1>12. ImportsTypeOK'
    <2>1. imp' \in [Imports -> Import] /\ audits' \in [Imports -> Nat] /\ faults' \in 0 .. MaxFaults
      BY <1>1, <1>5, <1>6, <1>7, <1>8, <1>9, <1>10, <1>11 DEF ImportsTypeOK
    <2> QED
      BY <1>1, <1>4, <2>1 DEF ImportsTypeOK, students, queue
  <1>13. \A j \in Imports : imp'[j].status = "absent" => imp[j].status = "absent"
    BY <1>5, <1>6, <1>7, <1>8, <1>9, <1>10, <1>11
  <1>14. JobsKnown' /\ Working' /\ OneEnrolls' /\ DryRunsWriteNothing'
    BY <1>1, <1>2, <1>3, <1>13, OnwardKept
  <1>15. Finish(w) => RowsKept(w) /\ ~At(w, "enroll")
    BY <1>7 DEF AllImports, Working, At
  <1>16. EveryRowAccounted'
    <2>1. EveryRowAccounted /\ file' = file
      BY <1>1 DEF AllImports, ImportsInv
    <2>2. Finish(w) => work[w].ok \cup work[w].errors = file[i] /\ work[w].ok \cap work[w].errors = {}
      BY <1>7, <1>15 DEF RowsKept
    <2> QED
      BY <1>5, <1>6, <1>7, <1>8, <1>9, <1>10, <1>11, <2>1, <2>2 DEF EveryRowAccounted
  <1>17. ImportedRowsAreThere'
    <2>1. ImportedRowsAreThere /\ UNCHANGED <<source, enrolled, dry>>
      BY <1>1 DEF AllImports, students
    <2>2. Finish(w) => (i \notin dry => \A n \in work[w].ok :
                          n \in DOMAIN source /\ source[n] = i /\ (n \in Enrolling => n \in enrolled))
      BY <1>15 DEF RowsKept
    <2> QED
      BY <1>5, <1>6, <1>7, <1>8, <1>9, <1>10, <1>11, <2>1, <2>2 DEF ImportedRowsAreThere
  <1>18. FirstDeliveries'
    <2>1. \A j \in Imports \ {i} : imp'[j] = imp[j] /\ audits'[j] = audits[j] /\ file'[j] = file[j]
      BY <1>1, <1>5, <1>6, <1>7, <1>8, <1>9, <1>10, <1>11 DEF ImportsTypeOK
    <2>2. ASSUME delivered[i] = 1 PROVE DeliveredOnce(i)'
      <3>1. w = <<i, 1>> /\ DeliveredOnce(i)
        BY <1>1, <1>3, <2>2, OnlyDelivery DEF AllImports, FirstDeliveries
      <3>2. /\ NoStudents(i)' <=> NoStudents(i)
            /\ \A ok, errors : Told(i, ok, errors)' <=> Told(i, ok, errors)
        BY <1>1 DEF NoStudents, Told, students
      <3>3. file' = file /\ audits[i] \in Nat
        BY <1>1 DEF ImportsTypeOK
      <3>4. CASE MarkRunning(w)
        BY <1>4, <1>5, <3>1, <3>2, <3>3, <3>4 DEF DeliveredOnce, At
      <3>5. CASE Progress(w)
        BY <1>4, <1>6, <3>1, <3>2, <3>3, <3>5 DEF DeliveredOnce, At
      <3>6. CASE Finish(w)
        BY <1>4, <1>7, <3>1, <3>2, <3>3, <3>6 DEF DeliveredOnce, At
      <3>7. CASE FinishFailed(w)
        BY <1>4, <1>8, <3>1, <3>2, <3>3, <3>7 DEF DeliveredOnce, At
      <3>8. CASE Audit(w)
        BY <1>1, <1>4, <1>9, <3>1, <3>2, <3>3, <3>8 DEF DeliveredOnce, At, ImportsTypeOK
      <3>9. CASE Throw(w)
        BY <1>4, <1>10, <3>1, <3>2, <3>3, <3>9 DEF DeliveredOnce, At
      <3>10. CASE Die(w)
        BY <1>4, <1>11, <3>1, <3>2, <3>3, <3>10 DEF DeliveredOnce, At
      <3> QED
        BY <3>4, <3>5, <3>6, <3>7, <3>8, <3>9, <3>10
    <2>3. source' = source /\ enrolled' = enrolled /\ delivered' = delivered
      BY <1>1 DEF students, queue
    <2>4. /\ \A n \in DOMAIN source' : source'[n] # w[1] =>
               n \in DOMAIN source /\ source'[n] = source[n]
          /\ \A n \in DOMAIN source : n \in DOMAIN source' /\ source'[n] = source[n]
          /\ \A n \in enrolled : n \in enrolled'
          /\ \A n \in enrolled' \ enrolled : n \in DOMAIN source /\ source[n] = w[1]
      BY <2>3
    <2>5. \A v \in Deliveries \ {w} : work'[v] = work[v]
      BY <1>4
    <2> QED
      BY ONLY AllImports, w \in Deliveries, <1>3, <2>1, <2>2, <2>3, <2>4, <2>5, OtherImports
  <1> QED
    BY <1>12, <1>14, <1>16, <1>17, <1>18 DEF AllImports, ImportsInv

(* A request makes an import known; it has done nothing yet. *)
LEMMA RequestInv ==
  ASSUME AllImports, NEW i \in Imports, Create(i) \/ Enqueue(i)
  PROVE  AllImports'
  <1>1. ImportsTypeOK /\ UNCHANGED <<source, enrolled, delivered, work, audits, faults>>
    BY DEF AllImports, ImportsInv, Create, Enqueue, students, queue
  <1>2. /\ imp' \in [Imports -> Import] /\ \A j \in Imports \ {i} : imp'[j] = imp[j]
        /\ imp'[i].status = "pending" /\ imp'[i].ok = imp[i].ok
        /\ imp'[i].errors = imp[i].errors
        /\ imp[i].status \in {"absent", "pending"}
    <2>1. CASE Create(i)
      BY <1>1, <2>1, ImportChanges DEF Create
    <2>2. CASE Enqueue(i)
      BY <1>1, <2>2 DEF Enqueue, ImportsTypeOK
    <2> QED
      BY <2>1, <2>2
  <1>3. /\ file' \in [Imports -> SUBSET Numbers] /\ dry' \in SUBSET Imports
        /\ \A j \in Imports \ {i} : file'[j] = file[j] /\ (j \in dry' <=> j \in dry)
        /\ dry \subseteq dry' /\ enqueued' \in SUBSET Imports
        /\ enqueued \subseteq enqueued' /\ enqueued' \subseteq enqueued \cup {i}
    BY <1>1 DEF Create, Enqueue, students, queue, ImportsTypeOK
  <1>4. Create(i) => NoStudents(i) /\ \A w \in Deliveries : w[1] = i => work[w].stage = "idle"
    BY DEF Create, AllImports, JobsKnown, NoStudents
  <1>5. Enqueue(i) => file' = file /\ dry' = dry
    BY DEF Enqueue
  <1>6. ImportsTypeOK'
    BY <1>1, <1>2, <1>3 DEF ImportsTypeOK
  <1>7. JobsKnown'
    BY <1>1, <1>2, <1>3 DEF AllImports, JobsKnown
  <1>8. ASSUME NEW w \in Deliveries, work[w].stage # "idle"
        PROVE  file'[w[1]] = file[w[1]] /\ (w[1] \in dry' <=> w[1] \in dry)
    BY <1>3, <1>4, <1>5, <1>8, DeliveryOf
  <1>9. Working'
    <2>1. ASSUME NEW w \in Deliveries, work[w].stage \in {"rows", "enroll", "progress"}
          PROVE  RowsKept(w)' /\ (At(w, "enroll") => HalfDone(w)')
      BY <1>1, <1>8, <2>1 DEF AllImports, Working, RowsKept, HalfDone, At
    <2> QED
      BY <1>1, <2>1 DEF Working, At
  <1>10. OneEnrolls'
    BY <1>1 DEF AllImports, OneEnrolls, At
  <1>11. EveryRowAccounted' /\ ImportedRowsAreThere'
    BY <1>1, <1>2, <1>3
    DEF AllImports, ImportsInv, EveryRowAccounted, ImportedRowsAreThere
  <1>12. DryRunsWriteNothing'
    BY <1>1, <1>3, <1>4, <1>5 DEF AllImports, ImportsInv, DryRunsWriteNothing, ImportsTypeOK,
       NoStudents
  <1>13. FirstDeliveries'
    <2>1. ASSUME NEW j \in Imports, delivered[j] = 0 PROVE NotDelivered(j)'
      BY <1>1, <1>2, <2>1 DEF AllImports, FirstDeliveries, NotDelivered, NoStudents
    <2>2. ASSUME NEW j \in Imports, delivered[j] = 1 PROVE DeliveredOnce(j)'
      <3>1. DeliveredOnce(j) /\ <<j, 1>> \in Deliveries
        BY <2>2, DeliveryOf DEF AllImports, FirstDeliveries
      <3>2. file'[j] = file[j]
        BY <1>8, <3>1 DEF DeliveredOnce
      <3>3. /\ imp'[j].status = imp[j].status
            /\ imp'[j].ok = imp[j].ok /\ imp'[j].errors = imp[j].errors
            /\ imp'[j].status = "completed" => imp'[j].processed = imp[j].processed
        <4>1. Create(i) => j # i
          BY <1>4, <3>1 DEF DeliveredOnce
        <4>2. Enqueue(i) => imp' = imp
          BY DEF Enqueue
        <4> QED
          BY <1>2, <4>1, <4>2
      <3> QED
        BY <1>1, <3>1, <3>2, <3>3 DEF DeliveredOnce, Told, NoStudents, At
    <2> QED
      BY <1>1, <2>1, <2>2 DEF FirstDeliveries
  <1> QED
    BY <1>6, <1>7, <1>9, <1>10, <1>11, <1>12, <1>13 DEF AllImports, ImportsInv

(* The first delivery finds what the request left; later ones are not told
   apart any more. *)
LEMMA DeliverInv ==
  ASSUME AllImports, NEW i \in Imports, Deliver(i)
  PROVE  AllImports'
  <1> DEFINE d == delivered[i] + 1
             w == <<i, d>>
  <1>1. /\ ImportsTypeOK /\ d \in Nat \ {0} /\ d <= MaxDeliveries[i] /\ i \in enqueued
        /\ delivered' = [delivered EXCEPT ![i] = d]
        /\ UNCHANGED <<source, enrolled, file, dry, imp, enqueued, audits, faults>>
    BY DEF AllImports, ImportsInv, ImportsTypeOK, Deliver, students
  <1>2. w \in Deliveries /\ w[1] = i /\ w[2] = d
    BY <1>1, DeliveryOf
  <1>3. PICK stage \in {"acknowledged", "read"} :
          To(w, stage) /\ (imp[i].status # "completed" => stage = "read")
    BY DEF Deliver, To
  <1>4. /\ work' \in [Deliveries -> Delivery] /\ work'[w].stage = stage
        /\ \A v \in Deliveries \ {w} : work'[v] = work[v]
    BY <1>1, <1>2, <1>3, ToChanges DEF Running, Ended
  <1> HIDE DEF w
  <1>5. ImportsTypeOK'
    BY <1>1, <1>4 DEF ImportsTypeOK
  <1>6. delivered'[i] = d /\ \A j \in Imports \ {i} : delivered'[j] = delivered[j]
    BY <1>1 DEF ImportsTypeOK
  <1>7. JobsKnown'
    <2>1. \A j \in Imports : delivered'[j] \in Nat /\ delivered[j] \in Nat /\ delivered[j] <= delivered'[j]
      BY <1>1, <1>6 DEF ImportsTypeOK
    <2>2. ASSUME NEW v \in Deliveries, work'[v].stage # "idle"
          PROVE  v[1] \in enqueued' /\ v[2] <= delivered'[v[1]]
      <3>1. CASE v = w
        BY <1>1, <1>2, <1>6, <3>1
      <3>2. CASE v # w
        <4>1. v[1] \in enqueued /\ v[2] <= delivered[v[1]] /\ v[1] \in Imports /\ v[2] \in Nat
          BY <1>4, <2>2, <3>2, DeliveryOf DEF AllImports, JobsKnown
        <4> QED
          BY <1>1, <2>1, <4>1
      <3> QED
        BY <3>1, <3>2
    <2> QED
      BY <1>1, <2>2 DEF AllImports, JobsKnown
  <1>8. Working' /\ OneEnrolls'
    <2>1. ASSUME NEW v \in Deliveries, work'[v].stage \in {"rows", "enroll", "progress"}
          PROVE  RowsKept(v)' /\ (At(v, "enroll")' => HalfDone(v)')
      BY <1>1, <1>4, <2>1 DEF AllImports, Working, RowsKept, HalfDone, At
    <2> QED
      BY <1>4, <2>1 DEF AllImports, Working, OneEnrolls, At
  <1>9. EveryRowAccounted' /\ ImportedRowsAreThere' /\ DryRunsWriteNothing'
    BY <1>1 DEF AllImports, ImportsInv, EveryRowAccounted, ImportedRowsAreThere, DryRunsWriteNothing
  <1>10. FirstDeliveries'
    <2>1. ASSUME NEW j \in Imports \ {i}
          PROVE  /\ delivered'[j] = 0 => NotDelivered(j)'
                 /\ delivered'[j] = 1 => DeliveredOnce(j)'
      <3>1. <<j, 1>> \in Deliveries \ {w}
        BY <1>2, DeliveryOf DEF w
      <3>2. work'[<<j, 1>>] = work[<<j, 1>>] /\ delivered'[j] = delivered[j]
        BY <1>4, <1>6, <3>1
      <3>3. /\ delivered[j] = 0 => NotDelivered(j)
            /\ delivered[j] = 1 => DeliveredOnce(j)
        BY DEF AllImports, FirstDeliveries
      <3> QED
        BY <1>1, <3>2, <3>3 DEF NotDelivered, DeliveredOnce, Told, NoStudents, At
    <2>2. ASSUME d = 1 PROVE DeliveredOnce(i)'
      <3>1. delivered[i] = 0
        BY <1>1, <2>2 DEF ImportsTypeOK
      <3>2. NotDelivered(i) /\ imp[i].status # "absent"
        BY <1>1, <3>1 DEF AllImports, FirstDeliveries, JobsKnown
      <3>3. imp[i].status = "pending" /\ audits[i] = 0 /\ NoStudents(i) /\ stage = "read"
        BY <1>3, <3>2 DEF NotDelivered
      <3>4. work'[<<i, 1>>].stage = "read"
        BY <1>4, <2>2, <3>3 DEF w
      <3> QED
        BY <1>1, <3>3, <3>4 DEF DeliveredOnce, At, NoStudents
    <2> QED
      BY <1>1, <1>6, <2>1, <2>2 DEF FirstDeliveries
  <1> QED
    BY <1>5, <1>7, <1>8, <1>9, <1>10 DEF AllImports, ImportsInv

(* The check of the file: the rows are sorted into those to do and those in
   error, or, in a dry run, those that could be done. *)
LEMMA CheckInv ==
  ASSUME AllImports, NEW w \in Deliveries, Check(w)
  PROVE  AllImports'
  <1> DEFINE i == w[1]
             existing == file[i] \cap DOMAIN source
             applicable == file[i] \ existing
  <1>1. /\ ImportsTypeOK /\ i \in Imports /\ file[i] \in SUBSET Numbers /\ At(w, "marked")
        /\ UNCHANGED <<source, enrolled, file, dry, imp, enqueued, delivered, audits, faults>>
    BY DeliveryOf DEF AllImports, ImportsInv, ImportsTypeOK, Check, students, queue
  <1>2. /\ work' \in [Deliveries -> Delivery]
        /\ \A v \in Deliveries \ {w} : work'[v] = work[v]
        /\ work'[w] = [stage |-> "rows", row |-> {}, errors |-> existing,
                       todo |-> IF i \in dry THEN {} ELSE applicable,
                       ok   |-> IF i \in dry THEN applicable ELSE {}]
    BY <1>1 DEF Check, ImportsTypeOK, Delivery, Running
  <1>3. ImportsTypeOK'
    BY <1>1, <1>2 DEF ImportsTypeOK
  <1>4. JobsKnown' /\ OneEnrolls'
    BY <1>1, <1>2 DEF AllImports, JobsKnown, OneEnrolls, At
  <1>5. RowsKept(w)' /\ ~ At(w, "enroll")'
    BY <1>1, <1>2 DEF RowsKept, At
  <1>6. Working'
    BY <1>1, <1>2, <1>5, OtherWork
  <1>7. EveryRowAccounted' /\ ImportedRowsAreThere' /\ DryRunsWriteNothing'
    BY <1>1 DEF AllImports, ImportsInv, EveryRowAccounted, ImportedRowsAreThere, DryRunsWriteNothing
  <1>8. FirstDeliveries'
    <2>1. ASSUME delivered[i] = 1 PROVE DeliveredOnce(i)'
      <3>1. w = <<i, 1>> /\ DeliveredOnce(i)
        BY <1>1, <2>1, OnlyDelivery DEF AllImports, FirstDeliveries, At
      <3>2. NoStudents(i) /\ imp[i].status = "running" /\ audits[i] = 0
        BY <1>1, <3>1 DEF DeliveredOnce, At
      <3>3. work'[<<i, 1>>].stage = "rows"
        BY <1>2, <3>1
      <3> QED
        BY <1>1, <3>2, <3>3 DEF DeliveredOnce, At, NoStudents, Told
    <2>2. work[w].stage # "idle"
      BY <1>1 DEF At
    <2> QED
      BY <1>1, <1>2, <2>1, <2>2, OtherImports
  <1> QED
    BY <1>3, <1>4, <1>6, <1>7, <1>8 DEF AllImports, ImportsInv

(* A row that is tried: what is left to show of each way it can end. *)
LEMMA TriedInv ==
  ASSUME AllImports, NEW w \in Deliveries, work[w].stage \in {"rows", "enroll"},
         NEW row \in SUBSET Numbers, NEW stage \in {"enroll", "progress"},
         NEW ok \in SUBSET Numbers, NEW errors \in SUBSET Numbers,
         Tried(w, row, stage, ok, errors), faults' \in 0 .. MaxFaults,
         UNCHANGED <<file, dry, imp, enqueued, delivered, audits>>,
         \A n \in DOMAIN source : n \in DOMAIN source' /\ source'[n] = source[n],
         \A n \in DOMAIN source' \ DOMAIN source : n \in Numbers /\ source'[n] = w[1] /\ w[1] \notin dry,
         \A n \in enrolled : n \in enrolled',
         \A n \in enrolled' \ enrolled : n \in DOMAIN source /\ source[n] = w[1],
         \A v \in Deliveries \ {w} : At(v, "enroll") =>
           /\ work[v].row \cap (enrolled' \ enrolled) = {}
           /\ stage = "enroll" => work[v].row \cap row = {},
         RowsKept(w)', stage = "enroll" => HalfDone(w)',
         delivered[w[1]] = 1 => DeliveredOnce(w[1])'
  PROVE  AllImports'
  <1>1. ImportsTypeOK /\ w[1] \in Imports
    BY DeliveryOf DEF AllImports, ImportsInv
  <1>2. /\ work' \in [Deliveries -> Delivery]
        /\ \A v \in Deliveries \ {w} : work'[v] = work[v]
        /\ work'[w].stage = stage /\ work'[w].row = row
    BY <1>1, TriedChanges DEF Running
  <1>3. ImportsTypeOK'
    <2>1. DOMAIN source' \subseteq Numbers /\ \A n \in DOMAIN source' : source'[n] \in Imports \cup {Nobody}
      BY <1>1 DEF ImportsTypeOK
    <2>2. enrolled' \subseteq DOMAIN source'
      BY <1>1 DEF ImportsTypeOK
    <2> QED
      BY <1>1, <1>2, <2>1, <2>2 DEF ImportsTypeOK
  <1>4. JobsKnown'
    <2>1. w[1] \in enqueued /\ imp[w[1]].status # "absent"
      BY <1>1 DEF AllImports, JobsKnown
    <2> QED
      BY <1>1, <1>2, <2>1 DEF AllImports, JobsKnown
  <1>5. OneEnrolls'
    BY <1>2 DEF AllImports, OneEnrolls, At
  <1>6. Working'
    BY <1>2, OtherWork DEF At
  <1>7. EveryRowAccounted' /\ ImportedRowsAreThere'
    BY DEF AllImports, ImportsInv, EveryRowAccounted, ImportedRowsAreThere
  <1>8. DryRunsWriteNothing'
    BY DEF AllImports, ImportsInv, DryRunsWriteNothing
  <1>9. FirstDeliveries'
    <2>1. \A n \in DOMAIN source' : source'[n] # w[1] => n \in DOMAIN source /\ source'[n] = source[n]
      OBVIOUS
    <2> QED
      BY <1>2, <2>1, OtherImports
  <1> QED
    BY <1>3, <1>4, <1>5, <1>6, <1>7, <1>8, <1>9 DEF AllImports, ImportsInv

(* What a delivery is known to have when it tries a row. *)
LEMMA BeforeRow ==
  ASSUME AllImports, NEW w \in Deliveries, work[w].stage \in {"rows", "enroll"}
  PROVE  /\ ImportsTypeOK /\ w[1] \in Imports /\ RowsKept(w)
         /\ work[w].row \in SUBSET Numbers
         /\ At(w, "enroll") => HalfDone(w)
         /\ \A v \in Deliveries : At(v, "enroll") => work[v].row \subseteq DOMAIN source
         /\ delivered[w[1]] = 1 => w = <<w[1], 1>> /\ DeliveredOnce(w[1])
  <1>1. w[1] \in Imports /\ ImportsTypeOK /\ RowsKept(w) /\ (At(w, "enroll") => HalfDone(w))
    BY DeliveryOf DEF AllImports, ImportsInv, Working
  <1>2. \A v \in Deliveries : At(v, "enroll") => work[v].row \subseteq DOMAIN source
    BY DEF AllImports, Working, HalfDone
  <1>3. delivered[w[1]] = 1 => w = <<w[1], 1>> /\ DeliveredOnce(w[1])
    BY <1>1, OnlyDelivery DEF AllImports, FirstDeliveries
  <1>4. work[w].row \in SUBSET Numbers
    BY <1>1 DEF ImportsTypeOK, Delivery
  <1> QED
    BY <1>1, <1>2, <1>3, <1>4

(* A row in error: its number is taken, or the insertion failed. *)
LEMMA RowErrorInv ==
  ASSUME AllImports, NEW w \in Deliveries, NEW n \in work[w].todo, n \in Numbers,
         At(w, "rows"), Tried(w, {n}, "progress", {}, {n}), faults' \in 0 .. MaxFaults,
         UNCHANGED <<source, enrolled, file, dry, imp, enqueued, delivered, audits>>
  PROVE  AllImports'
  <1> DEFINE i == w[1]
  <1>1. /\ ImportsTypeOK /\ i \in Imports /\ RowsKept(w)
        /\ delivered[i] = 1 => w = <<i, 1>> /\ DeliveredOnce(i)
    BY BeforeRow DEF At
  <1>2. work'[w] = [stage |-> "progress", todo |-> work[w].todo \ {n}, row |-> {n},
                    ok |-> work[w].ok \cup {}, errors |-> work[w].errors \cup {n}]
    BY <1>1 DEF Tried, ImportsTypeOK
  <1>3. RowsKept(w)'
    BY <1>1, <1>2 DEF RowsKept, At
  <1>4. delivered[i] = 1 => DeliveredOnce(i)'
    BY <1>1, <1>2 DEF DeliveredOnce, At, Told
  <1> QED
    BY <1>3, <1>4, TriedInv DEF At

(* A row whose student is created. *)
LEMMA CreatedInv ==
  ASSUME AllImports, NEW w \in Deliveries, NEW n \in work[w].todo, n \in Numbers,
         At(w, "rows"), n \notin DOMAIN source, Add(n, w[1]),
         IF n \in Enrolling THEN Tried(w, {n}, "enroll", {}, {})
                            ELSE Tried(w, {n}, "progress", {n}, {}),
         UNCHANGED <<enrolled, file, dry, imp, enqueued, delivered, audits, faults>>
  PROVE  AllImports'
  <1> DEFINE i == w[1]
  <1>1. /\ ImportsTypeOK /\ i \in Imports /\ RowsKept(w) /\ i \notin dry
        /\ delivered[i] = 1 => w = <<i, 1>> /\ DeliveredOnce(i)
        /\ \A v \in Deliveries : At(v, "enroll") => work[v].row \subseteq DOMAIN source
        /\ n \notin enrolled /\ faults \in 0 .. MaxFaults
    BY BeforeRow DEF At, RowsKept, ImportsTypeOK
  <1>2. /\ DOMAIN source' = DOMAIN source \cup {n} /\ source'[n] = i
        /\ \A m \in DOMAIN source : m \in DOMAIN source' /\ source'[m] = source[m]
        /\ \A m \in DOMAIN source' \ DOMAIN source : m \in Numbers /\ source'[m] = i /\ i \notin dry
    BY <1>1 DEF Add
  <1>3. /\ faults' \in 0 .. MaxFaults
        /\ work[w].stage \in {"rows", "enroll"} /\ {n} \in SUBSET Numbers /\ {} \in SUBSET Numbers
        /\ \A m \in enrolled : m \in enrolled'
        /\ \A m \in enrolled' \ enrolled : m \in DOMAIN source /\ source[m] = w[1]
        /\ \A v \in Deliveries \ {w} : At(v, "enroll") =>
             work[v].row \cap (enrolled' \ enrolled) = {} /\ work[v].row \cap {n} = {}
        /\ UNCHANGED <<file, dry, imp, enqueued, delivered, audits>>
    BY <1>1 DEF At
  <1>4. CASE n \in Enrolling
    <2>1. /\ Tried(w, {n}, "enroll", {}, {})
          /\ work'[w] = [stage |-> "enroll", todo |-> work[w].todo \ {n}, row |-> {n},
                         ok |-> work[w].ok \cup {}, errors |-> work[w].errors \cup {}]
      BY <1>1, <1>4 DEF Tried, ImportsTypeOK
    <2>2. RowsKept(w)' /\ HalfDone(w)'
      BY <1>1, <1>2, <1>4, <2>1 DEF RowsKept, HalfDone, At
    <2>3. delivered[i] = 1 => DeliveredOnce(i)'
      BY <1>1, <1>2, <1>4, <2>1 DEF DeliveredOnce, At, Told
    <2> QED
      BY <1>3, <1>1, <1>2, <2>1, <2>2, <2>3, TriedInv
  <1>5. CASE n \notin Enrolling
    <2>1. /\ Tried(w, {n}, "progress", {n}, {})
          /\ work'[w] = [stage |-> "progress", todo |-> work[w].todo \ {n}, row |-> {n},
                         ok |-> work[w].ok \cup {n}, errors |-> work[w].errors \cup {}]
      BY <1>1, <1>5 DEF Tried, ImportsTypeOK
    <2>2. RowsKept(w)'
      BY <1>1, <1>2, <1>5, <2>1 DEF RowsKept, At
    <2>3. delivered[i] = 1 => DeliveredOnce(i)'
      BY <1>1, <1>2, <1>5, <2>1 DEF DeliveredOnce, At, Told
    <2> QED
      BY <1>3, <1>1, <1>2, <2>1, <2>2, <2>3, TriedInv
  <1> QED
    BY <1>4, <1>5

(* The enrollment of the student just created, or its failure. *)
LEMMA EnrolledInv ==
  ASSUME AllImports, NEW w \in Deliveries, Enroll(w)
  PROVE  AllImports'
  <1> DEFINE i == w[1]
             row == work[w].row
  <1>1. /\ ImportsTypeOK /\ i \in Imports /\ RowsKept(w) /\ HalfDone(w) /\ row \in SUBSET Numbers
        /\ delivered[i] = 1 => w = <<i, 1>> /\ DeliveredOnce(i)
        /\ At(w, "enroll") /\ faults \in 0 .. MaxFaults
    BY BeforeRow DEF At, Enroll, ImportsTypeOK
  <1>2. work'[w] = [stage |-> "progress", todo |-> work[w].todo \ row, row |-> row,
                    ok |-> work[w].ok \cup row, errors |-> work[w].errors \cup {}]
    BY <1>1 DEF Enroll, Tried, ImportsTypeOK
  <1>3. /\ enrolled' = enrolled \cup row
        /\ UNCHANGED <<source, file, dry, imp, enqueued, delivered, audits, faults>>
    BY DEF Enroll, queue
  <1>4. RowsKept(w)'
    BY <1>1, <1>2, <1>3 DEF RowsKept, HalfDone, At
  <1>5. delivered[i] = 1 => DeliveredOnce(i)'
    BY <1>1, <1>2, <1>3 DEF DeliveredOnce, HalfDone, At, Told
  <1>6. /\ \A v \in Deliveries \ {w} : At(v, "enroll") => work[v].row \cap (enrolled' \ enrolled) = {}
        /\ \A n \in enrolled' \ enrolled : n \in DOMAIN source /\ source[n] = i
    BY <1>1, <1>3 DEF AllImports, OneEnrolls, HalfDone
  <1>7. Tried(w, row, "progress", row, {})
    BY DEF Enroll
  <1> HIDE DEF row
  <1> QED
    BY <1>1, <1>3, <1>4, <1>5, <1>6, <1>7, TriedInv DEF At

LEMMA NotEnrolledInv ==
  ASSUME AllImports, NEW w \in Deliveries, EnrollFails(w)
  PROVE  AllImports'
  <1> DEFINE i == w[1]
             row == work[w].row
  <1>1. /\ ImportsTypeOK /\ i \in Imports /\ RowsKept(w) /\ HalfDone(w) /\ row \in SUBSET Numbers
        /\ delivered[i] = 1 => w = <<i, 1>> /\ DeliveredOnce(i)
        /\ At(w, "enroll") /\ faults' \in 0 .. MaxFaults
    BY BeforeRow, ImportsAssumption DEF At, EnrollFails, ImportsTypeOK
  <1>2. work'[w] = [stage |-> "progress", todo |-> work[w].todo \ row, row |-> row,
                    ok |-> work[w].ok \cup {}, errors |-> work[w].errors \cup row]
    BY <1>1 DEF EnrollFails, Tried, ImportsTypeOK
  <1>3. UNCHANGED <<source, enrolled, file, dry, imp, enqueued, delivered, audits>>
    BY DEF EnrollFails, students, queue
  <1>4. RowsKept(w)'
    BY <1>1, <1>2, <1>3 DEF RowsKept, HalfDone, At
  <1>5. delivered[i] = 1 => DeliveredOnce(i)'
    BY <1>1, <1>2, <1>3 DEF DeliveredOnce, At, Told
  <1>6. Tried(w, row, "progress", {}, row)
    BY DEF EnrollFails
  <1> HIDE DEF row
  <1> QED
    BY <1>1, <1>3, <1>4, <1>5, <1>6, TriedInv DEF At

LEMMA RowInv ==
  ASSUME AllImports, NEW w \in Deliveries, NEW n \in Numbers, Insert(w, n) \/ InsertFails(w, n)
  PROVE  AllImports'
  <1>1. At(w, "rows") /\ n \in work[w].todo /\ ImportsTypeOK
    BY DEF Insert, InsertFails, AllImports, ImportsInv
  <1>2. CASE InsertFails(w, n) \/ (Insert(w, n) /\ n \in DOMAIN source)
    <2>1. faults' \in 0 .. MaxFaults /\ Tried(w, {n}, "progress", {}, {n})
      BY <1>1, <1>2, ImportsAssumption DEF Insert, InsertFails, ImportsTypeOK
    <2>2. UNCHANGED <<source, enrolled, file, dry, imp, enqueued, delivered, audits>>
      BY <1>2 DEF Insert, InsertFails, students, queue
    <2> QED
      BY <1>1, <2>1, <2>2, RowErrorInv
  <1>3. CASE Insert(w, n) /\ n \notin DOMAIN source
    <2>1. /\ Add(n, w[1])
          /\ IF n \in Enrolling THEN Tried(w, {n}, "enroll", {}, {})
                                ELSE Tried(w, {n}, "progress", {n}, {})
          /\ UNCHANGED <<enrolled, file, dry, imp, enqueued, delivered, audits, faults>>
      BY <1>3 DEF Insert, queue
    <2> QED
      BY <1>1, <1>3, <2>1, CreatedInv
  <1>4. CASE InsertFails(w, n)
    BY <1>2, <1>4
  <1>5. CASE Insert(w, n)
    <2>1. CASE n \in DOMAIN source
      BY <1>2, <1>5, <2>1
    <2>2. CASE n \notin DOMAIN source
      BY <1>3, <1>5, <2>2
    <2> QED
      BY <2>1, <2>2
  <1> QED
    BY <1>4, <1>5

LEMMA AllImportsNext == AllImports /\ [Next]_vars => AllImports'
  <1> SUFFICES ASSUME AllImports, [Next]_vars PROVE AllImports'
    OBVIOUS
  <1>1. ASSUME NEW i \in Imports, Create(i) \/ Enqueue(i) \/ Deliver(i) PROVE AllImports'
    BY <1>1, RequestInv, DeliverInv
  <1>2. ASSUME NEW w \in Deliveries,
               \/ Process(w) \/ (\E n \in Numbers : InsertFails(w, n)) \/ EnrollFails(w)
               \/ Throw(w) \/ Die(w)
        PROVE  AllImports'
    BY <1>2, OnwardInv, CheckInv, RowInv, EnrolledInv, NotEnrolledInv DEF Process
  <1>3. CASE UNCHANGED vars
    BY <1>3
    DEF vars, students, queue, AllImports, ImportsInv, ImportsTypeOK, EveryRowAccounted,
        DryRunsWriteNothing, ImportedRowsAreThere, JobsKnown, Working, RowsKept, HalfDone,
        OneEnrolls, FirstDeliveries, NotDelivered, DeliveredOnce, NoStudents, Told, At
  <1> QED
    BY <1>1, <1>2, <1>3 DEF Next

(* Imports, deliveries and faults in any number and order: the invariant
   holds in every state. *)
THEOREM ImportsInvariance == Spec => []AllImports
  <1> QED
    BY AllImportsInit, AllImportsNext, PTL DEF Spec

(* A completed import accounts for every row once, and dry runs write nothing
   (processStudents, processTeachers, ImportService.run). *)
THEOREM ImportsInvAlways == Spec => []ImportsInv
  <1>1. AllImports => ImportsInv
    BY DEF AllImports
  <1> QED
    BY <1>1, ImportsInvariance, PTL

(* What a report counts as imported is there, created by that import and
   enrolled, whoever raced it for the same admission number (createStudent). *)
THEOREM ImportedRowsAreThereAlways == Spec => []ImportedRowsAreThere
  <1>1. AllImports => ImportedRowsAreThere
    BY DEF AllImports
  <1> QED
    BY <1>1, ImportsInvariance, PTL

(* While its job was delivered once, an import's status, audit entry and
   report tell everything it did (ImportService.run). *)
THEOREM SingleDeliveryTellsAllAlways == Spec => []SingleDeliveryTellsAll
  <1>1. AllImports => SingleDeliveryTellsAll
    <2> SUFFICES ASSUME AllImports, NEW i \in Imports, delivered[i] = 1
                 PROVE  /\ At(<<i, 1>>, "acknowledged") => imp[i].status = "completed" /\ audits[i] = 1
                        /\ At(<<i, 1>>, "thrown") => imp[i].status = "failed" /\ audits[i] = 0
                        /\ imp[i].status = "completed" =>
                             /\ imp[i].processed = file[i]
                             /\ \A n \in DOMAIN source : source[n] = i =>
                                  n \in (IF n \in Enrolling \ enrolled THEN imp[i].errors ELSE imp[i].ok)
      BY DEF SingleDeliveryTellsAll
    <2>1. DeliveredOnce(i)
      BY DEF AllImports, FirstDeliveries
    <2> QED
      BY <2>1 DEF DeliveredOnce, Told, At
  <1> QED
    BY <1>1, ImportsInvariance, PTL
=============================================================================
