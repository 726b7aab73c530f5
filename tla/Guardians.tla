----------------------------- MODULE Guardians ------------------------------
(***************************************************************************)
(* The adults linked to ONE pupil: invitations issued by staff, codes       *)
(* claimed by adults, relationships verified and revoked by staff.          *)
(*                                                                          *)
(* Issuing and claiming lock the pupil's row, so those transactions exclude *)
(* each other; verifying and revoking do not take the lock, and decide on a *)
(* relationship they read earlier.  A claim is a lookup of the code outside *)
(* any transaction, the lock with the count of live relationships, and the  *)
(* write; an adult without a login gets one between lookup and lock.        *)
(***************************************************************************)
EXTENDS Integers, FiniteSets

CONSTANTS
  Codes,       \* invitation codes, each issued once
  Contacts,    \* phone numbers and addresses codes are sent to
  Adults,      \* identity accounts of adults, existing or new
  Claims,      \* requests to activate or redeem a code
  Staff,       \* requests to verify or revoke a relationship
  Limit,       \* GUARDIAN_SELF_ATTESTED_LIMIT
  None

ASSUME LimitAssumption == Limit \in Nat
ASSUME NobodyAssumption == None \notin Claims \cup Adults \cup Codes
ASSUME PeopleAssumption == IsFiniteSet(Adults) /\ Contacts # {}

VARIABLES
  invitation,  \* ppl_guardian_invitations
  lapsed,      \* the codes past their 72 hours
  relation,    \* ppl_student_guardians of the pupil, by adult
  accounts,    \* adults who have a guardian login
  known,       \* adults with a ppl_guardians row
  pupil,       \* the claim holding the lock of the pupil's row
  claim,       \* how far a claim has come
  counted,     \* the live relationships a claim counted under the lock
  staff,       \* how far a staff request has come
  claimedBy    \* history: the adult a code was spent by

rows    == <<invitation, lapsed, relation, accounts, known>>
actors  == <<pupil, claim, counted, staff>>
gvars   == <<rows, actors, claimedBy>>

Kinds      == {"parent", "contact"}
Invitation == [status : {"unissued", "pending", "activated", "revoked"},
               contact : Contacts, kind : Kinds, verified : BOOLEAN]
Relation   == [status : {"none", "pending", "active", "revoked"},
               kind : Kinds, verified : BOOLEAN, primary : BOOLEAN]
Claim      == [stage : {"new", "found", "account", "locked", "refused", "done"},
               adult : Adults, code : Codes]
StaffWork  == [stage : {"new", "read", "refused", "done"}, adult : Adults,
               seen : {"pending", "active", "revoked"}]

GuardiansTypeOK ==
  /\ invitation \in [Codes -> Invitation]
  /\ lapsed \in SUBSET Codes
  /\ relation \in [Adults -> Relation]
  /\ accounts \in SUBSET Adults /\ known \in SUBSET accounts
  /\ pupil \in Claims \cup {None}
  /\ claim \in [Claims -> Claim]
  /\ counted \in [Claims -> Nat]
  /\ staff \in [Staff -> StaffWork]
  /\ claimedBy \in [Codes -> Adults \cup {None}]

Live(a)   == relation[a].status \in {"pending", "active"}
Others(a) == {b \in Adults \ {a} : Live(b)}

GuardiansInit ==
  /\ invitation \in [Codes -> {[status |-> "unissued", contact |-> k, kind |-> "parent",
                                verified |-> FALSE] : k \in {CHOOSE c \in Contacts : TRUE}}]
  /\ lapsed = {}
  /\ relation = [a \in Adults |-> [status |-> "none", kind |-> "parent",
                                   verified |-> FALSE, primary |-> FALSE]]
  /\ accounts = {} /\ known = {}
  /\ pupil = None
  /\ claim \in [Claims -> [stage : {"new"}, adult : Adults, code : Codes]]
  /\ counted = [p \in Claims |-> 0]
  /\ staff \in [Staff -> [stage : {"new"}, adult : Adults, seen : {"pending"}]]
  /\ claimedBy = [c \in Codes |-> None]

-----------------------------------------------------------------------------
(* Invitations *)

(* Mutation: the earlier code of the contact stays usable. *)
IssueBeside(c, k, kind, verified) ==
  /\ invitation[c].status = "unissued" /\ pupil = None
  /\ invitation' = [invitation EXCEPT ![c] =
       [status |-> "pending", contact |-> k, kind |-> kind, verified |-> verified]]
  /\ UNCHANGED <<lapsed, relation, accounts, known, actors, claimedBy>>

(* A new code for a contact revokes the contact's pending ones, under the
   pupil's lock. *)
Issue(c, k, kind, verified) ==
  /\ invitation[c].status = "unissued" /\ pupil = None
  /\ invitation' = [d \in Codes |->
       CASE d = c -> [status |-> "pending", contact |-> k, kind |-> kind, verified |-> verified]
         [] invitation[d].status = "pending" /\ invitation[d].contact = k
              -> [invitation[d] EXCEPT !.status = "revoked"]
         [] OTHER -> invitation[d]]
  /\ UNCHANGED <<lapsed, relation, accounts, known, actors, claimedBy>>

Lapse(c) ==
  /\ invitation[c].status = "pending" /\ c \notin lapsed
  /\ lapsed' = lapsed \cup {c}
  /\ UNCHANGED <<invitation, relation, accounts, known, actors, claimedBy>>

-----------------------------------------------------------------------------
(* Claims: activate for an adult without a login, redeem for a guardian *)

Claimable(c) == invitation[c].status = "pending" /\ c \notin lapsed

(* The code is found and checked before anything is locked. *)
FindCode(p) ==
  /\ claim[p].stage = "new"
  /\ LET a == claim[p].adult
     IN  /\ Claimable(claim[p].code)
         /\ a \in known \/ a \notin accounts
         /\ claim' = [claim EXCEPT ![p].stage = IF a \in known THEN "account" ELSE "found"]
  /\ UNCHANGED <<rows, pupil, counted, staff, claimedBy>>

(* The login is made before the claim: losing a race for the code leaves it
   without any relationship. *)
CreateAccount(p) ==
  /\ claim[p].stage = "found" /\ claim[p].adult \notin accounts
  /\ accounts' = accounts \cup {claim[p].adult}
  /\ claim' = [claim EXCEPT ![p].stage = "account"]
  /\ UNCHANGED <<invitation, lapsed, relation, known, pupil, counted, staff, claimedBy>>

(* An unusable code or a taken username. *)
RefuseClaim(p) ==
  /\ \/ claim[p].stage = "new" /\ ~Claimable(claim[p].code)
     \/ claim[p].stage = "new" /\ claim[p].adult \in accounts \ known
     \/ claim[p].stage = "found" /\ claim[p].adult \in accounts
  /\ claim' = [claim EXCEPT ![p].stage = "refused"]
  /\ UNCHANGED <<rows, pupil, counted, staff, claimedBy>>

(* Mutation: the pupil is not locked. *)
CountWithoutLock(p) ==
  /\ claim[p].stage = "account" /\ Claimable(claim[p].code)
  /\ counted' = [counted EXCEPT ![p] = Cardinality(Others(claim[p].adult))]
  /\ claim' = [claim EXCEPT ![p].stage = "locked"]
  /\ UNCHANGED <<rows, pupil, staff, claimedBy>>

(* The lock, the conditional UPDATE that spends the code, and the count. *)
LockAndCount(p) ==
  /\ claim[p].stage = "account" /\ pupil = None /\ Claimable(claim[p].code)
  /\ pupil' = p
  /\ counted' = [counted EXCEPT ![p] = Cardinality(Others(claim[p].adult))]
  /\ claim' = [claim EXCEPT ![p].stage = "locked"]
  /\ UNCHANGED <<rows, staff, claimedBy>>

(* The code was spent, revoked or lapsed after it was found. *)
LoseCode(p) ==
  /\ claim[p].stage = "account" /\ pupil = None /\ ~Claimable(claim[p].code)
  /\ claim' = [claim EXCEPT ![p].stage = "refused"]
  /\ UNCHANGED <<rows, pupil, counted, staff, claimedBy>>

(* Mutation: an off-by-one at the limit. *)
BeyondTheLimit(i, n) == n > Limit

(* initialRelationshipState: whether the claim has to wait for staff. *)
NeedsStaff(i, n) == i.kind = "contact" \/ n >= Limit

(* A pair that has a relationship already is updated in place. *)
Attach(p) ==
  /\ claim[p].stage = "locked"
  /\ LET a == claim[p].adult
         c == claim[p].code
         i == invitation[c]
     IN  /\ relation' = [relation EXCEPT ![a] =
              [status |-> IF NeedsStaff(i, counted[p]) /\ ~i.verified THEN "pending" ELSE "active",
               kind |-> i.kind, verified |-> i.verified, primary |-> counted[p] = 0]]
         /\ invitation' = [invitation EXCEPT ![c].status = "activated"]
         /\ known' = known \cup {a}
         /\ claimedBy' = [claimedBy EXCEPT ![c] = a]
  /\ claim' = [claim EXCEPT ![p].stage = "done"]
  /\ pupil' = None
  /\ UNCHANGED <<lapsed, accounts, counted, staff>>

(* The transaction fails and nothing of it stays. *)
RollBack(p) ==
  /\ claim[p].stage = "locked"
  /\ claim' = [claim EXCEPT ![p].stage = "refused"]
  /\ pupil' = None
  /\ UNCHANGED <<rows, counted, staff, claimedBy>>

-----------------------------------------------------------------------------
(* Staff *)

LoadRelation(s) ==
  /\ staff[s].stage = "new" /\ relation[staff[s].adult].status # "none"
  /\ staff' = [staff EXCEPT ![s].stage = "read", ![s].seen = relation[staff[s].adult].status]
  /\ UNCHANGED <<rows, pupil, claim, counted, claimedBy>>

(* Mutation: the status is not compared with the one that was read. *)
VerifyBlindly(s) ==
  /\ staff[s].stage = "read" /\ staff[s].seen # "revoked"
  /\ relation' = [relation EXCEPT ![staff[s].adult].status = "active", ![staff[s].adult].verified = TRUE]
  /\ staff' = [staff EXCEPT ![s].stage = "done"]
  /\ UNCHANGED <<invitation, lapsed, accounts, known, pupil, claim, counted, claimedBy>>

(* A pending relationship becomes active, if it still is what was read. *)
Verify(s) ==
  /\ staff[s].stage = "read" /\ staff[s].seen # "revoked"
  /\ relation[staff[s].adult].status = staff[s].seen
  /\ relation' = [relation EXCEPT ![staff[s].adult].status = "active", ![staff[s].adult].verified = TRUE]
  /\ staff' = [staff EXCEPT ![s].stage = "done"]
  /\ UNCHANGED <<invitation, lapsed, accounts, known, pupil, claim, counted, claimedBy>>

(* Revoking asks for no particular status.  The pupil's other codes stay. *)
Revoke(s) ==
  /\ staff[s].stage = "read"
  /\ relation' = [relation EXCEPT ![staff[s].adult].status = "revoked"]
  /\ staff' = [staff EXCEPT ![s].stage = "done"]
  /\ UNCHANGED <<invitation, lapsed, accounts, known, pupil, claim, counted, claimedBy>>

RefuseStaff(s) ==
  /\ staff[s].stage = "read"
  /\ staff' = [staff EXCEPT ![s].stage = "refused"]
  /\ UNCHANGED <<rows, pupil, claim, counted, claimedBy>>

Redeem(p)  == FindCode(p) \/ CreateAccount(p) \/ RefuseClaim(p) \/ LockAndCount(p)
              \/ LoseCode(p) \/ Attach(p) \/ RollBack(p)
Decide(s)  == LoadRelation(s) \/ Verify(s) \/ Revoke(s) \/ RefuseStaff(s)
Invite(c)  == \/ \E k \in Contacts, kind \in Kinds, v \in BOOLEAN : Issue(c, k, kind, v)
              \/ Lapse(c)

GuardiansNext == \/ \E p \in Claims : Redeem(p)
                 \/ \E s \in Staff : Decide(s)
                 \/ \E c \in Codes : Invite(c)

GuardiansSpec == GuardiansInit /\ [][GuardiansNext]_gvars

-----------------------------------------------------------------------------
(* Whoever has access was let in by the school or is among the first adults:
   no more than Limit relationships are active on their holders' own word,
   and a mere contact never is, with claims, verifications and revocations
   overlapping (ADR-0027, decision 5). *)
SelfAttested == {a \in Adults : relation[a].status = "active" /\ ~relation[a].verified}

StandingEarned ==
  /\ Cardinality(SelfAttested) <= Limit
  /\ \A a \in SelfAttested : relation[a].kind = "parent"

(* The codes work once: a spent code has one holder, who is a guardian, a
   code that is not spent has none, and a contact never holds two usable
   codes (decision 7). *)
CodesWorkOnce ==
  /\ \A c \in Codes : invitation[c].status = "activated" <=> claimedBy[c] # None
  /\ \A c \in Codes : claimedBy[c] # None => claimedBy[c] \in known
  /\ \A c, d \in Codes : invitation[c].status = "pending" /\ invitation[d].status = "pending"
                           /\ invitation[c].contact = invitation[d].contact => c = d

(* A code is spent by one adult for ever. *)
NeverClaimedTwice ==
  [][\A c \in Codes : claimedBy[c] # None => claimedBy'[c] = claimedBy[c]]_gvars

(* A pupil has one primary contact among the live relationships. *)
OnePrimaryContact ==
  \A a, b \in Adults : Live(a) /\ Live(b) /\ relation[a].primary /\ relation[b].primary => a = b

(* Nothing but a claimed code revives a revoked relationship: a verification
   that was decided before the revocation fails (service.test.ts, "never
   reactivates a relationship when verification loses a revocation race"). *)
RevivedByCodeOnly ==
  [][\A a \in Adults : relation[a].status = "revoked" /\ relation'[a].status # "revoked"
       => \E c \in Codes : claimedBy[c] = None /\ claimedBy'[c] = a]_gvars
=============================================================================
