------------------------ MODULE PublicationRegister -------------------------
(***************************************************************************)
(* What the publication of report cards promises: for each pupil and term   *)
(* one register holds the card the family sees.  Publishing a card that is  *)
(* shown and withdrawing one that is not are answered "no" and change       *)
(* nothing; everything else is answered "yes", all at one instant.          *)
(***************************************************************************)
CONSTANTS Cards, Terms, TermOf, Decisions, None

VARIABLES
  asks,    \* what each decision is about
  shown,   \* for each term, the card the family sees
  answer   \* the answer a decision was given

rvars == <<asks, shown, answer>>

RegisterInit == /\ asks \in [Decisions -> [action : {"publish", "withdraw"}, card : Cards]]
                /\ shown = [t \in Terms |-> None]
                /\ answer = [d \in Decisions |-> "none"]

Allowed(d) == (asks[d].action = "publish") # (shown[TermOf[asks[d].card]] = asks[d].card)

Accept(d) ==
  /\ answer[d] = "none" /\ Allowed(d)
  /\ shown' = [shown EXCEPT ![TermOf[asks[d].card]] =
                 IF asks[d].action = "publish" THEN asks[d].card ELSE None]
  /\ answer' = [answer EXCEPT ![d] = "yes"]
  /\ UNCHANGED asks

Refuse(d) ==
  /\ answer[d] = "none" /\ ~Allowed(d)
  /\ answer' = [answer EXCEPT ![d] = "no"]
  /\ UNCHANGED <<asks, shown>>

RegisterNext == \E d \in Decisions : Accept(d) \/ Refuse(d)

RegisterSpec == RegisterInit /\ [][RegisterNext]_rvars
=============================================================================
