----------------------------- MODULE OfferMail -----------------------------
(***************************************************************************)
(* Extending an offer by e-mail: deliverOffer of the outbox composed with  *)
(* the offer it is about.  The send request freezes the terms in the       *)
(* outbox row (features/offers/actions.ts); the worker checks the offer,   *)
(* mails it and only then turns the draft into a sent offer, while the     *)
(* recruiter edits or withdraws it, the application closes and, once it is *)
(* sent, it is decided (features/offers/service.ts).                       *)
(***************************************************************************)
EXTENDS EmailOutbox

CONSTANTS
  Terms,       \* values of an offer's terms
  RowTerms     \* RowTerms[r]: the terms frozen in the payload of an offer row

ASSUME OfferMailAssumption ==
  /\ None \notin Terms
  /\ RowTerms \in [OfferRow -> Terms]

VARIABLES
  offer,       \* the offer: its status and terms
  active,      \* the application is active
  sender,      \* the terms a running sendOffer has read, or None
  editor       \* a running updateOffer: has read the draft, has found no send in flight

offerVars == <<offer, active, sender, editor>>

offerMailVars == <<mailVars, offerVars>>

OfferMailTypeOK ==
  /\ MailTypeOK
  /\ offer \in [status: {"draft", "sent", "accepted", "declined", "withdrawn"}, terms: Terms]
  /\ active \in BOOLEAN
  /\ sender \in Terms \cup {None}
  /\ editor \in {"idle", "read", "checked"}

OfferMailInit ==
  /\ MailInit
  /\ offer \in [status: {"draft"}, terms: Terms]
  /\ active = TRUE /\ sender = None /\ editor = "idle"

-----------------------------------------------------------------------------
(* The recruiter, the application and the candidate.                       *)

\* Every write of the offer moves updatedAt, so an update that read it before is refused.
OfferBecomes(x) == offer' = x /\ editor' = "idle"

InFlight == \E r \in OfferRow : row[r].status \in {"pending", "processing"}

\* sendOffer and sendOfferForApi, up to the terms they freeze.
SendReads ==
  /\ sender = None
  /\ spent.operator < MaxOperator
  /\ offer.status = "draft" /\ active
  /\ \E r \in OfferRow : RowTerms[r] = offer.terms
  /\ sender' = offer.terms
  /\ spent' = [spent EXCEPT !.operator = @ + 1]
  /\ UNCHANGED <<row, worker, delivered, offer, active, editor>>

SendEnqueues ==
  /\ sender # None
  /\ \E r \in OfferRow :
       /\ RowTerms[r] = sender
       /\ row' = [row EXCEPT ![r] = Enqueued(@, TRUE)]
  /\ sender' = None
  /\ UNCHANGED <<worker, delivered, spent, offer, active, editor>>

EditReads ==
  /\ editor = "idle" /\ offer.status = "draft"
  /\ editor' = "read"
  /\ UNCHANGED <<mailVars, offer, active, sender>>

EditChecks ==
  /\ editor = "read"
  /\ editor' = IF InFlight THEN "idle" ELSE "checked"
  /\ UNCHANGED <<mailVars, offer, active, sender>>

EditWrites(t) ==
  /\ editor = "checked" /\ offer.status = "draft"
  /\ OfferBecomes([offer EXCEPT !.terms = t])
  /\ UNCHANGED <<mailVars, active, sender>>

\* Withdrawal, by hand or because the candidate was hired elsewhere.
Withdraw ==
  /\ offer.status \in {"draft", "sent"}
  /\ OfferBecomes([offer EXCEPT !.status = "withdrawn"])
  /\ UNCHANGED <<mailVars, active, sender>>

CloseApplication ==
  /\ active
  /\ active' = FALSE
  /\ UNCHANGED <<mailVars, offer, sender, editor>>

\* decideOfferForApi: accepting needs, and ends, an active application.
Decide(decision) ==
  /\ offer.status = "sent"
  /\ decision = "accepted" => active
  /\ OfferBecomes([offer EXCEPT !.status = decision])
  /\ active' = (active /\ decision = "declined")
  /\ UNCHANGED <<mailVars, sender>>

-----------------------------------------------------------------------------
(* deliverOffer.                                                           *)

RowInHand(w) == row[worker[w].row]

\* The offer went out before: the row is only acknowledged.
Acknowledge(w) ==
  /\ InHand(w, "checked") /\ offer.status = "sent"
  /\ Writes(w, Sent(RowInHand(w)))
  /\ Finishes(w)
  /\ UNCHANGED <<delivered, spent, offerVars>>

\* No longer a draft, or a closed application: another attempt, as after a refusal.
NotDeliverable(w) ==
  /\ InHand(w, "checked")
  /\ \/ offer.status \notin {"draft", "sent"}
     \/ offer.status = "draft" /\ offer.terms = RowTerms[worker[w].row] /\ ~active
  /\ Writes(w, Failed(RowInHand(w)))
  /\ Finishes(w)
  /\ UNCHANGED <<delivered, spent, offerVars>>

\* markStale: the draft was edited after the send request.
TermsChanged(w) ==
  /\ InHand(w, "checked")
  /\ offer.status = "draft" /\ offer.terms # RowTerms[worker[w].row]
  /\ Writes(w, Ended(RowInHand(w)))
  /\ Finishes(w)
  /\ UNCHANGED <<delivered, spent, offerVars>>

OfferChecked(w) ==
  /\ InHand(w, "checked")
  /\ offer.status = "draft" /\ offer.terms = RowTerms[worker[w].row] /\ active
  /\ Moves(w, "ready")
  /\ UNCHANGED <<row, delivered, spent, offerVars>>

\* Mutants: the terms, or the state of offer and application, not looked at again.
StillExtendableAnyTerms(w) == offer.status = "draft" /\ active

StillExtendableAnyState(w) == offer.terms = RowTerms[worker[w].row]

\* The transaction after the provider's acceptance: the draft is sent if it still is
\* what was mailed, and the row is sent in any case.
StillExtendable(w) ==
  offer.status = "draft" /\ offer.terms = RowTerms[worker[w].row] /\ active

Extend(w) ==
  /\ InHand(w, "recorded") /\ worker[w].row \in OfferRow
  /\ IF StillExtendable(w) THEN OfferBecomes([offer EXCEPT !.status = "sent"])
                           ELSE UNCHANGED <<offer, editor>>
  /\ Writes(w, Sent(RowInHand(w)))
  /\ Finishes(w)
  /\ UNCHANGED <<delivered, spent, active, sender>>

DeliverOffer(w) ==
  Acknowledge(w) \/ NotDeliverable(w) \/ TermsChanged(w) \/ OfferChecked(w) \/ Extend(w)

OfferMailNext ==
  \/ MailStep /\ UNCHANGED offerVars
  \/ SendReads \/ SendEnqueues \/ EditReads \/ EditChecks
  \/ \E t \in Terms : EditWrites(t)
  \/ Withdraw \/ CloseApplication
  \/ \E d \in {"accepted", "declined"} : Decide(d)
  \/ \E w \in Worker : DeliverOffer(w)

\* A running worker goes on, the cron keeps claiming, the lock of a dead one ages, and
\* the claim itself does not use up the time budget of every call.
OfferMailFairness ==
  /\ \A w \in Worker :
       /\ WF_offerMailVars((WorkerStep(w) /\ UNCHANGED offerVars) \/ DeliverOffer(w))
       /\ WF_offerMailVars(Claim(w, Row) /\ UNCHANGED offerVars)
       /\ SF_offerMailVars(\E r \in Row : StartRow(w, r) /\ UNCHANGED offerVars)
  /\ \A r \in Row :
       WF_offerMailVars(row[r].owner = Lost /\ LockExpires(r) /\ UNCHANGED offerVars)

OfferMailSpec == OfferMailInit /\ [][OfferMailNext]_offerMailVars /\ OfferMailFairness

-----------------------------------------------------------------------------
(* Properties.                                                             *)

\* "A crash mid-flight can never leave the offer as sent without a delivered email": the
\* terms a candidate sees as extended are terms the provider accepted in a message
\* (features/offers/actions.ts, sendOffer).
SentOfferWasMailed ==
  offer.status \in {"sent", "accepted", "declined"} =>
    \E r \in OfferRow : RowTerms[r] = offer.terms /\ row[r].accepted /\ delivered[r] >= 1

\* A late success callback leaves a decided or withdrawn offer alone, and never extends
\* one whose application closed after the checks (deliverOffer).
LateCallbackHarmless ==
  [][\A w \in Worker : InHand(w, "recorded") /\ worker'[w].phase = "between"
       => \/ offer' = offer
          \/ offer.status = "draft" /\ active
               /\ \E r \in OfferRow : RowTerms[r] = offer.terms /\ row'[r].status = "sent"]_offerMailVars

\* There comes a time when no row is left queued or claimed, whatever the workers that
\* hold them meet.
RowsSettle ==
  []<>(\A r \in Row : row[r].status \notin {"pending", "processing"})

\* "The worker sends the email and only then flips the offer to sent": once the outbox
\* calls the mail of a draft sent, the draft with these terms has been sent, too.
MailedOfferIsSent ==
  \A r \in OfferRow :
    row[r].status = "sent" /\ delivered[r] >= 1 /\ active /\ RowTerms[r] = offer.terms
      => offer.status # "draft"
=============================================================================
