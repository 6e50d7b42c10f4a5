---------------------------- MODULE StripeAdapter ----------------------------
(***************************************************************************)
(* The Stripe webhook: StripeWebhookService turns a Stripe event into a    *)
(* UPRM event or into nothing, the controller ingests it and tells the     *)
(* wallet what became of a checkout's redemption.                          *)
(*                                                                         *)
(* A refund or a dispute names a charge; the charge leads to an invoice    *)
(* and the invoice to the stored invoice_paid event it compensates.  The   *)
(* end of a dispute leads to the stored chargeback_opened.  Stripe         *)
(* delivers its events in any order, several at once, and again until it   *)
(* gets an answer that is not an error.                                    *)
(***************************************************************************)
EXTENDS Integers, FiniteSets

CONSTANTS
    StripeEvents,   \* event ids
    Content,        \* [StripeEvents -> Fact]: the objects they carry
    InvoiceUser,    \* externalUserId in the metadata of an invoice's subscription
    Hooks,          \* requests that run at once
    None

\* Of an object that lacks an amount or a currency, normalisation gives nothing.
Kinds ==
    {"completed", "expired", "paid", "deleted", "refunded", "disputed", "closed", "other"}
OnCharge == {"refunded", "disputed"}
Compensating == OnCharge \cup {"closed"}

VARIABLES
    stored,     \* ingestedEvent rows: payload by externalEventId
    told,       \* <<redemption, action>> the wallet was told
    answered,   \* events answered without an error
    early,      \* history: events whose handling began before what they refer to was stored
    hook        \* control state and locals of each request

vars == <<stored, told, answered, early, hook>>

Ignored == [type |-> "none", user |-> None, link |-> None]
Idle == [pc |-> "idle", event |-> None, invoice |-> None, found |-> None,
         user |-> None, payload |-> Ignored]

EventTypes ==
    {"subscription_started", "invoice_paid", "subscription_cancelled", "refund_issued",
     "chargeback_opened", "chargeback_won", "chargeback_lost"}

\* What a row may name as compensated: an event, or whatever a charge's metadata say.
Links == StripeEvents \cup {None} \cup {Content[e].link : e \in StripeEvents}

\* Rows are UPRM events.
TypeOK ==
    /\ answered \subseteq StripeEvents /\ early \subseteq StripeEvents
    /\ DOMAIN stored \subseteq StripeEvents
    /\ \A e \in DOMAIN stored :
          /\ stored[e].type \in EventTypes /\ stored[e].user # None
          /\ stored[e].link \in Links
    /\ \A h \in Hooks :
          /\ hook[h].pc \in
                {"idle", "charge", "invoice", "user", "opened", "ingest", "tell"}
          /\ hook[h].event \in StripeEvents \cup {None}

Init ==
    /\ stored = <<>> /\ told = {} /\ answered = {} /\ early = {}
    /\ hook = [h \in Hooks |-> Idle]

At(h, pc) == hook[h].pc = pc
Object(h) == Content[hook[h].event]

\* The events whose storing an event waits for.
Antecedents(e) ==
    {f \in StripeEvents :
        \/ /\ Content[e].kind \in OnCharge /\ Content[f].kind = "paid"
           /\ Content[f].invoice = Content[e].invoice
        \/ /\ Content[e].kind = "closed" /\ Content[f].kind = "disputed"
           /\ Content[f].dispute = Content[e].dispute}

-----------------------------------------------------------------------------
(* Normalisation.                                                          *)

TypeOf(object) ==
    CASE object.kind = "completed" -> "subscription_started"
      [] object.kind = "paid" -> "invoice_paid"
      [] object.kind = "deleted" -> "subscription_cancelled"
      [] object.kind = "refunded" -> "refund_issued"
      [] object.kind = "disputed" -> "chargeback_opened"
      [] object.kind = "closed" /\ object.status = "won" -> "chargeback_won"
      [] object.kind = "closed" /\ object.status = "lost" -> "chargeback_lost"
      [] OTHER -> "none"

Payload(object, user, link) ==
    IF \/ TypeOf(object) = "none" \/ user = None
       \/ object.kind \in Compensating /\ link = None
    THEN Ignored
    ELSE [type |-> TypeOf(object), user |-> user, link |-> link]

\* normalize: from the metadata of the object alone.
FromMetadata(object) == Payload(object, object.user, object.link)

\* The signature is verified; the database is read in the steps below.
Receive(h, e) ==
    /\ At(h, "idle")
    /\ hook' = [hook EXCEPT ![h].event = e,
          ![h].pc = CASE Content[e].kind \in OnCharge -> "charge"
                      [] Content[e].kind = "closed" -> "opened"
                      [] OTHER -> "ingest",
          ![h].payload = FromMetadata(Content[e])]
    /\ early' = IF Antecedents(e) \subseteq DOMAIN stored THEN early ELSE early \cup {e}
    /\ UNCHANGED <<stored, told, answered>>

\* Mutant of FetchCharge: the charge is not fetched when the event holds none.
InvoiceOfEvent(h) ==
    /\ At(h, "charge")
    /\ hook' = [hook EXCEPT ![h].pc = "invoice",
          ![h].invoice = IF Object(h).expanded THEN Object(h).invoice ELSE None]
    /\ UNCHANGED <<stored, told, answered, early>>

\* The invoice, from the event or from Stripe's copy of the charge.
FetchCharge(h) ==
    /\ At(h, "charge")
    /\ hook' = [hook EXCEPT ![h].pc = "invoice", ![h].invoice = Object(h).invoice]
    /\ UNCHANGED <<stored, told, answered, early>>

\* x ?? y.
Or(x, y) == IF x # None THEN x ELSE y
UserOf(e) == IF e = None THEN None ELSE stored[e].user

\* What the refund or dispute becomes once its context is as complete as it gets.
Resolved(object, user, link) ==
    IF user = None \/ link = None THEN FromMetadata(object) ELSE Payload(object, user, link)

\* Mutant of PaidEvents: looks for the last payment of any invoice.
AnyPaidEvents(invoice) == {e \in DOMAIN stored : stored[e].type = "invoice_paid"}
PaidEvents(invoice) ==
    {e \in DOMAIN stored : stored[e].type = "invoice_paid" /\ Content[e].invoice = invoice}

FindInvoicePaid(h) ==
    LET paid == PaidEvents(hook[h].invoice)
        \* The charge's own metadata come first.
        Found(e) ==
            LET user == Or(Object(h).user, UserOf(e))
                link == Or(Object(h).link, e)
            IN  IF user = None /\ hook[h].invoice # None
                THEN hook' = [hook EXCEPT ![h].pc = "user", ![h].found = e]
                ELSE hook' = [hook EXCEPT ![h].pc = "ingest",
                                          ![h].payload = Resolved(Object(h), user, link)]
    IN  /\ At(h, "invoice")
        /\ IF paid = {} THEN Found(None) ELSE \E e \in paid : Found(e)
        /\ UNCHANGED <<stored, told, answered, early>>

FetchInvoice(h) ==
    /\ At(h, "user")
    /\ hook' = [hook EXCEPT ![h].pc = "ingest",
          ![h].payload = Resolved(Object(h), InvoiceUser[hook[h].invoice],
                                  Or(Object(h).link, hook[h].found))]
    /\ UNCHANGED <<stored, told, answered, early>>

\* resolveDisputeResolutionContext.
FindOpened(h) ==
    LET opened == {e \in DOMAIN stored : /\ stored[e].type = "chargeback_opened"
                                         /\ Content[e].dispute = Object(h).dispute}
    IN  /\ At(h, "opened")
        /\ \E e \in IF opened = {} THEN {None} ELSE opened :
              hook' = [hook EXCEPT ![h].pc = "ingest",
                                   ![h].payload = Resolved(Object(h), UserOf(e), e)]
        /\ UNCHANGED <<stored, told, answered, early>>

-----------------------------------------------------------------------------
(* The controller.                                                         *)

\* extractWalletRedemptionLifecycle.
Lifecycle(object) ==
    CASE object.redemption # None /\ object.kind = "completed" -> "mark_posted"
      [] object.redemption # None /\ object.kind = "expired" -> "release"
      [] OTHER -> "none"

Answer(h) ==
    /\ answered' = answered \cup {hook[h].event}
    /\ hook' = [hook EXCEPT ![h] = Idle]

Store(e, payload) ==
    stored' = [x \in DOMAIN stored \cup {e} |->
                  IF x \in DOMAIN stored THEN stored[x] ELSE payload]

\* The first payload under the key stripe:<event id> stays.
Ingest(h) ==
    /\ At(h, "ingest") /\ hook[h].payload # Ignored
    /\ Store(hook[h].event, hook[h].payload)
    /\ IF Lifecycle(Object(h)) = "mark_posted"
       THEN hook' = [hook EXCEPT ![h].pc = "tell"] /\ UNCHANGED answered
       ELSE Answer(h)
    /\ UNCHANGED <<told, early>>

\* Nothing to ingest: only the end of an expired session is acted upon.
Ignore(h) ==
    /\ At(h, "ingest") /\ hook[h].payload = Ignored
    /\ IF Lifecycle(Object(h)) = "release"
       THEN hook' = [hook EXCEPT ![h].pc = "tell"] /\ UNCHANGED answered
       ELSE Answer(h)
    /\ UNCHANGED <<stored, told, early>>

TellWallet(h) ==
    /\ At(h, "tell")
    /\ told' = told \cup {<<Object(h).redemption, Lifecycle(Object(h))>>}
    /\ Answer(h)
    /\ UNCHANGED <<stored, early>>

\* A call to Stripe or a statement throws, or the process dies.
Fail(h) ==
    /\ ~At(h, "idle")
    /\ hook' = [hook EXCEPT ![h] = Idle]
    /\ UNCHANGED <<stored, told, answered, early>>

Next ==
    \E h \in Hooks :
        \/ \E e \in StripeEvents : Receive(h, e)
        \/ FetchCharge(h) \/ FindInvoicePaid(h) \/ FetchInvoice(h) \/ FindOpened(h)
        \/ Ingest(h) \/ Ignore(h) \/ TellWallet(h) \/ Fail(h)

Spec == Init /\ [][Next]_vars

-----------------------------------------------------------------------------
(* A compensation is tied to the money it takes back: the event a stored
   refund or chargeback links to is a stored payment of the same invoice and
   the same user, and that of a dispute's end the opening of the same dispute,
   whatever was delivered twice or out of order.  Links that a charge's own
   metadata name are the merchant's. *)
CompensatesItsOwn ==
    \A e \in DOMAIN stored :
        Content[e].kind \in Compensating /\ Content[e].link = None =>
            /\ stored[e].link \in Antecedents(e) \cap DOMAIN stored
            /\ Content[e].user = None => stored[e].user = stored[stored[e].link].user

(* What Stripe will not send again is done: an answered event that no handler
   took up before its antecedent was stored has its row, if it can be told whom
   and what it is about, and the wallet knows the end of its checkout.  An event
   taken up too early is answered as ignored and lost. *)
Named(e) ==
    \/ Antecedents(e) # {}
    \/ /\ Content[e].user # None
       /\ Content[e].kind \in Compensating => Content[e].link # None
AnsweredIsDone ==
    \A e \in answered \ early :
        /\ TypeOf(Content[e]) # "none" /\ Named(e) => e \in DOMAIN stored
        /\ Lifecycle(Content[e]) # "none" =>
              <<Content[e].redemption, Lifecycle(Content[e])>> \in told
=============================================================================
