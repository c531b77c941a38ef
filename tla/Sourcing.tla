------------------------------ MODULE Sourcing ------------------------------
(***************************************************************************)
(* One request for quotation of the procurement repository: the mails that *)
(* ask the suppliers, the quotes that come in, the comparison and the      *)
(* award (packages/persistence/src/index.ts, apps/api/src/procurement-rfqs).*)
(*                                                                         *)
(* Each operation is one SQLite transaction.  A comparison reads the quotes*)
(* and stores its snapshot without an await between; an award is decided by *)
(* a buyer on what an earlier answer showed, and carries the version of the *)
(* RFQ that answer named.  A version serves only to be compared with the    *)
(* current one, so it is kept as the fact that nothing has changed since.  *)
(***************************************************************************)
EXTENDS Fulfilment

CONSTANTS
  Suppliers,   \* rfq.supplierIds; an order is named by its supplier
  Quotes,      \* quotes that may arrive, revised ones included
  SupplierOf,  \* the supplier a quote comes from
  Offers,      \* the lines a quote has a price for
  Eligible,    \* those among them the comparison finds eligible
  Buyers       \* people who may award

ASSUME QuotesAssumption ==
  /\ SupplierOf \in [Quotes -> Suppliers]
  /\ Offers \in [Quotes -> (SUBSET Lines) \ {{}}]
  /\ Eligible \in [Quotes -> SUBSET Lines]
  /\ \A q \in Quotes : Eligible[q] \subseteq Offers[q]
ASSUME SuppliersAssumption == Suppliers \subseteq Orders
ASSUME LinesAssumption == Lines # {}

VARIABLES
  rfq,      \* status and the quotes of the comparison it refers to
  quotes,   \* quotes stored for the RFQ
  mails,    \* suppliers whose rfq.send row is still under way
  ballot,   \* what a buyer was shown, and whether the RFQ is still as shown
  award     \* history: the quotes the deciding buyer was shown

sourcing == <<rfq, quotes, mails, ballot, award>>

Open == {"sent", "partial_quotes", "quotes_complete", "compared", "pending_award"}
RfqStatus == {"draft", "awarded"} \cup Open

\* A comparison holds quotes for every line: the empty set says there is none.
None == {}
Ballot == [shown : SUBSET Quotes, current : BOOLEAN]

SourcingTypeOK ==
  /\ rfq \in [status : RfqStatus, snapshot : SUBSET Quotes]
  /\ quotes \subseteq Quotes
  /\ mails \subseteq Suppliers
  /\ ballot \in [Buyers -> Ballot]
  /\ award \in SUBSET Quotes

\* createRfqIdempotent stores a draft.
SourcingInit ==
  /\ rfq = [status |-> "draft", snapshot |-> None]
  /\ quotes = {}
  /\ mails = {}
  /\ ballot = [b \in Buyers |-> [shown |-> None, current |-> FALSE]]
  /\ award = None

-----------------------------------------------------------------------------
Outdated == [b \in Buyers |-> [ballot[b] EXCEPT !.current = FALSE]]

\* Every write of the RFQ raises its version: whatever was shown is out of date.
WriteRfq(status, snapshot) ==
  /\ rfq' = [status |-> status, snapshot |-> snapshot]
  /\ ballot' = Outdated

\* executeSendRfq queues a mail and leaves the RFQ as it is.
SendRfq(s) ==
  /\ rfq.status \in {"draft", "sent", "partial_quotes"}
  /\ mails' = mails \cup {s}
  /\ UNCHANGED <<rfq, quotes, ballot, award>>

\* The connector has accepted the mail, and the fact is applied with the row.
RfqSent(s) ==
  /\ s \in mails
  /\ mails' = mails \ {s}
  /\ \/ rfq.status = "draft" /\ WriteRfq("sent", rfq.snapshot)
     \/ rfq.status \in {"sent", "partial_quotes"} /\ UNCHANGED <<rfq, ballot>>
  /\ UNCHANGED <<quotes, award>>

\* The row ends without its fact: never sent, in doubt, or sent while the RFQ
\* had moved on, which applyCompletedOutboxFact refuses.
RfqNotRecordedSent(s) ==
  /\ s \in mails
  /\ mails' = mails \ {s}
  /\ UNCHANGED <<rfq, quotes, ballot, award>>

Quoted(received) ==
  IF Suppliers \subseteq {SupplierOf[q] : q \in received} THEN "quotes_complete" ELSE "partial_quotes"

\* Wrong: the RFQ goes back for another comparison only if its status changes.
AddQuoteKeepingAward(q) ==
  /\ q \notin quotes /\ rfq.status # "awarded"
  /\ quotes' = quotes \cup {q}
  /\ IF rfq.status \in Open \ {"compared", "pending_award"} /\ rfq.status # Quoted(quotes')
     THEN WriteRfq(Quoted(quotes'), None)
     ELSE UNCHANGED <<rfq, ballot>>
  /\ UNCHANGED <<mails, award>>

\* createDocumentWithLinesIdempotent of a quote: a draft RFQ does not notice it,
\* any other loses its comparison.
AddQuote(q) ==
  /\ q \notin quotes /\ rfq.status # "awarded"
  /\ quotes' = quotes \cup {q}
  /\ IF rfq.status \in Open /\ (rfq.status # Quoted(quotes') \/ rfq.snapshot # None)
     THEN WriteRfq(Quoted(quotes'), None)
     ELSE UNCHANGED <<rfq, ballot>>
  /\ UNCHANGED <<mails, award>>

\* persistQuoteComparison: all quotes, every line quoted, and an award may follow
\* when every line has a recommendation.
Compare ==
  /\ rfq.status \in {"draft", "sent", "partial_quotes", "quotes_complete", "compared"}
  /\ Lines = UNION {Offers[q] : q \in quotes}
  /\ WriteRfq(IF Lines = UNION {Eligible[q] : q \in quotes} THEN "pending_award" ELSE "compared", quotes)
  /\ UNCHANGED <<quotes, mails, award>>

ReadRfq(b) ==
  /\ rfq.status = "pending_award"
  /\ ballot' = [ballot EXCEPT ![b] = [shown |-> rfq.snapshot, current |-> TRUE]]
  /\ UNCHANGED <<rfq, quotes, mails, award>>

\* Wrong: the version the buyer saw is not compared with the stored one.
AwardableAnyVersion(b) == ballot[b].shown # None /\ rfq.status = "pending_award"

Awardable(b) == ballot[b].current /\ rfq.status = "pending_award"

\* awardRfqAndCreateDraftPurchaseOrders: one eligible quote for each line, and
\* a draft order for each supplier among them.
AwardRfq(b, choice) ==
  /\ Awardable(b)
  /\ \A l \in Lines : choice[l] \in ballot[b].shown /\ l \in Eligible[choice[l]]
  /\ rfq' = [rfq EXCEPT !.status = "awarded"]
  /\ award' = ballot[b].shown
  /\ ballot' = [Outdated EXCEPT ![b].shown = None]
  /\ CreateDraftOrders([l \in Lines |-> SupplierOf[choice[l]]])
  /\ UNCHANGED <<quotes, mails>>

Source ==
  \/ \E s \in Suppliers : SendRfq(s) \/ RfqSent(s) \/ RfqNotRecordedSent(s)
  \/ \E q \in Quotes : AddQuote(q)
  \/ Compare
  \/ \E b \in Buyers : ReadRfq(b)

Init == SourcingInit /\ FulfilmentInit

Next ==
  \/ Source /\ UNCHANGED fulfilment
  \/ \E b \in Buyers, choice \in [Lines -> Quotes] : AwardRfq(b, choice)
  \/ FulfilmentNext /\ UNCHANGED sourcing

vars == <<sourcing, fulfilment>>

Spec == Init /\ [][Next]_vars

-----------------------------------------------------------------------------
TypeOK == SourcingTypeOK /\ FulfilmentTypeOK

(* A comparison the RFQ refers to covers every quote received: one that      *)
(* comes in after it, also before the RFQ was ever sent, undoes it, unless   *)
(* the RFQ is still the draft nobody has compared.                          *)
ComparisonIsComplete ==
  rfq.status \in {"compared", "pending_award", "awarded"} => rfq.snapshot = quotes

(* Who awards has seen all quotes that exist when the award takes effect,   *)
(* however many came in, and however often the RFQ was compared again,      *)
(* between the page shown and the request sent.                             *)
AwardSawEveryQuote == rfq.status = "awarded" => award = quotes

=============================================================================
