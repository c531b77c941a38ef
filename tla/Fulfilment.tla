----------------------------- MODULE Fulfilment -----------------------------
(***************************************************************************)
(* Purchase orders from the draft an award leaves to the payable invoice:  *)
(* the commands of ProcurementRepository.executeProcurementMutation        *)
(* (packages/persistence/src/index.ts) and the cumulative quantities of the *)
(* order lines (packages/core/src/procurement-model.ts).                   *)
(*                                                                         *)
(* A command is one SQLite transaction that checks the version its caller   *)
(* has read: a command sent after the order changed is refused, so it is    *)
(* modelled by the state it is executed in.  Orders are domestic and not    *)
(* in Odoo; whether a command's evidence is well formed is not modelled.   *)
(***************************************************************************)
EXTENDS Integers, FiniteSets, FiniteSetsExt

CONSTANTS
  Orders,         \* purchase orders an award may create
  Lines,          \* purchase order lines
  Ordered,        \* orderedQty of a line
  MaxQty,         \* bound on a quantity in one document line
  Confirmations,  \* confirmation documents (bounds their number)
  Receipts,       \* receipt documents, GRN
  Invoices,       \* supplier invoices, of one line each
  NoOrder         \* the line is not ordered yet

ASSUME OrderedAssumption == Ordered \in [Lines -> Nat \ {0}] /\ MaxQty \in Nat \ {0}
ASSUME DocumentsAssumption == IsFiniteSet(Receipts) /\ IsFiniteSet(Invoices)
ASSUME NoOrderAssumption == NoOrder \notin Orders

VARIABLES
  placed,        \* the order a line belongs to
  po,            \* status of an order
  qty,           \* quantity projection of a line
  ready,         \* lines whose latest production progress says ready_to_ship
  confirmation,  \* confirmations: status, order, confirmed quantities
  receipt,       \* received quantities, by receipt and line
  invoice        \* invoices: status, line, quantity, allocations to receipts

fulfilment == <<placed, po, qty, ready, confirmation, receipt, invoice>>

Producing == {"confirmed", "in_production", "awaiting_shipment", "partially_shipped"}
Shipped == {"partially_shipped", "shipped", "partially_received", "received"}
PoStatus == {"absent", "draft", "sent", "awaiting_confirmation", "rejected", "cancelled"}
              \cup Producing \cup Shipped
InvoiceStatus == {"absent", "received", "pending_approval", "exception", "payable_approved", "erp_written"}
Payable == {"payable_approved", "erp_written"}

Dimension == {"confirmed", "shipped", "received", "invoiced", "cancelled"}
Upto == 0..MaxQty

Confirmation == [status : {"absent", "pending_approval", "confirmed", "rejected"},
                 po : Orders \cup {NoOrder}, confirmed : [Lines -> Upto]]
Invoice == [status : InvoiceStatus, line : Lines, quantity : Upto, allocated : [Receipts -> Upto]]

FulfilmentTypeOK ==
  /\ placed \in [Lines -> Orders \cup {NoOrder}]
  /\ po \in [Orders -> PoStatus]
  /\ qty \in [Lines -> [Dimension -> Nat]]
  /\ ready \subseteq Lines
  /\ confirmation \in [Confirmations -> Confirmation]
  /\ receipt \in [Receipts -> [Lines -> Upto]]
  /\ invoice \in [Invoices -> Invoice]

NoConfirmation == [status |-> "absent", po |-> NoOrder, confirmed |-> [l \in Lines |-> 0]]

FulfilmentInit ==
  /\ placed = [l \in Lines |-> NoOrder]
  /\ po = [o \in Orders |-> "absent"]
  /\ qty = [l \in Lines |-> [d \in Dimension |-> 0]]
  /\ ready = {}
  /\ confirmation = [c \in Confirmations |-> NoConfirmation]
  /\ receipt = [r \in Receipts |-> [l \in Lines |-> 0]]
  /\ invoice = [i \in Invoices |-> [status |-> "absent", line |-> CHOOSE l \in Lines : TRUE,
                                    quantity |-> 0, allocated |-> [r \in Receipts |-> 0]]]

-----------------------------------------------------------------------------
LinesOf(o) == {l \in Lines : placed[l] = o}

\* The quantities in the lines of one document of o.
Document(o) ==
  {delta \in [Lines -> Upto] : (\E l \in Lines : delta[l] > 0) /\ \A l \in Lines \ LinesOf(o) : delta[l] = 0}

Plus(d, delta) == [l \in Lines |-> [qty[l] EXCEPT ![d] = @ + delta[l]]]

\* applyPurchaseOrderLineQuantityEvent throws on anything else.
CanCancel(delta) == \A l \in Lines : qty[l]["cancelled"] + delta[l] <= Ordered[l]

\* Wrong: an order line is held to the ordered quantity only.
WithinOrdered(d, delta, ceiling) == \A l \in Lines : qty[l][d] + delta[l] <= Ordered[l]

\* assertCumulativeWithin.
AssertCumulativeWithin(d, delta, ceiling) ==
  \A l \in Lines : delta[l] > 0 => qty[l][d] + delta[l] <= Ordered[l] /\ qty[l][d] + delta[l] <= ceiling[l]

\* Wrong: a line cancelled in part is waited for in full.
CompleteAsOrdered(o, q, d) == \A l \in LinesOf(o) : q[l][d] >= Ordered[l]

\* Every line is there, or will never come.
Complete(o, q, d) == \A l \in LinesOf(o) : q[l][d] + q[l]["cancelled"] >= Ordered[l]

SetStatus(o, status) == po' = [po EXCEPT ![o] = status]

-----------------------------------------------------------------------------
\* awardRfqAndCreateDraftPurchaseOrders: one draft for each supplier awarded.
CreateDraftOrders(supplierOf) ==
  /\ placed' = supplierOf
  /\ po' = [o \in Orders |-> IF \E l \in Lines : supplierOf[l] = o THEN "draft" ELSE po[o]]
  /\ UNCHANGED <<qty, ready, confirmation, receipt, invoice>>

\* The purchase_order.send row completed.
OrderSent(o) ==
  /\ po[o] = "draft"
  /\ SetStatus(o, "sent")
  /\ UNCHANGED <<placed, qty, ready, confirmation, receipt, invoice>>

\* record_confirmation: a supplier's reply covers every line.  Any deviation in
\* quantity, or in price or date (deviates), waits for an approval.
RecordConfirmation(o) ==
  /\ po[o] \in {"sent", "awaiting_confirmation", "confirmed"}
  /\ \E c \in Confirmations, confirmed \in Document(o), deviates \in BOOLEAN :
       /\ confirmation[c].status = "absent"
       /\ \A l \in LinesOf(o) : confirmed[l] > 0
       /\ LET approval == deviates \/ \E l \in LinesOf(o) : confirmed[l] # Ordered[l]
              status == IF approval THEN "pending_approval" ELSE "confirmed"
          IN /\ confirmation' = [confirmation EXCEPT
                  ![c] = [status |-> status, po |-> o, confirmed |-> confirmed]]
             /\ qty' = IF approval THEN qty ELSE Plus("confirmed", confirmed)
             /\ SetStatus(o, IF approval THEN "awaiting_confirmation" ELSE "confirmed")
  /\ UNCHANGED <<placed, ready, receipt, invoice>>

\* Wrong: the order's status is not looked at again.
DecidableAlways(c) == confirmation[c].status = "pending_approval"

Decidable(c) ==
  /\ confirmation[c].status = "pending_approval"
  /\ po[confirmation[c].po] = "awaiting_confirmation"

Remainder(c) == [l \in Lines |->
  IF placed[l] = confirmation[c].po THEN Ordered[l] - confirmation[c].confirmed[l] ELSE 0]

\* Wrong: an approval lets an excess pass.
ApprovableInExcess(c) == CanCancel(Remainder(c))

Approvable(c) == CanCancel(Remainder(c)) /\ \A l \in Lines : Remainder(c)[l] >= 0

\* decide_confirmation: what is short is cancelled for good, what is in excess
\* refuses the approval.
DecideConfirmation(c) ==
  /\ Decidable(c)
  /\ \/ /\ Approvable(c)
        /\ qty' = [l \in Lines |-> [qty[l] EXCEPT !["confirmed"] = @ + confirmation[c].confirmed[l],
                                                  !["cancelled"] = @ + Remainder(c)[l]]]
        /\ confirmation' = [confirmation EXCEPT ![c].status = "confirmed"]
        /\ SetStatus(confirmation[c].po, "confirmed")
     \/ /\ confirmation' = [confirmation EXCEPT ![c].status = "rejected"]
        /\ SetStatus(confirmation[c].po, "rejected")
        /\ UNCHANGED qty
  /\ UNCHANGED <<placed, ready, receipt, invoice>>

ProductionStatus(o, latest) ==
  IF po[o] = "partially_shipped" THEN "partially_shipped"
  ELSE IF \A l \in LinesOf(o) : l \in latest \/ qty[l]["cancelled"] >= Ordered[l] THEN "awaiting_shipment"
  ELSE "in_production"

\* record_production_progress: the latest report of a line counts.
RecordProductionProgress(o) ==
  /\ po[o] \in Producing
  /\ \E reported \in (SUBSET LinesOf(o)) \ {{}} : \E finished \in SUBSET reported :
       /\ ready' = (ready \ reported) \cup finished
       /\ SetStatus(o, ProductionStatus(o, ready'))
  /\ UNCHANGED <<placed, qty, confirmation, receipt, invoice>>

\* record_shipment: nothing confirmed counts as everything ordered.
RecordShipment(o) ==
  /\ po[o] \in Producing
  /\ \E shipped \in Document(o) :
       /\ AssertCumulativeWithin("shipped", shipped, [l \in Lines |->
            IF qty[l]["confirmed"] = 0 THEN Ordered[l] ELSE qty[l]["confirmed"]])
       /\ qty' = Plus("shipped", shipped)
       /\ SetStatus(o, IF Complete(o, qty', "shipped") THEN "shipped" ELSE "partially_shipped")
  /\ UNCHANGED <<placed, ready, confirmation, receipt, invoice>>

\* record_receipt, which need not name a shipment.
RecordReceipt(o) ==
  /\ po[o] \in {"partially_shipped", "shipped", "partially_received"}
  /\ \E r \in Receipts, received \in Document(o) :
       /\ \A l \in Lines : receipt[r][l] = 0
       /\ AssertCumulativeWithin("received", received, [l \in Lines |-> qty[l]["shipped"]])
       /\ receipt' = [receipt EXCEPT ![r] = received]
       /\ qty' = Plus("received", received)
       /\ SetStatus(o, IF Complete(o, qty', "received") THEN "received" ELSE "partially_received")
  /\ UNCHANGED <<placed, ready, confirmation, invoice>>

Total(allocated) == MapThenSumSet(LAMBDA r : allocated[r], Receipts)

\* record_invoice: allocations name receipt lines of the same order line and add
\* up to the quantity; how much each of these received is left to the match.
RecordInvoice(o) ==
  /\ po[o] \in {"partially_received", "received"}
  /\ \E i \in Invoices, l \in LinesOf(o), allocated \in [Receipts -> Upto] :
       LET quantity == Total(allocated) IN
       /\ invoice[i].status = "absent"
       /\ quantity \in 1..MaxQty
       /\ \A r \in Receipts : allocated[r] > 0 => receipt[r][l] > 0
       /\ AssertCumulativeWithin("invoiced", [k \in Lines |-> IF k = l THEN quantity ELSE 0],
                                 [k \in Lines |-> qty[k]["received"]])
       /\ invoice' = [invoice EXCEPT
            ![i] = [status |-> "received", line |-> l, quantity |-> quantity, allocated |-> allocated]]
       /\ qty' = [qty EXCEPT ![l]["invoiced"] = @ + quantity]
  /\ UNCHANGED <<placed, po, ready, confirmation, receipt>>

\* Wrong: an invoice goes to the approver as soon as it is linked.
MatchableAlways(i) == invoice[i].status = "received"

\* matchPurchaseOrderLine throws when an allocation exceeds its receipt line.
Matchable(i) ==
  /\ invoice[i].status = "received"
  /\ \A r \in Receipts : invoice[i].allocated[r] <= receipt[r][invoice[i].line]

SetInvoice(i, status) ==
  /\ invoice' = [invoice EXCEPT ![i].status = status]
  /\ UNCHANGED <<placed, po, qty, ready, confirmation, receipt>>

\* match_invoice: price or amount out of every threshold is severe.
MatchInvoice(i) == Matchable(i) /\ \E result \in {"pending_approval", "exception"} : SetInvoice(i, result)

\* decide_ap.
DecideAp(i) ==
  /\ invoice[i].status = "pending_approval"
  /\ \E decision \in {"payable_approved", "exception"} : SetInvoice(i, decision)

\* The invoice.update row completed.
InvoiceWritten(i) == invoice[i].status = "payable_approved" /\ SetInvoice(i, "erp_written")

-----------------------------------------------------------------------------
\* Wrong: an order may be cancelled until all of it has left the supplier.
CancellableInPart(o) == po[o] \notin {"absent", "cancelled", "shipped", "partially_received", "received"}

\* purchaseOrderCancellationBlocker: nothing shipped, received or invoiced.
Cancellable(o) ==
  /\ po[o] \notin {"absent", "cancelled"} \cup Shipped
  /\ \A l \in LinesOf(o) : \A d \in {"shipped", "received", "invoiced"} : qty[l][d] = 0

\* cancel_po of an order that is not in Odoo.
CancelPurchaseOrder(o) ==
  /\ Cancellable(o)
  /\ SetStatus(o, "cancelled")
  /\ qty' = [l \in Lines |->
       IF l \in LinesOf(o) THEN [qty[l] EXCEPT !["cancelled"] = Ordered[l]] ELSE qty[l]]
  /\ UNCHANGED <<placed, ready, confirmation, receipt, invoice>>

FulfilmentNext ==
  \/ \E o \in Orders :
       \/ OrderSent(o) \/ RecordConfirmation(o) \/ RecordProductionProgress(o) \/ RecordShipment(o)
       \/ RecordReceipt(o) \/ RecordInvoice(o) \/ CancelPurchaseOrder(o)
  \/ \E c \in Confirmations : DecideConfirmation(c)
  \/ \E i \in Invoices : MatchInvoice(i) \/ DecideAp(i) \/ InvoiceWritten(i)

-----------------------------------------------------------------------------
(* Nothing is invoiced before it is received, received before it is shipped, *)
(* shipped beyond what the supplier confirmed and the order says, in any     *)
(* order of partial documents, repeated confirmations and approvals.         *)
GoodsAreBacked ==
  \A l \in Lines :
    /\ qty[l]["invoiced"] <= qty[l]["received"]
    /\ qty[l]["received"] <= qty[l]["shipped"]
    /\ qty[l]["shipped"] <= Ordered[l]
    /\ qty[l]["shipped"] <= qty[l]["confirmed"]

Missing(o, d) == \E l \in LinesOf(o) : qty[l][d] + qty[l]["cancelled"] < Ordered[l]

(* The status of an order under way says how far all of its lines are: it is *)
(* shipped or received exactly when nothing that was not cancelled is still  *)
(* missing.                                                                 *)
StatusTellsQuantities ==
  \A o \in Orders :
    /\ po[o] \in {"partially_shipped", "shipped"} => (po[o] = "shipped" <=> ~Missing(o, "shipped"))
    /\ po[o] \in {"partially_received", "received"} => (po[o] = "received" <=> ~Missing(o, "received"))

(* A cancelled order is cancelled to the last unit and no goods or invoices  *)
(* hang on it, whatever approvals were pending when it was cancelled.        *)
CancelledOrderIsBare ==
  \A o \in Orders : po[o] = "cancelled" =>
    \A l \in LinesOf(o) :
      /\ qty[l]["cancelled"] = Ordered[l]
      /\ \A d \in {"shipped", "received", "invoiced"} : qty[l][d] = 0

ReceivedOn(l) == MapThenSumSet(LAMBDA r : receipt[r][l], Receipts)
PayableFor(l) ==
  MapThenSumSet(LAMBDA i : invoice[i].quantity,
                {i \in Invoices : invoice[i].line = l /\ invoice[i].status \in Payable})

(* What is approved for payment on an order line, over all of its invoices,  *)
(* the receipts show as received, and no single invoice draws more from a    *)
(* receipt line than that line received.                                    *)
PayableIsReceived ==
  /\ \A l \in Lines : PayableFor(l) <= ReceivedOn(l)
  /\ \A i \in Invoices, r \in Receipts :
       invoice[i].status \in Payable => invoice[i].allocated[r] <= receipt[r][invoice[i].line]

Stage(status) ==
  CASE status = "partially_shipped" -> 1
    [] status = "shipped" -> 2
    [] status = "partially_received" -> 3
    [] status = "received" -> 4
    [] status = "cancelled" -> 5
    [] OTHER -> 0

(* Once goods have left the supplier, or the order is cancelled, it only     *)
(* moves on: no late production report, second confirmation or decision on  *)
(* an earlier confirmation sets it back.                                    *)
OrderNeverGoesBack == [][\A o \in Orders : Stage(po'[o]) >= Stage(po[o])]_po

-----------------------------------------------------------------------------
(* README.zh-CN.md:133 says that an approved shortage closes the remaining   *)
(* quantity for good, unlike a partial shipment.  What was closed is then    *)
(* never shipped.                                                           *)
ClosedRemainderStaysClosed ==
  \A l \in Lines : qty[l]["shipped"] + qty[l]["cancelled"] <= Ordered[l]

=============================================================================
