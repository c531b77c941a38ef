-------------------------- MODULE Sourcing_proofs --------------------------
(***************************************************************************)
(* Proofs about Sourcing and Fulfilment, for any suppliers, quotes, lines, *)
(* quantities and documents: the award saw every quote, the quantities of  *)
(* an order line back each other, and an order's status follows them.      *)
(***************************************************************************)
EXTENDS Sourcing, TLAPS

-----------------------------------------------------------------------------
(***************************************************************************)
(* Quantities.                                                             *)
(***************************************************************************)

\* A document adds to one quantity of its lines and to nothing else.
LEMMA PlusQuantities ==
  ASSUME FulfilmentTypeOK, NEW d \in Dimension, NEW delta \in [Lines -> Nat]
  PROVE  /\ Plus(d, delta) \in [Lines -> [Dimension -> Nat]]
         /\ \A l \in Lines, e \in Dimension :
              Plus(d, delta)[l][e] = IF e = d THEN qty[l][d] + delta[l] ELSE qty[l][e]
<1>1. \A l \in Lines : qty[l] \in [Dimension -> Nat] /\ delta[l] \in Nat
  BY DEF FulfilmentTypeOK
<1>2. ASSUME NEW l \in Lines
      PROVE  /\ [qty[l] EXCEPT ![d] = @ + delta[l]] \in [Dimension -> Nat]
             /\ \A e \in Dimension : [qty[l] EXCEPT ![d] = @ + delta[l]][e]
                                       = IF e = d THEN qty[l][d] + delta[l] ELSE qty[l][e]
  BY <1>1
<1>3. QED BY <1>2 DEF Plus

\* A document of an order has quantities for lines of that order only.
LEMMA DocumentLines ==
  ASSUME NEW o \in Orders, NEW delta \in Document(o)
  PROVE  /\ delta \in [Lines -> Upto] /\ delta \in [Lines -> Nat]
         /\ \A l \in Lines : placed[l] # o => delta[l] = 0
<1>1. delta \in [Lines -> Upto]
  BY DEF Document
<1>2. \A l \in Lines : delta[l] \in Nat
  BY <1>1, OrderedAssumption DEF Upto
<1>3. delta \in [Lines -> Nat]
  BY <1>1, <1>2
<1>4. QED BY <1>1, <1>3 DEF Document, LinesOf

-----------------------------------------------------------------------------
(***************************************************************************)
(* The invariant of fulfilment.                                            *)
(***************************************************************************)

\* A confirmation covers every line of its order, and no line of another.
ConfirmationsCover ==
  \A c \in Confirmations : confirmation[c].status # "absent" =>
    /\ confirmation[c].po \in Orders
    /\ po[confirmation[c].po] # "absent"
    /\ \A l \in Lines : IF placed[l] = confirmation[c].po THEN confirmation[c].confirmed[l] > 0
                                                          ELSE confirmation[c].confirmed[l] = 0

\* The supplier has confirmed something of each line of an order under way.
ShippableIsConfirmed ==
  \A l \in Lines, o \in Orders :
    placed[l] = o /\ po[o] \in Producing \cup Shipped => qty[l]["confirmed"] > 0

QuantityInv ==
  /\ GoodsAreBacked
  /\ ShippableIsConfirmed
  /\ CancelledOrderIsBare
  /\ StatusTellsQuantities

FulfilmentInv == FulfilmentTypeOK /\ ConfirmationsCover /\ QuantityInv

\* What the statuses and quantities are in, spelled out for the provers.
LEMMA Facts ==
  ASSUME FulfilmentTypeOK
  PROVE  /\ \A l \in Lines, d \in Dimension : qty[l][d] \in Nat
         /\ \A l \in Lines : Ordered[l] \in Nat \ {0}
         /\ \A d \in {"confirmed", "shipped", "received", "invoiced", "cancelled"} : d \in Dimension
         /\ \A o \in Orders : po[o] \in PoStatus
         /\ \A l \in Lines : placed[l] \in Orders \cup {NoOrder}
BY OrderedAssumption DEF FulfilmentTypeOK, Dimension

LEMMA InitFulfilment == Init => FulfilmentInv
<1> SUFFICES ASSUME Init PROVE FulfilmentInv
  OBVIOUS
<1>1. FulfilmentTypeOK
  <2>1. 0 \in Upto
    BY OrderedAssumption DEF Upto
  <2>2. NoConfirmation \in Confirmation
    BY <2>1 DEF NoConfirmation, Confirmation
  <2>3. (CHOOSE l \in Lines : TRUE) \in Lines
    BY LinesAssumption
  <2>4. invoice \in [Invoices -> Invoice]
    BY <2>1, <2>3 DEF Init, FulfilmentInit, Invoice, InvoiceStatus
  <2>5. QED
    BY <2>1, <2>2, <2>4 DEF Init, FulfilmentInit, FulfilmentTypeOK, PoStatus
<1>2. ConfirmationsCover
  BY DEF Init, FulfilmentInit, NoConfirmation, ConfirmationsCover
<1>3. \A l \in Lines, d \in Dimension : qty[l][d] = 0
  BY DEF Init, FulfilmentInit
<1>4. \A o \in Orders : po[o] = "absent"
  BY DEF Init, FulfilmentInit
<1>5. QuantityInv
  BY <1>1, <1>3, <1>4, Facts
  DEF QuantityInv, GoodsAreBacked, ShippableIsConfirmed, CancelledOrderIsBare, StatusTellsQuantities,
      Producing, Shipped
<1>6. QED BY <1>1, <1>2, <1>5 DEF FulfilmentInv

\* An order whose quantities and status are left alone keeps what holds of it.  The
\* step of one order is therefore a matter of the lines of that order.
LEMMA OneOrderMoves ==
  ASSUME FulfilmentInv, FulfilmentTypeOK', NEW o \in Orders, UNCHANGED placed,
         \A other \in Orders \ {o} : po'[other] = po[other],
         \A l \in Lines : placed[l] # o => \A d \in Dimension : qty'[l][d] = qty[l][d],
         \A l \in Lines : placed[l] = o =>
           /\ qty'[l]["invoiced"] <= qty'[l]["received"]
           /\ qty'[l]["received"] <= qty'[l]["shipped"]
           /\ qty'[l]["shipped"] <= Ordered[l]
           /\ qty'[l]["shipped"] <= qty'[l]["confirmed"]
           /\ po'[o] \in Producing \cup Shipped => qty'[l]["confirmed"] > 0
           /\ po'[o] = "cancelled" => /\ qty'[l]["cancelled"] = Ordered[l] /\ qty'[l]["shipped"] = 0
                                      /\ qty'[l]["received"] = 0 /\ qty'[l]["invoiced"] = 0,
         po'[o] \in {"partially_shipped", "shipped"} => (po'[o] = "shipped" <=> ~Missing(o, "shipped")'),
         po'[o] \in {"partially_received", "received"} => (po'[o] = "received" <=> ~Missing(o, "received")')
  PROVE  QuantityInv'
<1>0. \A d \in {"confirmed", "shipped", "received", "invoiced", "cancelled"} : d \in Dimension
  BY DEF Dimension
<1> USE DEF FulfilmentInv, QuantityInv
<1>1. GoodsAreBacked'
  BY <1>0 DEF GoodsAreBacked
<1>2. ShippableIsConfirmed'
  BY <1>0 DEF ShippableIsConfirmed
<1>3. CancelledOrderIsBare'
  <2> SUFFICES ASSUME NEW p \in Orders, po'[p] = "cancelled", NEW l \in Lines, placed[l] = p
               PROVE  /\ qty'[l]["cancelled"] = Ordered[l] /\ qty'[l]["shipped"] = 0
                      /\ qty'[l]["received"] = 0 /\ qty'[l]["invoiced"] = 0
    BY DEF CancelledOrderIsBare, LinesOf
  <2>1. CASE p = o
    BY <2>1
  <2>2. CASE p # o
    BY <2>2, <1>0 DEF CancelledOrderIsBare, LinesOf
  <2>3. QED BY <2>1, <2>2
<1>4. StatusTellsQuantities'
  <2>1. \A p \in Orders \ {o}, d \in {"shipped", "received"} : Missing(p, d)' <=> Missing(p, d)
    BY <1>0 DEF Missing, LinesOf
  <2>2. QED BY <2>1 DEF StatusTellsQuantities
<1>5. QED BY <1>1, <1>2, <1>3, <1>4

\* An order whose quantities stay as they are.
LEMMA OnlyStatusMoves ==
  ASSUME FulfilmentInv, FulfilmentTypeOK', NEW o \in Orders, NEW status,
         UNCHANGED <<placed, qty>>, SetStatus(o, status),
         status \in Producing \cup Shipped => po[o] \in Producing \cup Shipped,
         status # "cancelled",
         status \in {"partially_shipped", "shipped", "partially_received", "received"} => status = po[o]
  PROVE  QuantityInv'
<1>1. /\ po'[o] = status /\ po \in [Orders -> PoStatus]
      /\ \A other \in Orders \ {o} : po'[other] = po[other]
  BY DEF FulfilmentInv, FulfilmentTypeOK, SetStatus
<1>2. \A d \in {"shipped", "received"} : Missing(o, d)' <=> Missing(o, d)
  BY DEF Missing, LinesOf
<1>3. \A l \in Lines : placed[l] = o =>
           /\ qty'[l]["invoiced"] <= qty'[l]["received"]
           /\ qty'[l]["received"] <= qty'[l]["shipped"]
           /\ qty'[l]["shipped"] <= Ordered[l]
           /\ qty'[l]["shipped"] <= qty'[l]["confirmed"]
           /\ po'[o] \in Producing \cup Shipped => qty'[l]["confirmed"] > 0
  BY <1>1 DEF FulfilmentInv, QuantityInv, GoodsAreBacked, ShippableIsConfirmed
<1>4. /\ po'[o] \in {"partially_shipped", "shipped"} => (po'[o] = "shipped" <=> ~Missing(o, "shipped")')
      /\ po'[o] \in {"partially_received", "received"} => (po'[o] = "received" <=> ~Missing(o, "received")')
  BY <1>1, <1>2 DEF FulfilmentInv, QuantityInv, StatusTellsQuantities
<1>5. QED BY <1>1, <1>3, <1>4, OneOrderMoves

\* Confirmations stay as they are, and no order becomes absent again.
LEMMA ConfirmationsStay ==
  ASSUME FulfilmentInv, NEW o \in Orders, NEW status \in PoStatus \ {"absent"},
         UNCHANGED <<placed, confirmation>>, SetStatus(o, status)
  PROVE  ConfirmationsCover'
BY DEF FulfilmentInv, FulfilmentTypeOK, ConfirmationsCover, SetStatus

LEMMA OrderSentStep ==
  ASSUME FulfilmentInv, NEW o \in Orders, OrderSent(o)
  PROVE  FulfilmentInv'
<1>1. FulfilmentTypeOK'
  BY DEF FulfilmentInv, FulfilmentTypeOK, OrderSent, SetStatus, PoStatus
<1>2. QuantityInv'
  BY <1>1, OnlyStatusMoves DEF OrderSent, Producing, Shipped
<1>3. ConfirmationsCover'
  BY ConfirmationsStay DEF OrderSent, PoStatus
<1>4. QED BY <1>1, <1>2, <1>3 DEF FulfilmentInv

LEMMA ProductionStep ==
  ASSUME FulfilmentInv, NEW o \in Orders, RecordProductionProgress(o)
  PROVE  FulfilmentInv'
<1> DEFINE status == ProductionStatus(o, ready')
<1>1. /\ status \in {"partially_shipped", "awaiting_shipment", "in_production"}
      /\ status = "partially_shipped" => po[o] = "partially_shipped"
      /\ po[o] \in Producing
      /\ SetStatus(o, status) /\ UNCHANGED <<placed, qty, confirmation, receipt, invoice>>
  BY DEF RecordProductionProgress, ProductionStatus
<1>2. ready' \subseteq Lines
  BY DEF RecordProductionProgress, LinesOf, FulfilmentInv, FulfilmentTypeOK
<1> HIDE DEF status
<1>3. FulfilmentTypeOK'
  BY <1>1, <1>2 DEF FulfilmentInv, FulfilmentTypeOK, SetStatus, PoStatus, Producing, Shipped
<1>4. QuantityInv'
  BY <1>1, <1>3, OnlyStatusMoves DEF Producing, Shipped
<1>5. ConfirmationsCover'
  BY <1>1, ConfirmationsStay DEF PoStatus, Producing, Shipped
<1>6. QED BY <1>3, <1>4, <1>5 DEF FulfilmentInv

LEMMA InvoiceStep ==
  ASSUME FulfilmentInv, NEW i \in Invoices, MatchInvoice(i) \/ DecideAp(i) \/ InvoiceWritten(i)
  PROVE  FulfilmentInv'
<1>1. PICK status \in InvoiceStatus : SetInvoice(i, status)
  BY DEF MatchInvoice, DecideAp, InvoiceWritten, InvoiceStatus
<1>2. FulfilmentTypeOK'
  <2>1. [invoice[i] EXCEPT !.status = status] \in Invoice
    BY DEF FulfilmentInv, FulfilmentTypeOK, Invoice
  <2>2. QED BY <1>1, <2>1 DEF FulfilmentInv, FulfilmentTypeOK, SetInvoice
<1>3. QuantityInv' /\ ConfirmationsCover'
  BY <1>1 DEF FulfilmentInv, QuantityInv, ConfirmationsCover, GoodsAreBacked, ShippableIsConfirmed,
     CancelledOrderIsBare, StatusTellsQuantities, Missing, LinesOf, SetInvoice
<1>4. QED BY <1>2, <1>3 DEF FulfilmentInv

LEMMA RecordConfirmationStep ==
  ASSUME FulfilmentInv, NEW o \in Orders, RecordConfirmation(o)
  PROVE  FulfilmentInv'
<1>1. PICK c \in Confirmations, confirmed \in Document(o), approval \in BOOLEAN :
        /\ \A l \in LinesOf(o) : confirmed[l] > 0
        /\ confirmation' = [confirmation EXCEPT
             ![c] = [status |-> IF approval THEN "pending_approval" ELSE "confirmed", po |-> o, confirmed |-> confirmed]]
        /\ qty' = IF approval THEN qty ELSE Plus("confirmed", confirmed)
        /\ SetStatus(o, IF approval THEN "awaiting_confirmation" ELSE "confirmed")
  <2>1. PICK c \in Confirmations, confirmed \in Document(o), deviates \in BOOLEAN :
          /\ \A l \in LinesOf(o) : confirmed[l] > 0
          /\ LET approval == deviates \/ \E l \in LinesOf(o) : confirmed[l] # Ordered[l]
                 status == IF approval THEN "pending_approval" ELSE "confirmed"
             IN /\ confirmation' = [confirmation EXCEPT
                     ![c] = [status |-> status, po |-> o, confirmed |-> confirmed]]
                /\ qty' = IF approval THEN qty ELSE Plus("confirmed", confirmed)
                /\ SetStatus(o, IF approval THEN "awaiting_confirmation" ELSE "confirmed")
    BY DEF RecordConfirmation
  <2>2. (deviates \/ \E l \in LinesOf(o) : confirmed[l] # Ordered[l]) \in BOOLEAN
    OBVIOUS
  <2>3. QED BY <2>1, <2>2
<1> DEFINE status == IF approval THEN "awaiting_confirmation" ELSE "confirmed"
<1>2. UNCHANGED <<placed, ready, receipt, invoice>> /\ po[o] \in {"sent", "awaiting_confirmation", "confirmed"}
  BY DEF RecordConfirmation
<1>3. confirmed \in [Lines -> Upto] /\ confirmed \in [Lines -> Nat]
      /\ \A l \in Lines : placed[l] # o => confirmed[l] = 0
  BY DocumentLines
<1>4. "confirmed" \in Dimension
  BY DEF Dimension
<1>5. qty' \in [Lines -> [Dimension -> Nat]]
      /\ \A l \in Lines, e \in Dimension :
           qty'[l][e] = IF e = "confirmed" /\ ~approval THEN qty[l][e] + confirmed[l] ELSE qty[l][e]
  BY <1>1, <1>3, <1>4, PlusQuantities DEF FulfilmentInv, FulfilmentTypeOK
<1>6. FulfilmentTypeOK'
  <2>1. [status |-> IF approval THEN "pending_approval" ELSE "confirmed", po |-> o, confirmed |-> confirmed]
          \in Confirmation
    BY <1>3 DEF Confirmation
  <2>2. confirmation' \in [Confirmations -> Confirmation]
    BY <1>1, <2>1 DEF FulfilmentInv, FulfilmentTypeOK
  <2>3. po' \in [Orders -> PoStatus]
    BY <1>1 DEF FulfilmentInv, FulfilmentTypeOK, SetStatus, PoStatus, Producing
  <2>4. QED BY <1>2, <1>5, <2>2, <2>3 DEF FulfilmentInv, FulfilmentTypeOK
<1>7. po'[o] = status /\ \A other \in Orders \ {o} : po'[other] = po[other]
  BY <1>1 DEF FulfilmentInv, FulfilmentTypeOK, SetStatus
<1>8. QuantityInv'
  <2>1. \A l \in Lines : placed[l] # o => \A d \in Dimension : qty'[l][d] = qty[l][d]
    BY <1>3, <1>5, Facts DEF FulfilmentInv
  <2>2. \A l \in Lines : placed[l] = o =>
           /\ qty'[l]["invoiced"] <= qty'[l]["received"]
           /\ qty'[l]["received"] <= qty'[l]["shipped"]
           /\ qty'[l]["shipped"] <= Ordered[l]
           /\ qty'[l]["shipped"] <= qty'[l]["confirmed"]
           /\ po'[o] \in Producing \cup Shipped => qty'[l]["confirmed"] > 0
    <3> SUFFICES ASSUME NEW l \in Lines, placed[l] = o
                 PROVE  /\ qty'[l]["invoiced"] <= qty'[l]["received"]
                        /\ qty'[l]["received"] <= qty'[l]["shipped"]
                        /\ qty'[l]["shipped"] <= Ordered[l]
                        /\ qty'[l]["shipped"] <= qty'[l]["confirmed"]
                        /\ po'[o] \in Producing \cup Shipped => qty'[l]["confirmed"] > 0
      OBVIOUS
    <3>1. confirmed[l] \in Nat /\ confirmed[l] > 0
      BY <1>1, <1>3 DEF LinesOf
    <3>2. \A d \in {"confirmed", "shipped", "received", "invoiced", "cancelled"} :
            qty[l][d] \in Nat /\ d \in Dimension
      BY Facts DEF FulfilmentInv
    <3>3. /\ qty'[l]["invoiced"] = qty[l]["invoiced"] /\ qty'[l]["received"] = qty[l]["received"]
          /\ qty'[l]["shipped"] = qty[l]["shipped"] /\ qty'[l]["confirmed"] >= qty[l]["confirmed"]
          /\ ~approval => qty'[l]["confirmed"] > 0
          /\ qty'[l]["confirmed"] \in Nat
      BY <1>5, <3>1, <3>2
    <3>4. Ordered[l] \in Nat
      BY OrderedAssumption
    <3>5. po'[o] \in Producing \cup Shipped => ~approval
      BY <1>7 DEF Producing, Shipped
    <3>6. QED BY <3>2, <3>3, <3>4, <3>5 DEF FulfilmentInv, QuantityInv, GoodsAreBacked
  <2>3. QED BY <1>2, <1>6, <1>7, <2>1, <2>2, OneOrderMoves
<1>9. ConfirmationsCover'
  BY <1>1, <1>2, <1>3, <1>7 DEF FulfilmentInv, FulfilmentTypeOK, ConfirmationsCover, LinesOf
<1>10. QED BY <1>6, <1>8, <1>9 DEF FulfilmentInv

\* The quantities of a line, all at once, and how they stand to each other.
LEMMA LineQuantities ==
  ASSUME FulfilmentInv, NEW l \in Lines
  PROVE  /\ \A d \in {"confirmed", "shipped", "received", "invoiced", "cancelled"} :
              qty[l][d] \in Nat /\ d \in Dimension
         /\ Ordered[l] \in Nat \ {0}
         /\ qty[l]["invoiced"] <= qty[l]["received"] /\ qty[l]["received"] <= qty[l]["shipped"]
         /\ qty[l]["shipped"] <= Ordered[l] /\ qty[l]["shipped"] <= qty[l]["confirmed"]
BY Facts DEF FulfilmentInv, QuantityInv, GoodsAreBacked

LEMMA DecideConfirmationStep ==
  ASSUME FulfilmentInv, NEW c \in Confirmations, DecideConfirmation(c)
  PROVE  FulfilmentInv'
<1> DEFINE o == confirmation[c].po
           document == confirmation[c].confirmed
<1>0. /\ confirmation[c] \in Confirmation /\ confirmation[c].status = "pending_approval"
      /\ po[o] = "awaiting_confirmation" /\ UNCHANGED <<placed, ready, receipt, invoice>>
  BY DEF DecideConfirmation, Decidable, FulfilmentInv, FulfilmentTypeOK
<1>1. /\ o \in Orders
      /\ \A l \in Lines : IF placed[l] = o THEN document[l] > 0 ELSE document[l] = 0
  BY <1>0 DEF FulfilmentInv, ConfirmationsCover
<1>2. \A l \in Lines : document[l] \in Nat
  BY <1>0, OrderedAssumption DEF Confirmation, Upto
<1>3. ASSUME NEW status \in {"confirmed", "rejected"},
             confirmation' = [confirmation EXCEPT ![c].status = status], SetStatus(o, status)
      PROVE  /\ confirmation' \in [Confirmations -> Confirmation]
             /\ po' \in [Orders -> PoStatus] /\ po'[o] = status
             /\ \A other \in Orders \ {o} : po'[other] = po[other]
             /\ ConfirmationsCover'
  <2>1. [confirmation[c] EXCEPT !.status = status] \in Confirmation
    BY <1>0 DEF Confirmation
  <2>2. confirmation' = [confirmation EXCEPT ![c] = [confirmation[c] EXCEPT !.status = status]]
    BY <1>3
  <2>3. confirmation' \in [Confirmations -> Confirmation]
    BY <2>1, <2>2 DEF FulfilmentInv, FulfilmentTypeOK
  <2>4. po' \in [Orders -> PoStatus] /\ po'[o] = status /\ \A other \in Orders \ {o} : po'[other] = po[other]
    BY <1>1, <1>3 DEF FulfilmentInv, FulfilmentTypeOK, SetStatus, PoStatus, Producing
  <2>5. \A b \in Confirmations : /\ confirmation'[b].po = confirmation[b].po
                                 /\ confirmation'[b].confirmed = confirmation[b].confirmed
                                 /\ confirmation'[b].status = "absent" <=> confirmation[b].status = "absent"
    BY <1>0, <2>2 DEF FulfilmentInv, FulfilmentTypeOK, Confirmation
  <2>6. ConfirmationsCover'
    BY <1>0, <2>4, <2>5 DEF FulfilmentInv, ConfirmationsCover
  <2>7. QED BY <2>3, <2>4, <2>6
<1>4. CASE confirmation' = [confirmation EXCEPT ![c].status = "rejected"] /\ SetStatus(o, "rejected") /\ UNCHANGED qty
  <2>1. FulfilmentTypeOK' /\ ConfirmationsCover'
    BY <1>0, <1>3, <1>4 DEF FulfilmentInv, FulfilmentTypeOK
  <2>2. QuantityInv'
    BY <1>0, <1>1, <1>4, <2>1, OnlyStatusMoves DEF Producing, Shipped
  <2>3. QED BY <2>1, <2>2 DEF FulfilmentInv
<1>5. CASE /\ Approvable(c)
           /\ qty' = [l \in Lines |-> [qty[l] EXCEPT !["confirmed"] = @ + document[l], !["cancelled"] = @ + Remainder(c)[l]]]
           /\ confirmation' = [confirmation EXCEPT ![c].status = "confirmed"] /\ SetStatus(o, "confirmed")
  <2>1. \A l \in Lines : Remainder(c)[l] \in Nat /\ (placed[l] # o => Remainder(c)[l] = 0)
    BY <1>2, <1>5, OrderedAssumption DEF Approvable, Remainder
  <2>2. ASSUME NEW l \in Lines
        PROVE  /\ qty'[l] \in [Dimension -> Nat]
               /\ \A d \in Dimension : qty'[l][d] = IF d = "confirmed" THEN qty[l][d] + document[l]
                                                    ELSE IF d = "cancelled" THEN qty[l][d] + Remainder(c)[l]
                                                    ELSE qty[l][d]
    <3>1. qty[l] \in [Dimension -> Nat] /\ document[l] \in Nat /\ Remainder(c)[l] \in Nat
      BY <1>2, <2>1 DEF FulfilmentInv, FulfilmentTypeOK
    <3>2. qty'[l] = [qty[l] EXCEPT !["confirmed"] = @ + document[l], !["cancelled"] = @ + Remainder(c)[l]]
      BY <1>5
    <3> HIDE DEF document
    <3>3. QED BY <3>1, <3>2 DEF Dimension
  <2>3. qty' \in [Lines -> [Dimension -> Nat]]
    <3>1. qty' = [l \in Lines |-> qty'[l]]
      BY <1>5
    <3>2. QED BY <3>1, <2>2
  <2>4. FulfilmentTypeOK' /\ ConfirmationsCover'
    BY <1>0, <1>3, <1>5, <2>3 DEF FulfilmentInv, FulfilmentTypeOK
  <2>5. po'[o] = "confirmed" /\ \A other \in Orders \ {o} : po'[other] = po[other]
    BY <1>3, <1>5
  <2>6. \A l \in Lines : placed[l] # o => \A d \in Dimension : qty'[l][d] = qty[l][d]
    BY <1>1, <2>1, <2>2, Facts DEF FulfilmentInv
  <2>7. \A l \in Lines : placed[l] = o =>
           /\ qty'[l]["invoiced"] <= qty'[l]["received"]
           /\ qty'[l]["received"] <= qty'[l]["shipped"]
           /\ qty'[l]["shipped"] <= Ordered[l]
           /\ qty'[l]["shipped"] <= qty'[l]["confirmed"]
           /\ qty'[l]["confirmed"] > 0
    <3> SUFFICES ASSUME NEW l \in Lines, placed[l] = o
                 PROVE  /\ qty'[l]["invoiced"] <= qty'[l]["received"]
                        /\ qty'[l]["received"] <= qty'[l]["shipped"]
                        /\ qty'[l]["shipped"] <= Ordered[l]
                        /\ qty'[l]["shipped"] <= qty'[l]["confirmed"]
                        /\ qty'[l]["confirmed"] > 0
      OBVIOUS
    <3>1. document[l] \in Nat /\ document[l] > 0
      BY <1>1, <1>2
    <3>2. /\ qty'[l]["invoiced"] = qty[l]["invoiced"] /\ qty'[l]["received"] = qty[l]["received"]
          /\ qty'[l]["shipped"] = qty[l]["shipped"] /\ qty'[l]["confirmed"] = qty[l]["confirmed"] + document[l]
      BY <2>2, LineQuantities
    <3> HIDE DEF document
    <3>3. QED BY <3>1, <3>2, LineQuantities
  <2>8. QuantityInv'
    BY <1>0, <1>1, <2>4, <2>5, <2>6, <2>7, OneOrderMoves
  <2>9. QED BY <2>4, <2>8 DEF FulfilmentInv
<1>6. QED BY <1>4, <1>5 DEF DecideConfirmation

\* The goods of one document leave the supplier or arrive: what is backed by the
\* quantity before it, and by the order, stays so.
LEMMA ShipmentStep ==
  ASSUME FulfilmentInv, NEW o \in Orders, RecordShipment(o)
  PROVE  FulfilmentInv'
<1>1. PICK shipped \in Document(o) :
        /\ AssertCumulativeWithin("shipped", shipped, [l \in Lines |->
             IF qty[l]["confirmed"] = 0 THEN Ordered[l] ELSE qty[l]["confirmed"]])
        /\ qty' = Plus("shipped", shipped)
        /\ SetStatus(o, IF Complete(o, qty', "shipped") THEN "shipped" ELSE "partially_shipped")
  BY DEF RecordShipment
<1>2. po[o] \in Producing /\ UNCHANGED <<placed, ready, confirmation, receipt, invoice>>
  BY DEF RecordShipment
<1>3. shipped \in [Lines -> Nat] /\ \A l \in Lines : placed[l] # o => shipped[l] = 0
  BY DocumentLines
<1>4. /\ qty' \in [Lines -> [Dimension -> Nat]]
      /\ \A l \in Lines, e \in Dimension :
           qty'[l][e] = IF e = "shipped" THEN qty[l]["shipped"] + shipped[l] ELSE qty[l][e]
  BY <1>1, <1>3, PlusQuantities DEF FulfilmentInv, Dimension
<1> DEFINE status == IF Complete(o, qty', "shipped") THEN "shipped" ELSE "partially_shipped"
<1>5. /\ status \in {"shipped", "partially_shipped"} /\ (status = "shipped" <=> Complete(o, qty', "shipped"))
      /\ po'[o] = status
      /\ po' \in [Orders -> PoStatus] /\ \A other \in Orders \ {o} : po'[other] = po[other]
  <2>1. status \in {"shipped", "partially_shipped"} /\ (status = "shipped" <=> Complete(o, qty', "shipped"))
    OBVIOUS
  <2>2. po' = [po EXCEPT ![o] = status]
    BY <1>1 DEF SetStatus
  <2> HIDE DEF status
  <2>3. QED BY <2>1, <2>2 DEF FulfilmentInv, FulfilmentTypeOK, PoStatus, Shipped
<1>6. FulfilmentTypeOK'
  BY <1>2, <1>4, <1>5 DEF FulfilmentInv, FulfilmentTypeOK
<1>7. ConfirmationsCover'
  BY <1>1, <1>2, ConfirmationsStay DEF PoStatus, Shipped
<1>8. \A l \in Lines : placed[l] # o => \A d \in Dimension : qty'[l][d] = qty[l][d]
  BY <1>3, <1>4, Facts DEF FulfilmentInv
<1>9. ASSUME NEW l \in Lines, placed[l] = o
      PROVE  /\ qty'[l]["invoiced"] <= qty'[l]["received"]
             /\ qty'[l]["received"] <= qty'[l]["shipped"]
             /\ qty'[l]["shipped"] <= Ordered[l]
             /\ qty'[l]["shipped"] <= qty'[l]["confirmed"]
             /\ qty'[l]["confirmed"] > 0
  <2>1. qty[l]["confirmed"] > 0
    BY <1>2, <1>9 DEF FulfilmentInv, QuantityInv, ShippableIsConfirmed
  <2>2. shipped[l] > 0 => /\ qty[l]["shipped"] + shipped[l] <= Ordered[l]
                          /\ qty[l]["shipped"] + shipped[l] <= qty[l]["confirmed"]
    BY <1>1, <2>1, LineQuantities DEF AssertCumulativeWithin
  <2>3. shipped[l] \in Nat
    BY <1>3
  <2>4. /\ qty'[l]["invoiced"] = qty[l]["invoiced"] /\ qty'[l]["received"] = qty[l]["received"]
        /\ qty'[l]["shipped"] = qty[l]["shipped"] + shipped[l] /\ qty'[l]["confirmed"] = qty[l]["confirmed"]
    BY <1>4, LineQuantities
  <2>5. QED BY <2>1, <2>2, <2>3, <2>4, LineQuantities
<1>10. Complete(o, qty', "shipped") <=> ~Missing(o, "shipped")'
  <2>1. \A l \in Lines : qty'[l]["shipped"] \in Nat /\ qty'[l]["cancelled"] \in Nat /\ Ordered[l] \in Nat
    BY <1>4, OrderedAssumption DEF Dimension
  <2>2. QED BY <1>2, <2>1 DEF Complete, Missing, LinesOf
<1>11. QuantityInv'
  BY <1>2, <1>5, <1>6, <1>8, <1>9, <1>10, OneOrderMoves
<1>12. QED BY <1>6, <1>7, <1>11 DEF FulfilmentInv

LEMMA ReceiptStep ==
  ASSUME FulfilmentInv, NEW o \in Orders, RecordReceipt(o)
  PROVE  FulfilmentInv'
<1>1. PICK r \in Receipts, received \in Document(o) :
        /\ AssertCumulativeWithin("received", received, [l \in Lines |-> qty[l]["shipped"]])
        /\ receipt' = [receipt EXCEPT ![r] = received]
        /\ qty' = Plus("received", received)
        /\ SetStatus(o, IF Complete(o, qty', "received") THEN "received" ELSE "partially_received")
  BY DEF RecordReceipt
<1>2. /\ po[o] \in {"partially_shipped", "shipped", "partially_received"}
      /\ UNCHANGED <<placed, ready, confirmation, invoice>>
  BY DEF RecordReceipt
<1>3. /\ received \in [Lines -> Upto] /\ received \in [Lines -> Nat]
      /\ \A l \in Lines : placed[l] # o => received[l] = 0
  BY DocumentLines
<1>4. /\ qty' \in [Lines -> [Dimension -> Nat]]
      /\ \A l \in Lines, e \in Dimension :
           qty'[l][e] = IF e = "received" THEN qty[l]["received"] + received[l] ELSE qty[l][e]
  BY <1>1, <1>3, PlusQuantities DEF FulfilmentInv, Dimension
<1> DEFINE status == IF Complete(o, qty', "received") THEN "received" ELSE "partially_received"
<1>5. /\ status \in {"received", "partially_received"} /\ (status = "received" <=> Complete(o, qty', "received"))
      /\ po'[o] = status
      /\ po' \in [Orders -> PoStatus] /\ \A other \in Orders \ {o} : po'[other] = po[other]
  <2>1. status \in {"received", "partially_received"} /\ (status = "received" <=> Complete(o, qty', "received"))
    OBVIOUS
  <2>2. po' = [po EXCEPT ![o] = status]
    BY <1>1 DEF SetStatus
  <2> HIDE DEF status
  <2>3. QED BY <2>1, <2>2 DEF FulfilmentInv, FulfilmentTypeOK, PoStatus, Shipped
<1>6. FulfilmentTypeOK'
  BY <1>1, <1>2, <1>3, <1>4, <1>5 DEF FulfilmentInv, FulfilmentTypeOK
<1>7. ConfirmationsCover'
  BY <1>1, <1>2, ConfirmationsStay DEF PoStatus, Shipped
<1>8. \A l \in Lines : placed[l] # o => \A d \in Dimension : qty'[l][d] = qty[l][d]
  BY <1>3, <1>4, Facts DEF FulfilmentInv
<1>9. ASSUME NEW l \in Lines, placed[l] = o
      PROVE  /\ qty'[l]["invoiced"] <= qty'[l]["received"]
             /\ qty'[l]["received"] <= qty'[l]["shipped"]
             /\ qty'[l]["shipped"] <= Ordered[l]
             /\ qty'[l]["shipped"] <= qty'[l]["confirmed"]
             /\ qty'[l]["confirmed"] > 0
  <2>1. qty[l]["confirmed"] > 0
    BY <1>2, <1>9 DEF FulfilmentInv, QuantityInv, ShippableIsConfirmed, Shipped
  <2>2. received[l] > 0 => qty[l]["received"] + received[l] <= qty[l]["shipped"]
    BY <1>1 DEF AssertCumulativeWithin
  <2>3. received[l] \in Nat
    BY <1>3
  <2>4. /\ qty'[l]["invoiced"] = qty[l]["invoiced"] /\ qty'[l]["received"] = qty[l]["received"] + received[l]
        /\ qty'[l]["shipped"] = qty[l]["shipped"] /\ qty'[l]["confirmed"] = qty[l]["confirmed"]
    BY <1>4, LineQuantities
  <2>5. QED BY <2>1, <2>2, <2>3, <2>4, LineQuantities
<1>10. Complete(o, qty', "received") <=> ~Missing(o, "received")'
  <2>1. \A l \in Lines : qty'[l]["received"] \in Nat /\ qty'[l]["cancelled"] \in Nat /\ Ordered[l] \in Nat
    BY <1>4, OrderedAssumption DEF Dimension
  <2>2. QED BY <1>2, <2>1 DEF Complete, Missing, LinesOf
<1>11. QuantityInv'
  BY <1>2, <1>5, <1>6, <1>8, <1>9, <1>10, OneOrderMoves
<1>12. QED BY <1>6, <1>7, <1>11 DEF FulfilmentInv

\* An invoice raises what is invoiced of one line, up to what was received of it.
LEMMA RecordInvoiceStep ==
  ASSUME FulfilmentInv, NEW o \in Orders, RecordInvoice(o)
  PROVE  FulfilmentInv'
<1>1. PICK i \in Invoices, l \in LinesOf(o), allocated \in [Receipts -> Upto], quantity \in 1..MaxQty :
        /\ AssertCumulativeWithin("invoiced", [k \in Lines |-> IF k = l THEN quantity ELSE 0],
                                  [k \in Lines |-> qty[k]["received"]])
        /\ invoice' = [invoice EXCEPT
             ![i] = [status |-> "received", line |-> l, quantity |-> quantity, allocated |-> allocated]]
        /\ qty' = [qty EXCEPT ![l]["invoiced"] = @ + quantity]
  <2>1. PICK i \in Invoices, l \in LinesOf(o), allocated \in [Receipts -> Upto] :
          /\ Total(allocated) \in 1..MaxQty
          /\ AssertCumulativeWithin("invoiced", [k \in Lines |-> IF k = l THEN Total(allocated) ELSE 0],
                                    [k \in Lines |-> qty[k]["received"]])
          /\ invoice' = [invoice EXCEPT
               ![i] = [status |-> "received", line |-> l, quantity |-> Total(allocated), allocated |-> allocated]]
          /\ qty' = [qty EXCEPT ![l]["invoiced"] = @ + Total(allocated)]
    BY DEF RecordInvoice
  <2> DEFINE quantity == Total(allocated)
  <2> HIDE DEF quantity
  <2>2. QED BY <2>1 DEF quantity
<1>2. UNCHANGED <<placed, po, ready, confirmation, receipt>>
  BY DEF RecordInvoice
<1>3. l \in Lines /\ placed[l] = o /\ quantity \in Nat /\ quantity > 0 /\ quantity \in Upto
  BY OrderedAssumption DEF LinesOf, Upto
<1>4. /\ qty' \in [Lines -> [Dimension -> Nat]]
      /\ \A k \in Lines, e \in Dimension :
           qty'[k][e] = IF k = l /\ e = "invoiced" THEN qty[l]["invoiced"] + quantity ELSE qty[k][e]
  <2>1. qty \in [Lines -> [Dimension -> Nat]] /\ "invoiced" \in Dimension
    BY DEF FulfilmentInv, FulfilmentTypeOK, Dimension
  <2>2. [qty[l] EXCEPT !["invoiced"] = @ + quantity] \in [Dimension -> Nat]
    BY <1>3, <2>1
  <2>3. qty' = [qty EXCEPT ![l] = [qty[l] EXCEPT !["invoiced"] = @ + quantity]]
    BY <1>1, <1>3, <2>1
  <2>4. QED BY <1>3, <2>1, <2>2, <2>3
<1>5. FulfilmentTypeOK'
  <2>1. [status |-> "received", line |-> l, quantity |-> quantity, allocated |-> allocated] \in Invoice
    BY <1>3 DEF Invoice, InvoiceStatus
  <2>2. QED BY <1>1, <1>2, <1>4, <2>1 DEF FulfilmentInv, FulfilmentTypeOK
<1>6. qty[l]["invoiced"] + quantity <= qty[l]["received"]
  BY <1>1, <1>3 DEF AssertCumulativeWithin
<1>7. po[o] \in {"partially_received", "received"}
  BY DEF RecordInvoice
<1>8. \A k \in Lines : placed[k] # o => \A d \in Dimension : qty'[k][d] = qty[k][d]
  BY <1>3, <1>4
<1>9. ASSUME NEW k \in Lines, placed[k] = o
      PROVE  /\ qty'[k]["invoiced"] <= qty'[k]["received"]
             /\ qty'[k]["received"] <= qty'[k]["shipped"]
             /\ qty'[k]["shipped"] <= Ordered[k]
             /\ qty'[k]["shipped"] <= qty'[k]["confirmed"]
             /\ qty'[k]["confirmed"] > 0
  <2>1. qty[k]["confirmed"] > 0
    BY <1>7, <1>9 DEF FulfilmentInv, QuantityInv, ShippableIsConfirmed, Shipped
  <2>2. /\ qty'[k]["received"] = qty[k]["received"] /\ qty'[k]["shipped"] = qty[k]["shipped"]
        /\ qty'[k]["confirmed"] = qty[k]["confirmed"]
        /\ qty'[k]["invoiced"] = IF k = l THEN qty[l]["invoiced"] + quantity ELSE qty[k]["invoiced"]
    BY <1>4, LineQuantities
  <2>3. QED BY <1>6, <2>1, <2>2, LineQuantities
<1>10. \A d \in {"shipped", "received"} : Missing(o, d)' <=> Missing(o, d)
  BY <1>2, <1>4 DEF Missing, LinesOf, Dimension
<1>11. QuantityInv'
  BY <1>2, <1>5, <1>7, <1>8, <1>9, <1>10, OneOrderMoves DEF FulfilmentInv, QuantityInv, StatusTellsQuantities
<1>12. ConfirmationsCover'
  BY <1>2 DEF FulfilmentInv, ConfirmationsCover
<1>13. QED BY <1>5, <1>11, <1>12 DEF FulfilmentInv

LEMMA CancelStep ==
  ASSUME FulfilmentInv, NEW o \in Orders, CancelPurchaseOrder(o)
  PROVE  FulfilmentInv'
<1>1. /\ Cancellable(o) /\ SetStatus(o, "cancelled")
      /\ qty' = [l \in Lines |->
           IF l \in LinesOf(o) THEN [qty[l] EXCEPT !["cancelled"] = Ordered[l]] ELSE qty[l]]
      /\ UNCHANGED <<placed, ready, confirmation, receipt, invoice>>
  BY DEF CancelPurchaseOrder
<1>2. /\ qty' \in [Lines -> [Dimension -> Nat]]
      /\ \A l \in Lines, e \in Dimension :
           qty'[l][e] = IF placed[l] = o /\ e = "cancelled" THEN Ordered[l] ELSE qty[l][e]
  <2>1. \A l \in Lines : qty[l] \in [Dimension -> Nat] /\ Ordered[l] \in Nat
    BY OrderedAssumption DEF FulfilmentInv, FulfilmentTypeOK
  <2>2. ASSUME NEW l \in Lines
        PROVE  /\ [qty[l] EXCEPT !["cancelled"] = Ordered[l]] \in [Dimension -> Nat]
               /\ \A e \in Dimension : [qty[l] EXCEPT !["cancelled"] = Ordered[l]][e]
                                         = IF e = "cancelled" THEN Ordered[l] ELSE qty[l][e]
    BY <2>1
  <2>3. QED BY <1>1, <2>1, <2>2 DEF LinesOf
<1>3. po' \in [Orders -> PoStatus] /\ po'[o] = "cancelled" /\ \A other \in Orders \ {o} : po'[other] = po[other]
  BY <1>1 DEF FulfilmentInv, FulfilmentTypeOK, SetStatus, PoStatus
<1>4. FulfilmentTypeOK'
  BY <1>1, <1>2, <1>3 DEF FulfilmentInv, FulfilmentTypeOK
<1>5. ConfirmationsCover'
  BY <1>1, ConfirmationsStay DEF PoStatus
<1>6. ASSUME NEW l \in Lines, placed[l] = o
      PROVE  /\ qty'[l]["invoiced"] = 0 /\ qty'[l]["received"] = 0 /\ qty'[l]["shipped"] = 0
             /\ qty'[l]["cancelled"] = Ordered[l]
             /\ qty'[l]["confirmed"] \in Nat /\ Ordered[l] \in Nat
  BY <1>1, <1>2, <1>6, OrderedAssumption DEF Cancellable, LinesOf, Dimension
<1>7. QuantityInv'
  BY <1>1, <1>2, <1>3, <1>4, <1>6, OneOrderMoves DEF Producing, Shipped
<1>8. QED BY <1>4, <1>5, <1>7 DEF FulfilmentInv

LEMMA FulfilmentStep ==
  ASSUME FulfilmentInv, FulfilmentNext
  PROVE  FulfilmentInv'
BY OrderSentStep, RecordConfirmationStep, ProductionStep, ShipmentStep, ReceiptStep, RecordInvoiceStep,
   CancelStep, DecideConfirmationStep, InvoiceStep
DEF FulfilmentNext

-----------------------------------------------------------------------------
(***************************************************************************)
(* Sourcing.                                                               *)
(***************************************************************************)

\* Until the award there are no orders.
NothingPlaced ==
  rfq.status # "awarded" => \A o \in Orders : po[o] = "absent"

\* What a buyer was shown is the comparison the RFQ refers to, for as long as nothing
\* has changed since.
BallotsAreCurrent ==
  \A b \in Buyers : ballot[b].current => ballot[b].shown = rfq.snapshot

\* A comparison holds quotes: one that comes in after it can tell that there was one.
ComparedHasQuotes ==
  rfq.status \in {"compared", "pending_award"} => rfq.snapshot # None

SourcingInv ==
  /\ SourcingTypeOK
  /\ ComparisonIsComplete
  /\ AwardSawEveryQuote
  /\ BallotsAreCurrent
  /\ ComparedHasQuotes

Inv == FulfilmentInv /\ SourcingInv /\ NothingPlaced

LEMMA InitInv == Init => Inv
<1> SUFFICES ASSUME Init PROVE Inv
  OBVIOUS
<1>1. SourcingInv
  BY DEF Init, SourcingInit, SourcingInv, SourcingTypeOK, RfqStatus, Open, Ballot, None,
     ComparisonIsComplete, AwardSawEveryQuote, BallotsAreCurrent, ComparedHasQuotes
<1>2. NothingPlaced
  BY DEF Init, FulfilmentInit, NothingPlaced
<1>3. QED BY <1>1, <1>2, InitFulfilment DEF Inv

\* Whatever was shown before is out of date.
LEMMA OutdatedBallots ==
  ASSUME SourcingTypeOK
  PROVE  /\ Outdated \in [Buyers -> Ballot]
         /\ \A b \in Buyers : ~Outdated[b].current
BY DEF SourcingTypeOK, Outdated, Ballot

\* A quote undoes the comparison it is not part of, and an RFQ nobody compared has none.
LEMMA SourceStep ==
  ASSUME SourcingInv, Source
  PROVE  SourcingInv' /\ (rfq.status = "awarded" => UNCHANGED rfq)
<1> USE DEF SourcingInv
<1>0. /\ rfq \in [status : RfqStatus, snapshot : SUBSET Quotes] /\ quotes \subseteq Quotes
      /\ mails \subseteq Suppliers /\ ballot \in [Buyers -> Ballot] /\ award \in SUBSET Quotes
  BY DEF SourcingTypeOK
\* A write of the RFQ that neither awards it nor refers to an old comparison.
<1>1. ASSUME NEW status \in RfqStatus \ {"awarded"}, NEW snapshot \in SUBSET Quotes,
             WriteRfq(status, snapshot), UNCHANGED award, rfq.status # "awarded",
             quotes' \subseteq Quotes, mails' \subseteq Suppliers,
             status \in {"compared", "pending_award"} => snapshot = quotes' /\ snapshot # None
      PROVE  SourcingInv' /\ (rfq.status = "awarded" => UNCHANGED rfq)
  BY <1>0, <1>1, OutdatedBallots
  DEF WriteRfq, SourcingTypeOK, ComparisonIsComplete, AwardSawEveryQuote, BallotsAreCurrent, ComparedHasQuotes
<1>2. ASSUME UNCHANGED <<rfq, quotes, ballot, award>>, mails' \subseteq Suppliers
      PROVE  SourcingInv' /\ (rfq.status = "awarded" => UNCHANGED rfq)
  BY <1>0, <1>2
  DEF SourcingTypeOK, ComparisonIsComplete, AwardSawEveryQuote, BallotsAreCurrent, ComparedHasQuotes
<1>3. ASSUME NEW s \in Suppliers, SendRfq(s) \/ RfqSent(s) \/ RfqNotRecordedSent(s)
      PROVE  SourcingInv' /\ (rfq.status = "awarded" => UNCHANGED rfq)
  <2>1. mails' \subseteq Suppliers /\ UNCHANGED <<quotes, award>>
    BY <1>0, <1>3 DEF SendRfq, RfqSent, RfqNotRecordedSent
  <2>2. UNCHANGED <<rfq, ballot>> \/ (WriteRfq("sent", rfq.snapshot) /\ rfq.status = "draft")
    BY <1>3 DEF SendRfq, RfqSent, RfqNotRecordedSent
  <2>3. CASE UNCHANGED <<rfq, ballot>>
    BY <2>1, <2>3, <1>2
  <2>4. CASE WriteRfq("sent", rfq.snapshot) /\ rfq.status = "draft"
    BY <1>0, <1>1, <2>1, <2>4 DEF RfqStatus, Open
  <2>5. QED BY <2>2, <2>3, <2>4
<1>4. ASSUME NEW q \in Quotes, AddQuote(q)
      PROVE  SourcingInv' /\ (rfq.status = "awarded" => UNCHANGED rfq)
  <2>1. quotes' \subseteq Quotes /\ UNCHANGED <<mails, award>> /\ rfq.status # "awarded"
    BY <1>0, <1>4 DEF AddQuote
  <2>2. Quoted(quotes') \in {"quotes_complete", "partial_quotes"}
    BY DEF Quoted
  <2>3. CASE WriteRfq(Quoted(quotes'), None)
    BY <1>0, <1>1, <2>1, <2>2, <2>3 DEF RfqStatus, Open, None
  <2>4. CASE UNCHANGED <<rfq, ballot>> /\ rfq.status \notin {"compared", "pending_award"}
    BY <1>0, <2>1, <2>4
    DEF SourcingTypeOK, ComparisonIsComplete, AwardSawEveryQuote, BallotsAreCurrent, ComparedHasQuotes
  <2>5. QED BY <1>4, <2>3, <2>4 DEF AddQuote, Open, ComparedHasQuotes
<1>5. CASE Compare
  <2>1. quotes # {}
    BY <1>5, LinesAssumption DEF Compare
  <2>2. PICK status \in {"pending_award", "compared"} : WriteRfq(status, quotes)
    BY <1>5 DEF Compare
  <2>3. UNCHANGED <<quotes, mails, award>> /\ rfq.status # "awarded"
    BY <1>5 DEF Compare
  <2>4. QED BY <1>0, <1>1, <2>1, <2>2, <2>3 DEF RfqStatus, Open, None
<1>6. ASSUME NEW b \in Buyers, ReadRfq(b)
      PROVE  SourcingInv' /\ (rfq.status = "awarded" => UNCHANGED rfq)
  BY <1>0, <1>6
  DEF ReadRfq, SourcingTypeOK, Ballot, ComparisonIsComplete, AwardSawEveryQuote, BallotsAreCurrent, ComparedHasQuotes
<1>7. QED BY <1>3, <1>4, <1>5, <1>6 DEF Source

\* The award takes what its buyer was shown, which is the current comparison, and
\* finds no order and no confirmation yet.
LEMMA AwardStep ==
  ASSUME Inv, NEW b \in Buyers, NEW choice \in [Lines -> Quotes], AwardRfq(b, choice)
  PROVE  Inv'
<1> DEFINE supplierOf == [l \in Lines |-> SupplierOf[choice[l]]]
<1>0. /\ rfq \in [status : RfqStatus, snapshot : SUBSET Quotes] /\ quotes \subseteq Quotes
      /\ mails \subseteq Suppliers /\ ballot \in [Buyers -> Ballot] /\ award \in SUBSET Quotes
  BY DEF Inv, SourcingInv, SourcingTypeOK
<1>1. /\ ballot[b].current /\ rfq.status = "pending_award"
      /\ rfq' = [rfq EXCEPT !.status = "awarded"] /\ award' = ballot[b].shown
      /\ ballot' = [Outdated EXCEPT ![b].shown = None]
      /\ CreateDraftOrders(supplierOf) /\ UNCHANGED <<quotes, mails>>
  BY DEF AwardRfq, Awardable
<1>2. SourcingInv'
  <2>1. award' = quotes /\ rfq'.status = "awarded" /\ rfq'.snapshot = quotes
    BY <1>0, <1>1 DEF Inv, SourcingInv, BallotsAreCurrent, ComparisonIsComplete
  <2>2. ballot' \in [Buyers -> Ballot] /\ \A u \in Buyers : ~ballot'[u].current
    BY <1>0, <1>1, OutdatedBallots DEF Inv, SourcingInv, Ballot, None
  <2>3. rfq' \in [status : RfqStatus, snapshot : SUBSET Quotes]
    BY <1>0, <1>1 DEF RfqStatus
  <2>4. QED
    BY <1>0, <1>1, <2>1, <2>2, <2>3
    DEF SourcingInv, SourcingTypeOK, ComparisonIsComplete, AwardSawEveryQuote, BallotsAreCurrent, ComparedHasQuotes
<1>3. supplierOf \in [Lines -> Orders]
  BY QuotesAssumption, SuppliersAssumption
<1> HIDE DEF supplierOf
<1>4. /\ placed' = supplierOf /\ UNCHANGED <<qty, ready, confirmation, receipt, invoice>>
      /\ \A o \in Orders : po[o] = "absent" /\ po'[o] \in {"draft", "absent"}
      /\ po' \in [Orders -> {"draft", "absent"}]
  <2>1. \A o \in Orders : po[o] = "absent"
    BY <1>1 DEF Inv, NothingPlaced
  <2>2. QED BY <1>1, <2>1 DEF CreateDraftOrders
<1>5. FulfilmentTypeOK'
  BY <1>3, <1>4 DEF Inv, FulfilmentInv, FulfilmentTypeOK, PoStatus
<1>6. ConfirmationsCover'
  BY <1>4 DEF Inv, FulfilmentInv, ConfirmationsCover
<1>7. QuantityInv'
  BY <1>4 DEF Inv, FulfilmentInv, QuantityInv, GoodsAreBacked, ShippableIsConfirmed, CancelledOrderIsBare,
     StatusTellsQuantities, Producing, Shipped
<1>8. NothingPlaced'
  BY <1>0, <1>1 DEF NothingPlaced
<1>9. QED BY <1>2, <1>5, <1>6, <1>7, <1>8 DEF Inv, FulfilmentInv

\* A command finds an order, and leaves it or another one a status of its own.
LEMMA CommandMoves ==
  ASSUME FulfilmentInv, FulfilmentNext
  PROVE  \/ UNCHANGED po
         \/ \E o \in Orders, status \in PoStatus :
              /\ po[o] # "absent" /\ SetStatus(o, status)
              /\ Stage(status) >= Stage(po[o])
<1>1. ASSUME NEW o \in Orders, OrderSent(o) \/ RecordConfirmation(o)
      PROVE  \E status \in PoStatus : /\ po[o] # "absent" /\ SetStatus(o, status)
                                      /\ Stage(status) >= Stage(po[o])
  <2>1. PICK status \in {"sent", "awaiting_confirmation", "confirmed"} : SetStatus(o, status)
    BY <1>1 DEF OrderSent, RecordConfirmation
  <2>2. po[o] \in {"draft", "sent", "awaiting_confirmation", "confirmed"}
    BY <1>1 DEF OrderSent, RecordConfirmation
  <2>3. status \in PoStatus /\ Stage(status) = 0 /\ Stage(po[o]) = 0
    BY <2>1, <2>2 DEF Stage, PoStatus, Producing
  <2>4. QED BY <2>1, <2>2, <2>3
<1>2. ASSUME NEW o \in Orders, RecordProductionProgress(o)
      PROVE  \E status \in PoStatus : /\ po[o] # "absent" /\ SetStatus(o, status)
                                      /\ Stage(status) >= Stage(po[o])
  <2> DEFINE status == ProductionStatus(o, ready')
  <2>1. /\ status \in {"partially_shipped", "awaiting_shipment", "in_production"}
        /\ po[o] = "partially_shipped" => status = "partially_shipped"
        /\ po[o] \in Producing /\ SetStatus(o, status)
    BY <1>2 DEF RecordProductionProgress, ProductionStatus
  <2> HIDE DEF status
  <2>2. status \in PoStatus /\ Stage(status) >= Stage(po[o])
    BY <2>1 DEF Stage, PoStatus, Producing, Shipped
  <2>3. QED BY <2>1, <2>2 DEF Producing
<1>3. ASSUME NEW o \in Orders, RecordShipment(o) \/ RecordReceipt(o) \/ CancelPurchaseOrder(o)
      PROVE  \E status \in PoStatus : /\ po[o] # "absent" /\ SetStatus(o, status)
                                      /\ Stage(status) >= Stage(po[o])
  <2>1. CASE RecordShipment(o)
    <3>1. PICK status \in {"shipped", "partially_shipped"} : SetStatus(o, status)
      BY <2>1 DEF RecordShipment
    <3>2. po[o] \in Producing
      BY <2>1 DEF RecordShipment
    <3>3. status \in PoStatus /\ Stage(status) >= Stage(po[o])
      BY <3>1, <3>2 DEF Stage, PoStatus, Producing, Shipped
    <3>4. QED BY <3>1, <3>2, <3>3 DEF Producing
  <2>2. CASE RecordReceipt(o)
    <3>1. PICK status \in {"received", "partially_received"} : SetStatus(o, status)
      BY <2>2 DEF RecordReceipt
    <3>2. po[o] \in {"partially_shipped", "shipped", "partially_received"}
      BY <2>2 DEF RecordReceipt
    <3>3. status \in PoStatus /\ Stage(status) >= Stage(po[o])
      BY <3>1, <3>2 DEF Stage, PoStatus, Shipped
    <3>4. QED BY <3>1, <3>2, <3>3
  <2>3. CASE CancelPurchaseOrder(o)
    <3>1. SetStatus(o, "cancelled") /\ po[o] \notin {"absent", "cancelled"} \cup Shipped
      BY <2>3 DEF CancelPurchaseOrder, Cancellable
    <3>2. "cancelled" \in PoStatus /\ Stage("cancelled") >= Stage(po[o])
      BY <3>1 DEF Stage, PoStatus, Shipped
    <3>3. QED BY <3>1, <3>2
  <2>4. QED BY <1>3, <2>1, <2>2, <2>3
<1>4. ASSUME NEW c \in Confirmations, DecideConfirmation(c)
      PROVE  \E o \in Orders, status \in PoStatus : /\ po[o] # "absent" /\ SetStatus(o, status)
                                                    /\ Stage(status) >= Stage(po[o])
  <2> DEFINE o == confirmation[c].po
  <2>1. o \in Orders /\ po[o] = "awaiting_confirmation"
    BY <1>4 DEF DecideConfirmation, Decidable, FulfilmentInv, ConfirmationsCover
  <2>2. PICK status \in {"confirmed", "rejected"} : SetStatus(o, status)
    BY <1>4 DEF DecideConfirmation
  <2>3. status \in PoStatus /\ Stage(status) >= Stage(po[o])
    BY <2>1, <2>2 DEF Stage, PoStatus, Producing
  <2> HIDE DEF o
  <2>4. QED BY <2>1, <2>2, <2>3
<1>5. ASSUME NEW o \in Orders, RecordInvoice(o) PROVE UNCHANGED po
  BY <1>5 DEF RecordInvoice
<1>6. ASSUME NEW i \in Invoices, MatchInvoice(i) \/ DecideAp(i) \/ InvoiceWritten(i) PROVE UNCHANGED po
  BY <1>6 DEF MatchInvoice, DecideAp, InvoiceWritten, SetInvoice
<1>7. QED BY <1>1, <1>2, <1>3, <1>4, <1>5, <1>6 DEF FulfilmentNext

LEMMA NextInv ==
  ASSUME Inv, [Next]_vars
  PROVE  Inv'
<1>1. CASE UNCHANGED vars
  BY <1>1 DEF vars, sourcing, fulfilment, Inv, FulfilmentInv, FulfilmentTypeOK, ConfirmationsCover, QuantityInv,
     GoodsAreBacked, ShippableIsConfirmed, CancelledOrderIsBare, StatusTellsQuantities, Missing, LinesOf,
     SourcingInv, SourcingTypeOK, ComparisonIsComplete, AwardSawEveryQuote, BallotsAreCurrent, ComparedHasQuotes,
     NothingPlaced
<1>2. CASE Source /\ UNCHANGED fulfilment
  <2>1. SourcingInv' /\ NothingPlaced'
    BY <1>2, SourceStep DEF Inv, NothingPlaced, fulfilment
  <2>2. FulfilmentInv'
    BY <1>2 DEF fulfilment, Inv, FulfilmentInv, FulfilmentTypeOK, ConfirmationsCover, QuantityInv,
       GoodsAreBacked, ShippableIsConfirmed, CancelledOrderIsBare, StatusTellsQuantities, Missing, LinesOf
  <2>3. QED BY <2>1, <2>2 DEF Inv
<1>3. CASE FulfilmentNext /\ UNCHANGED sourcing
  <2>1. FulfilmentInv'
    BY <1>3, FulfilmentStep DEF Inv
  <2>2. SourcingInv'
    BY <1>3 DEF sourcing, Inv, SourcingInv, SourcingTypeOK, ComparisonIsComplete, AwardSawEveryQuote,
       BallotsAreCurrent, ComparedHasQuotes
  <2>3. NothingPlaced'
    BY <1>3, CommandMoves DEF sourcing, Inv, NothingPlaced
  <2>4. QED BY <2>1, <2>2, <2>3 DEF Inv
<1>4. QED BY <1>1, <1>2, <1>3, AwardStep DEF Next

LEMMA InvHolds == Spec => []Inv
BY InitInv, NextInv, PTL DEF Spec

-----------------------------------------------------------------------------
(***************************************************************************)
(* Theorems.                                                               *)
(***************************************************************************)

\* Every state is one the procurement tables can be in.
THEOREM TypeCorrect == Spec => []TypeOK
<1>1. Inv => TypeOK
  BY DEF Inv, SourcingInv, FulfilmentInv, TypeOK
<1>2. QED BY <1>1, InvHolds, PTL

\* A comparison the RFQ refers to covers every quote received (persistQuoteComparison,
\* createDocumentWithLinesIdempotent).
THEOREM ComparedWithAll == Spec => []ComparisonIsComplete
<1>1. Inv => ComparisonIsComplete
  BY DEF Inv, SourcingInv
<1>2. QED BY <1>1, InvHolds, PTL

\* Who awards has seen every quote (awardRfqAndCreateDraftPurchaseOrders).
THEOREM AwardIsInformed == Spec => []AwardSawEveryQuote
<1>1. Inv => AwardSawEveryQuote
  BY DEF Inv, SourcingInv
<1>2. QED BY <1>1, InvHolds, PTL

\* Invoices, receipts, shipments, confirmations and orders back each other, whatever
\* documents come in whatever order (executeProcurementMutation).
THEOREM QuantitiesBackEachOther == Spec => []GoodsAreBacked
<1>1. Inv => GoodsAreBacked
  BY DEF Inv, FulfilmentInv, QuantityInv
<1>2. QED BY <1>1, InvHolds, PTL

\* The status of an order says how far its lines are.
THEOREM StatusIsTrue == Spec => []StatusTellsQuantities
<1>1. Inv => StatusTellsQuantities
  BY DEF Inv, FulfilmentInv, QuantityInv
<1>2. QED BY <1>1, InvHolds, PTL

\* No goods and no invoices hang on a cancelled order (purchaseOrderCancellationBlocker).
THEOREM CancelledIsBare == Spec => []CancelledOrderIsBare
<1>1. Inv => CancelledOrderIsBare
  BY DEF Inv, FulfilmentInv, QuantityInv
<1>2. QED BY <1>1, InvHolds, PTL

\* Goods that have left the supplier and cancellations are never taken back by a command
\* that comes late.
THEOREM OrderMovesOn == Spec => OrderNeverGoesBack
<1>1. ASSUME Inv, [Next]_vars
      PROVE  [\A o \in Orders : Stage(po'[o]) >= Stage(po[o])]_po
  <2>0. po \in [Orders -> PoStatus] /\ \A status : Stage(status) \in 0..5
    BY <1>1 DEF Inv, FulfilmentInv, FulfilmentTypeOK, Stage
  <2>1. CASE UNCHANGED po
    BY <2>1
  <2>2. ASSUME NEW o \in Orders, NEW status \in PoStatus,
               SetStatus(o, status), Stage(status) >= Stage(po[o])
        PROVE  \A p \in Orders : Stage(po'[p]) >= Stage(po[p])
    <3> SUFFICES ASSUME NEW p \in Orders PROVE Stage(po'[p]) >= Stage(po[p])
      OBVIOUS
    <3>1. Stage(po[p]) \in 0..5
      BY <2>0
    <3>2. CASE p = o
      BY <2>0, <2>2, <3>2 DEF SetStatus
    <3>3. CASE p # o
      <4>1. po'[p] = po[p]
        BY <2>0, <2>2, <3>3 DEF SetStatus
      <4>2. QED BY <3>1, <4>1
    <3>4. QED BY <3>2, <3>3
  <2>3. CASE \E b \in Buyers, choice \in [Lines -> Quotes] : AwardRfq(b, choice)
    <3>1. PICK b \in Buyers, choice \in [Lines -> Quotes] : AwardRfq(b, choice)
      BY <2>3
    <3>2. rfq.status = "pending_award" /\ CreateDraftOrders([l \in Lines |-> SupplierOf[choice[l]]])
      BY <3>1 DEF AwardRfq, Awardable
    <3>3. \A o \in Orders : po[o] = "absent" /\ po'[o] \in {"absent", "draft"}
      BY <1>1, <3>2 DEF Inv, NothingPlaced, CreateDraftOrders
    <3>4. Stage("absent") = 0 /\ Stage("draft") = 0
      BY DEF Stage
    <3>5. QED BY <3>3, <3>4
  <2>4. CASE FulfilmentNext
    BY <1>1, <2>1, <2>2, <2>4, CommandMoves DEF Inv
  <2>5. CASE UNCHANGED fulfilment
    BY <2>1, <2>5 DEF fulfilment
  <2>6. QED BY <1>1, <2>3, <2>4, <2>5 DEF Next, vars
<1>2. QED BY <1>1, InvHolds, PTL DEF Spec, OrderNeverGoesBack

-----------------------------------------------------------------------------
(***************************************************************************)
(* What an award leaves.                                                   *)
(***************************************************************************)
\* Every line is ordered from a supplier with an eligible quote for it, among the quotes whoever
\* awarded was shown; before the award nothing is ordered, and there is no order without a line
\* (awardRfqAndCreateDraftPurchaseOrders).
LinesAreBoughtAsQuoted ==
  /\ rfq.status # "awarded" => \A l \in Lines : placed[l] = NoOrder
  /\ rfq.status = "awarded" => \A l \in Lines : \E q \in award :
       l \in Eligible[q] /\ placed[l] = SupplierOf[q]
  /\ \A o \in Orders : po[o] # "absent" => \E l \in Lines : placed[l] = o

\* An award is made once: afterwards neither a quote, another buyer, a mail that is reported
\* late nor a command changes the RFQ, its quotes, or which order a line belongs to.
AwardIsFinal == [][rfq.status = "awarded" => UNCHANGED <<rfq, quotes, award, placed>>]_vars

\* No command moves a line to another order, and none makes an order.
LEMMA CommandsKeepLines ==
  ASSUME FulfilmentInv, FulfilmentNext
  PROVE  UNCHANGED placed /\ \A o \in Orders : po[o] = "absent" => po'[o] = "absent"
<1>1. UNCHANGED placed
  <2>1. ASSUME NEW o \in Orders,
               \/ OrderSent(o) \/ RecordConfirmation(o) \/ RecordProductionProgress(o) \/ RecordShipment(o)
               \/ RecordReceipt(o) \/ RecordInvoice(o) \/ CancelPurchaseOrder(o)
        PROVE  UNCHANGED placed
    BY <2>1 DEF OrderSent, RecordConfirmation, RecordProductionProgress, RecordShipment, RecordReceipt,
       RecordInvoice, CancelPurchaseOrder
  <2>2. ASSUME NEW c \in Confirmations, DecideConfirmation(c) PROVE UNCHANGED placed
    BY <2>2 DEF DecideConfirmation
  <2>3. ASSUME NEW i \in Invoices, MatchInvoice(i) \/ DecideAp(i) \/ InvoiceWritten(i) PROVE UNCHANGED placed
    BY <2>3 DEF MatchInvoice, DecideAp, InvoiceWritten, SetInvoice
  <2>4. QED BY <2>1, <2>2, <2>3 DEF FulfilmentNext
<1>2. po \in [Orders -> PoStatus]
  BY DEF FulfilmentInv, FulfilmentTypeOK
<1>3. \A o \in Orders : po[o] = "absent" => po'[o] = "absent"
  BY <1>2, CommandMoves DEF SetStatus
<1>4. QED BY <1>1, <1>3

\* Nothing that leads to an award changes one.
LEMMA SourceKeepsAward ==
  ASSUME SourcingInv, Source
  PROVE  /\ UNCHANGED award
         /\ rfq.status = "awarded" => UNCHANGED <<rfq, quotes>>
         /\ rfq.status # "awarded" => rfq'.status # "awarded"
<1>1. ASSUME NEW s \in Suppliers, SendRfq(s) \/ RfqSent(s) \/ RfqNotRecordedSent(s)
      PROVE  UNCHANGED <<quotes, award>> /\ (rfq.status # "awarded" => rfq'.status # "awarded")
  BY <1>1 DEF SendRfq, RfqSent, RfqNotRecordedSent, WriteRfq
<1>2. ASSUME NEW q \in Quotes, AddQuote(q)
      PROVE  UNCHANGED award /\ rfq.status # "awarded" /\ rfq'.status # "awarded"
  BY <1>2 DEF AddQuote, WriteRfq, Quoted
<1>3. CASE Compare
  BY <1>3 DEF Compare, WriteRfq
<1>4. ASSUME NEW b \in Buyers, ReadRfq(b) PROVE UNCHANGED <<rfq, quotes, award>>
  BY <1>4 DEF ReadRfq
<1>5. rfq.status = "awarded" => UNCHANGED rfq
  BY SourceStep
<1>6. QED BY <1>1, <1>2, <1>3, <1>4, <1>5 DEF Source

\* An award orders every line from the supplier chosen for it.
LEMMA AwardBuysAsQuoted ==
  ASSUME Inv, NEW b \in Buyers, NEW choice \in [Lines -> Quotes], AwardRfq(b, choice)
  PROVE  LinesAreBoughtAsQuoted'
<1>1. /\ rfq.status = "pending_award" /\ rfq' = [rfq EXCEPT !.status = "awarded"] /\ award' = ballot[b].shown
      /\ \A l \in Lines : choice[l] \in ballot[b].shown /\ l \in Eligible[choice[l]]
      /\ placed' = [l \in Lines |-> SupplierOf[choice[l]]]
  BY DEF AwardRfq, Awardable, CreateDraftOrders
<1>2. rfq'.status = "awarded"
  BY <1>1 DEF Inv, SourcingInv, SourcingTypeOK
<1>3. \A l \in Lines : choice[l] \in award' /\ l \in Eligible[choice[l]] /\ placed'[l] = SupplierOf[choice[l]]
  BY <1>1
<1>4. \A o \in Orders : po'[o] # "absent" => \E l \in Lines : placed'[l] = o
  <2>1. \A o \in Orders : po[o] = "absent"
    BY <1>1 DEF Inv, NothingPlaced
  <2>2. po' = [o \in Orders |-> IF \E l \in Lines : placed'[l] = o THEN "draft" ELSE po[o]]
    BY <1>1 DEF AwardRfq, CreateDraftOrders
  <2>3. QED BY <2>1, <2>2
<1>5. QED BY <1>2, <1>3, <1>4 DEF LinesAreBoughtAsQuoted

\* Every line is bought as quoted, for any suppliers, lines and quotes.
THEOREM OrdersRestOnQuotes == Spec => []LinesAreBoughtAsQuoted
<1>1. Init => LinesAreBoughtAsQuoted
  BY DEF Init, SourcingInit, FulfilmentInit, LinesAreBoughtAsQuoted
<1>2. ASSUME Inv, LinesAreBoughtAsQuoted, [Next]_vars PROVE LinesAreBoughtAsQuoted'
  <2>1. CASE UNCHANGED vars
    BY <1>2, <2>1 DEF vars, sourcing, fulfilment, LinesAreBoughtAsQuoted
  <2>2. CASE Source /\ UNCHANGED fulfilment
    <3>1. /\ UNCHANGED <<award, placed, po>>
          /\ rfq'.status = "awarded" <=> rfq.status = "awarded"
      BY <1>2, <2>2, SourceKeepsAward DEF Inv, fulfilment
    <3>2. QED BY <1>2, <3>1 DEF LinesAreBoughtAsQuoted
  <2>3. CASE FulfilmentNext /\ UNCHANGED sourcing
    <3>1. /\ UNCHANGED <<rfq, award, placed>>
          /\ \A o \in Orders : po[o] = "absent" => po'[o] = "absent"
      BY <1>2, <2>3, CommandsKeepLines DEF Inv, sourcing
    <3>2. QED BY <1>2, <3>1 DEF LinesAreBoughtAsQuoted
  <2>4. QED BY <1>2, <2>1, <2>2, <2>3, AwardBuysAsQuoted DEF Next
<1>3. QED BY <1>1, <1>2, InvHolds, PTL DEF Spec

\* An award is made once and stands.
THEOREM AwardStands == Spec => AwardIsFinal
<1>1. ASSUME Inv, Next, rfq.status = "awarded" PROVE UNCHANGED <<rfq, quotes, award, placed>>
  <2>1. CASE Source /\ UNCHANGED fulfilment
    BY <1>1, <2>1, SourceKeepsAward DEF Inv, fulfilment
  <2>2. CASE FulfilmentNext /\ UNCHANGED sourcing
    BY <1>1, <2>2, CommandsKeepLines DEF Inv, sourcing
  <2>3. ASSUME NEW b \in Buyers, NEW choice, AwardRfq(b, choice) PROVE FALSE
    BY <1>1, <2>3 DEF AwardRfq, Awardable
  <2>4. QED BY <1>1, <2>1, <2>2, <2>3 DEF Next
<1>2. Inv /\ [Next]_vars => [rfq.status = "awarded" => UNCHANGED <<rfq, quotes, award, placed>>]_vars
  BY <1>1
<1>3. QED BY <1>2, InvHolds, PTL DEF Spec, AwardIsFinal

=============================================================================
