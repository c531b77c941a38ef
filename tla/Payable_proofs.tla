--------------------------- MODULE Payable_proofs ---------------------------
(***************************************************************************)
(* Proof that what is approved for payment on an order line was received,  *)
(* over any number of receipts and invoices.  The totals of the order are  *)
(* sums over documents (MapThenSumSet); a sum of quantities is shown to be  *)
(* the number of units counted, and what a document adds to it follows     *)
(* from the cardinality of finite sets.                                    *)
(***************************************************************************)
EXTENDS Sourcing_proofs, FiniteSetTheorems, WellFoundedInduction

-----------------------------------------------------------------------------
(***************************************************************************)
(* A sum counts units.                                                     *)
(***************************************************************************)

\* The units of S, where x has g[x] of them.
Units(g, S) == {u \in S \X (1..MaxQty) : u[2] <= g[u[1]]}
Count(g, S) == Cardinality(Units(g, S))

LEMMA UnitNumbers == IsFiniteSet(1..MaxQty)
<1>1. MaxQty \in Int
  BY OrderedAssumption
<1>2. QED BY <1>1, FS_Interval

\* The units of nothing are none, and each element adds its own.
LEMMA CountOneMore ==
  ASSUME NEW S, IsFiniteSet(S), NEW g \in [S -> Upto], NEW x \in S
  PROVE  Count(g, S) = g[x] + Count(g, S \ {x})
<1> DEFINE own == {x} \X (1..g[x])
           rest == Units(g, S \ {x})
<1>0. MaxQty \in Nat /\ g[x] \in Nat /\ g[x] <= MaxQty
  BY OrderedAssumption DEF Upto
<1>1. Units(g, S) = own \cup rest
  <2>1. ASSUME NEW u \in Units(g, S) PROVE u \in own \cup rest
    BY <1>0, <2>1 DEF Units
  <2>2. ASSUME NEW u \in own PROVE u \in Units(g, S)
    BY <1>0, <2>2 DEF Units
  <2>3. ASSUME NEW u \in rest PROVE u \in Units(g, S)
    BY <1>0, <2>3 DEF Units
  <2>4. QED BY <2>1, <2>2, <2>3
<1>2. own \cap rest = {}
  BY DEF Units
<1>3. IsFiniteSet(own) /\ Cardinality(own) = g[x]
  <2>1. PICK units : units = 1..g[x]
    OBVIOUS
  <2>2. PICK single : single = {x}
    OBVIOUS
  <2>3. IsFiniteSet(units) /\ Cardinality(units) = g[x]
    BY <1>0, <2>1, FS_Interval
  <2>4. IsFiniteSet(single) /\ Cardinality(single) = 1
    BY <2>2, FS_Singleton
  <2> HIDE DEF own, rest
  <2>5. IsFiniteSet(single \X units) /\ Cardinality(single \X units) = Cardinality(single) * Cardinality(units)
    BY <2>3, <2>4, FS_Product
  <2>6. own = single \X units
    BY <2>1, <2>2 DEF own
  <2>7. 1 * g[x] = g[x]
    BY <1>0
  <2>8. QED BY <2>3, <2>4, <2>5, <2>6, <2>7
<1>4. IsFiniteSet(rest)
  <2>1. IsFiniteSet(S \ {x})
    BY FS_RemoveElement
  <2>2. IsFiniteSet((S \ {x}) \X (1..MaxQty))
    BY <2>1, UnitNumbers, FS_Product
  <2>3. rest \in SUBSET ((S \ {x}) \X (1..MaxQty))
    BY DEF Units
  <2>4. QED BY <2>2, <2>3, FS_Subset
<1>5. Cardinality(own \cup rest) = Cardinality(own) + Cardinality(rest) - Cardinality(own \cap rest)
  BY <1>3, <1>4, FS_Union
<1>6. Cardinality(own \cap rest) = 0
  BY <1>2, FS_EmptySet
<1>7. Cardinality(rest) \in Nat
  BY <1>4, FS_CardinalityType
<1> HIDE DEF own, rest
<1>8. Cardinality(own \cup rest) = g[x] + Cardinality(rest)
  BY <1>0, <1>3, <1>5, <1>6, <1>7
<1>9. QED BY <1>1, <1>8 DEF Count, rest

LEMMA CountNothing == ASSUME NEW g PROVE Count(g, {}) = 0
<1>1. Units(g, {}) = {}
  BY DEF Units
<1>2. QED BY <1>1, FS_EmptySet DEF Count

\* More elements, or more units of each, are counted as more.
LEMMA CountGrows ==
  ASSUME NEW T, IsFiniteSet(T), NEW S \in SUBSET T, NEW g, NEW h,
         \A x \in S : g[x] \in Upto /\ h[x] \in Upto /\ g[x] <= h[x]
  PROVE  /\ Count(g, S) \in Nat /\ Count(h, T) \in Nat
         /\ Count(g, S) <= Count(h, T)
<1>0. MaxQty \in Nat
  BY OrderedAssumption
<1>1. IsFiniteSet(Units(h, T))
  <2>1. IsFiniteSet(T \X (1..MaxQty))
    BY UnitNumbers, FS_Product
  <2>2. Units(h, T) \in SUBSET (T \X (1..MaxQty))
    BY DEF Units
  <2>3. QED BY <2>1, <2>2, FS_Subset
<1>2. Units(g, S) \in SUBSET Units(h, T)
  <2> SUFFICES ASSUME NEW u \in Units(g, S) PROVE u \in Units(h, T)
    OBVIOUS
  <2>1. u \in S \X (1..MaxQty) /\ u[2] <= g[u[1]]
    BY DEF Units
  <2>2. u[1] \in S /\ u[2] \in Nat
    BY <1>0, <2>1
  <2>3. g[u[1]] \in Nat /\ h[u[1]] \in Nat /\ g[u[1]] <= h[u[1]]
    BY <1>0, <2>2 DEF Upto
  <2>4. u[2] <= h[u[1]]
    BY <2>1, <2>2, <2>3
  <2>5. u \in T \X (1..MaxQty)
    BY <2>1
  <2>6. QED BY <2>4, <2>5 DEF Units
<1>3. QED BY <1>1, <1>2, FS_Subset, FS_CardinalityType DEF Count

\* The same units of the same elements are the same number.
LEMMA CountSame ==
  ASSUME NEW S, NEW g, NEW h, \A x \in S : g[x] = h[x]
  PROVE  Count(g, S) = Count(h, S)
<1>1. Units(g, S) = Units(h, S)
  BY DEF Units
<1>2. QED BY <1>1 DEF Count

-----------------------------------------------------------------------------
\* What the recursion of MapThenFoldSet says of a function on the subsets of T.
Adds(total, g, T) ==
  total = [s \in SUBSET T |->
             IF s = {} THEN 0 ELSE LET x == CHOOSE x \in s : TRUE IN g[x] + total[s \ {x}]]

LEMMA CountAdds ==
  ASSUME NEW T, IsFiniteSet(T), NEW g \in [T -> Upto]
  PROVE  Adds([s \in SUBSET T |-> Count(g, s)], g, T)
<1> DEFINE total == [s \in SUBSET T |-> Count(g, s)]
           x(s) == CHOOSE x \in s : TRUE
<1>1. ASSUME NEW s \in SUBSET T, s # {} PROVE total[s] = g[x(s)] + total[s \ {x(s)}]
  <2>1. x(s) \in s
    BY <1>1
  <2>2. IsFiniteSet(s)
    BY FS_Subset
  <2>3. [y \in s |-> g[y]] \in [s -> Upto]
    OBVIOUS
  <2>4. Count([y \in s |-> g[y]], s) = [y \in s |-> g[y]][x(s)] + Count([y \in s |-> g[y]], s \ {x(s)})
    BY <2>1, <2>2, <2>3, CountOneMore
  <2>5. /\ Count([y \in s |-> g[y]], s) = Count(g, s)
        /\ Count([y \in s |-> g[y]], s \ {x(s)}) = Count(g, s \ {x(s)})
    BY CountSame
  <2> HIDE DEF x
  <2>6. QED BY <2>1, <2>4, <2>5
<1>2. total[{}] = 0
  BY CountNothing
<1> HIDE DEF total
<1>3. total = [s \in SUBSET T |-> IF s = {} THEN 0 ELSE g[x(s)] + total[s \ {x(s)}]]
  <2>1. total = [s \in SUBSET T |-> total[s]]
    BY DEF total
  <2>2. QED BY <1>1, <1>2, <2>1
<1>4. QED BY <1>3 DEF Adds, total

\* Whatever adds up the units of T has counted them: a smallest subset on which it had
\* not would have a smaller one.
LEMMA AddsIsCount ==
  ASSUME NEW T, IsFiniteSet(T), NEW g \in [T -> Upto], NEW total, Adds(total, g, T)
  PROVE  total[T] = Count(g, T)
<1> DEFINE counted == [s \in SUBSET T |-> Count(g, s)]
           wrong == {s \in SUBSET T : total[s] # counted[s]}
           x(s) == CHOOSE x \in s : TRUE
<1>1. Adds(counted, g, T)
  BY CountAdds
<1>2. ASSUME NEW f, Adds(f, g, T), NEW s \in SUBSET T
      PROVE  f[s] = IF s = {} THEN 0 ELSE g[x(s)] + f[s \ {x(s)}]
  BY <1>2 DEF Adds
<1>3. wrong = {}
  <2> SUFFICES ASSUME wrong # {} PROVE FALSE
    OBVIOUS
  <2>1. IsWellFoundedOn(StrictSubsetOrdering(T), FiniteSubsetsOf(T))
    BY FS_StrictSubsetOrderingWellFounded
  <2>2. wrong \subseteq FiniteSubsetsOf(T)
    BY FS_Subset DEF FiniteSubsetsOf
  <2> HIDE DEF wrong
  <2>3. PICK s \in wrong : \A y \in wrong : <<y, s>> \notin StrictSubsetOrdering(T)
    BY <2>1, <2>2, WFMin
  <2> USE DEF wrong
  <2>4. s \in SUBSET T /\ total[s] # counted[s]
    BY <2>3
  <2> HIDE DEF counted
  <2>5. s # {}
    BY <1>1, <1>2, <2>4
  <2>6. x(s) \in s
    BY <2>5
  <2> DEFINE smaller == s \ {x(s)}
  <2>7. total[s] = g[x(s)] + total[smaller] /\ counted[s] = g[x(s)] + counted[smaller]
    BY <1>1, <1>2, <2>4, <2>5
  <2>8. smaller \in wrong
    BY <2>4, <2>7
  <2>9. <<smaller, s>> \in StrictSubsetOrdering(T)
    BY <2>4, <2>6 DEF StrictSubsetOrdering
  <2>10. QED BY <2>3, <2>8, <2>9
<1>4. QED BY <1>3

-----------------------------------------------------------------------------
(***************************************************************************)
(* The totals of an order line.                                            *)
(***************************************************************************)

ReceiptsOf(l) == [r \in Receipts |-> receipt[r][l]]
Quantities == [i \in Invoices |-> invoice[i].quantity]

\* What Total adds up is what the allocations count.
LEMMA TotalIsCount ==
  ASSUME NEW allocated \in [Receipts -> Upto]
  PROVE  Total(allocated) = Count(allocated, Receipts)
<1> DEFINE total == CHOOSE total : Adds(total, allocated, Receipts)
<1>1. Total(allocated) = total[Receipts]
  BY DEF Total, MapThenSumSet, MapThenFoldSet, Adds
<1>2. Adds(total, allocated, Receipts)
  BY DocumentsAssumption, CountAdds
<1>3. QED BY <1>1, <1>2, AddsIsCount, DocumentsAssumption

LEMMA ReceivedIsCount ==
  ASSUME FulfilmentTypeOK, NEW l \in Lines
  PROVE  ReceivedOn(l) = Count(ReceiptsOf(l), Receipts)
<1> DEFINE Step(total) == total = [s \in SUBSET Receipts |->
             IF s = {} THEN 0 ELSE LET x == CHOOSE x \in s : TRUE IN receipt[x][l] + total[s \ {x}]]
           total == CHOOSE total : Step(total)
<1>1. ReceivedOn(l) = total[Receipts]
  BY DEF ReceivedOn, MapThenSumSet, MapThenFoldSet
<1>2. ReceiptsOf(l) \in [Receipts -> Upto]
  BY DEF FulfilmentTypeOK, ReceiptsOf
<1>3. \A f : Step(f) <=> Adds(f, ReceiptsOf(l), Receipts)
  BY DEF Adds, ReceiptsOf
<1> HIDE DEF Step
<1>4. \E f : Step(f)
  <2>1. Adds([s \in SUBSET Receipts |-> Count(ReceiptsOf(l), s)], ReceiptsOf(l), Receipts)
    BY <1>2, CountAdds, DocumentsAssumption
  <2>2. QED BY <1>3, <2>1
<1>5. Adds(total, ReceiptsOf(l), Receipts)
  BY <1>3, <1>4
<1>6. QED BY <1>1, <1>2, <1>5, AddsIsCount, DocumentsAssumption

\* The same over some of the invoices.
LEMMA InvoicedIsCount ==
  ASSUME FulfilmentTypeOK, NEW S \in SUBSET Invoices
  PROVE  MapThenSumSet(LAMBDA i : invoice[i].quantity, S) = Count(Quantities, S)
<1> DEFINE Step(total) == total = [s \in SUBSET S |->
             IF s = {} THEN 0 ELSE LET x == CHOOSE x \in s : TRUE IN invoice[x].quantity + total[s \ {x}]]
           total == CHOOSE total : Step(total)
           those == [i \in S |-> invoice[i].quantity]
<1>1. MapThenSumSet(LAMBDA i : invoice[i].quantity, S) = total[S]
  BY DEF MapThenSumSet, MapThenFoldSet
<1>2. those \in [S -> Upto] /\ IsFiniteSet(S)
  BY DocumentsAssumption, FS_Subset DEF FulfilmentTypeOK, Invoice
<1>3. \A f : Step(f) <=> Adds(f, those, S)
  BY DEF Adds
<1> HIDE DEF Step
<1>4. \E f : Step(f)
  <2>1. Adds([s \in SUBSET S |-> Count(those, s)], those, S)
    BY <1>2, CountAdds
  <2>2. QED BY <1>3, <2>1
<1>5. Adds(total, those, S)
  BY <1>3, <1>4
<1>6. total[S] = Count(those, S)
  BY <1>2, <1>5, AddsIsCount
<1>7. Count(those, S) = Count(Quantities, S)
  BY CountSame DEF Quantities
<1>8. QED BY <1>1, <1>6, <1>7

-----------------------------------------------------------------------------
(***************************************************************************)
(* The ledger: every unit of an order line's projection hangs on documents. *)
(***************************************************************************)

InvoicesOf(l) == {i \in Invoices : invoice[i].status # "absent" /\ invoice[i].line = l}

ReceiptsAreBooked == \A l \in Lines : qty[l]["received"] = Count(ReceiptsOf(l), Receipts)
InvoicesAreBooked == \A l \in Lines : qty[l]["invoiced"] = Count(Quantities, InvoicesOf(l))

\* What has been matched was compared with its receipts.
MatchedWithinReceipts ==
  \A i \in Invoices, r \in Receipts :
    invoice[i].status \notin {"absent", "received"} => invoice[i].allocated[r] <= receipt[r][invoice[i].line]

LedgerInv == ReceiptsAreBooked /\ InvoicesAreBooked /\ MatchedWithinReceipts

LEMMA InitLedger == Init => LedgerInv
<1> SUFFICES ASSUME Init PROVE LedgerInv
  OBVIOUS
<1>1. FulfilmentTypeOK
  BY InitFulfilment DEF FulfilmentInv
<1>2. \A l \in Lines, d \in Dimension : qty[l][d] = 0
  BY DEF Init, FulfilmentInit
<1>3. ASSUME NEW l \in Lines PROVE Count(ReceiptsOf(l), Receipts) = 0
  <2>1. Units(ReceiptsOf(l), Receipts) = {}
    BY OrderedAssumption DEF Units, ReceiptsOf, Init, FulfilmentInit
  <2>2. QED BY <2>1, FS_EmptySet DEF Count
<1>4. ASSUME NEW l \in Lines PROVE Count(Quantities, InvoicesOf(l)) = 0
  <2>1. InvoicesOf(l) = {}
    BY DEF InvoicesOf, Init, FulfilmentInit
  <2>2. QED BY <2>1, CountNothing
<1>5. MatchedWithinReceipts
  BY DEF MatchedWithinReceipts, Init, FulfilmentInit
<1>6. QED
  BY <1>2, <1>3, <1>4, <1>5 DEF LedgerInv, ReceiptsAreBooked, InvoicesAreBooked, Dimension

\* What a step that books neither a receipt nor an invoice leaves alone.
LEMMA NothingBooked ==
  ASSUME LedgerInv, UNCHANGED <<receipt, invoice>>,
         \A l \in Lines, d \in {"received", "invoiced"} : qty'[l][d] = qty[l][d]
  PROVE  LedgerInv'
BY DEF LedgerInv, ReceiptsAreBooked, InvoicesAreBooked, MatchedWithinReceipts, ReceiptsOf, InvoicesOf, Quantities

\* Only a receipt moves what was received, only an invoice what was invoiced.
LEMMA OtherCommands ==
  ASSUME FulfilmentInv, LedgerInv,
         \/ \E o \in Orders : \/ OrderSent(o) \/ RecordConfirmation(o) \/ RecordProductionProgress(o)
                             \/ RecordShipment(o) \/ CancelPurchaseOrder(o)
         \/ \E c \in Confirmations : DecideConfirmation(c)
  PROVE  LedgerInv'
<1>0. /\ FulfilmentTypeOK /\ qty \in [Lines -> [Dimension -> Nat]]
      /\ \A d \in {"confirmed", "shipped", "received", "invoiced", "cancelled"} : d \in Dimension
  BY Facts DEF FulfilmentInv, FulfilmentTypeOK
<1>1. ASSUME NEW o \in Orders, OrderSent(o) \/ RecordProductionProgress(o) PROVE LedgerInv'
  BY <1>1, NothingBooked DEF OrderSent, RecordProductionProgress
<1>2. ASSUME NEW o \in Orders, NEW d \in {"confirmed", "shipped"}, NEW delta \in Document(o),
             qty' = Plus(d, delta), UNCHANGED <<receipt, invoice>>
      PROVE  LedgerInv'
  <2>1. d \in Dimension /\ delta \in [Lines -> Nat]
    BY <1>0, DocumentLines
  <2>2. \A l \in Lines, e \in Dimension : e # d => qty'[l][e] = qty[l][e]
    BY <1>0, <1>2, <2>1, PlusQuantities
  <2>3. \A l \in Lines, e \in {"received", "invoiced"} : qty'[l][e] = qty[l][e]
    BY <1>0, <2>2
  <2>4. QED BY <1>2, <2>3, NothingBooked
<1>3. ASSUME NEW o \in Orders, RecordConfirmation(o) PROVE LedgerInv'
  <2>1. UNCHANGED <<receipt, invoice>>
        /\ (UNCHANGED qty \/ \E confirmed \in Document(o) : qty' = Plus("confirmed", confirmed))
    BY <1>3 DEF RecordConfirmation
  <2>2. CASE UNCHANGED qty
    BY <2>1, <2>2, NothingBooked
  <2>3. QED BY <1>2, <2>1, <2>2
<1>4. ASSUME NEW o \in Orders, RecordShipment(o) PROVE LedgerInv'
  BY <1>2, <1>4 DEF RecordShipment
<1>5. ASSUME NEW o \in Orders, CancelPurchaseOrder(o) PROVE LedgerInv'
  <2>1. \A l \in Lines, e \in {"received", "invoiced"} : qty'[l][e] = qty[l][e]
    BY <1>0, <1>5 DEF CancelPurchaseOrder
  <2>2. QED BY <1>5, <2>1, NothingBooked DEF CancelPurchaseOrder
<1>6. ASSUME NEW c \in Confirmations, DecideConfirmation(c) PROVE LedgerInv'
  <2>1. \A l \in Lines, e \in {"received", "invoiced"} : qty'[l][e] = qty[l][e]
    <3> SUFFICES ASSUME NEW l \in Lines, NEW e \in {"received", "invoiced"} PROVE qty'[l][e] = qty[l][e]
      OBVIOUS
    <3>1. CASE qty' = [k \in Lines |-> [qty[k] EXCEPT !["confirmed"] = @ + confirmation[c].confirmed[k],
                                                    !["cancelled"] = @ + Remainder(c)[k]]]
      <4>1. qty'[l] = [qty[l] EXCEPT !["confirmed"] = @ + confirmation[c].confirmed[l],
                                     !["cancelled"] = @ + Remainder(c)[l]]
        BY <3>1
      <4>2. qty[l] \in [Dimension -> Nat] /\ e \in Dimension
        BY <1>0
      <4>3. QED BY <4>1, <4>2
    <3>2. QED BY <1>6, <3>1 DEF DecideConfirmation
  <2>2. QED BY <1>6, <2>1, NothingBooked DEF DecideConfirmation
<1>7. QED BY <1>1, <1>3, <1>4, <1>5, <1>6

\* A receipt adds to the total of each of its lines what it adds to the projection.
LEMMA RecordReceiptLedger ==
  ASSUME FulfilmentInv, FulfilmentTypeOK', LedgerInv, NEW o \in Orders, RecordReceipt(o)
  PROVE  LedgerInv'
<1>0. FulfilmentTypeOK
  BY DEF FulfilmentInv
<1>1. PICK r \in Receipts, received \in Document(o) :
        /\ \A l \in Lines : receipt[r][l] = 0
        /\ receipt' = [receipt EXCEPT ![r] = received]
        /\ qty' = Plus("received", received)
  BY DEF RecordReceipt
<1>2. UNCHANGED invoice
  BY DEF RecordReceipt
<1>3. received \in [Lines -> Upto] /\ received \in [Lines -> Nat]
  BY DocumentLines
<1>4. ASSUME NEW l \in Lines
      PROVE  /\ qty'[l]["received"] = qty[l]["received"] + received[l]
             /\ qty'[l]["invoiced"] = qty[l]["invoiced"]
  BY <1>0, <1>1, <1>3, PlusQuantities, Facts
<1>5. ASSUME NEW l \in Lines
      PROVE  Count(ReceiptsOf(l)', Receipts) = Count(ReceiptsOf(l), Receipts) + received[l]
  <2>1. ReceiptsOf(l) \in [Receipts -> Upto] /\ ReceiptsOf(l)' \in [Receipts -> Upto]
    BY <1>0 DEF FulfilmentTypeOK, ReceiptsOf
  <2>2. /\ ReceiptsOf(l)[r] = 0 /\ ReceiptsOf(l)'[r] = received[l]
        /\ \A x \in Receipts \ {r} : ReceiptsOf(l)'[x] = ReceiptsOf(l)[x]
    BY <1>0, <1>1 DEF ReceiptsOf, FulfilmentTypeOK
  <2>3. /\ Count(ReceiptsOf(l), Receipts) = 0 + Count(ReceiptsOf(l), Receipts \ {r})
        /\ Count(ReceiptsOf(l)', Receipts) = received[l] + Count(ReceiptsOf(l)', Receipts \ {r})
    BY <2>1, <2>2, DocumentsAssumption, CountOneMore
  <2>4. Count(ReceiptsOf(l)', Receipts \ {r}) = Count(ReceiptsOf(l), Receipts \ {r})
    BY <2>2, CountSame
  <2>5. Count(ReceiptsOf(l), Receipts) \in Nat
    BY DEF LedgerInv, ReceiptsAreBooked, FulfilmentInv, FulfilmentTypeOK, Dimension
  <2>6. Count(ReceiptsOf(l), Receipts \ {r}) \in Nat
    <3>1. Receipts \ {r} \in SUBSET Receipts /\ IsFiniteSet(Receipts)
      BY DocumentsAssumption
    <3>2. \A x \in Receipts \ {r} : ReceiptsOf(l)[x] \in Upto /\ ReceiptsOf(l)[x] <= ReceiptsOf(l)[x]
      BY <2>1, OrderedAssumption DEF Upto
    <3>3. QED BY <3>1, <3>2, CountGrows
  <2>7. received[l] \in Nat
    BY <1>3
  <2>8. QED BY <2>3, <2>4, <2>5, <2>6, <2>7
<1>6. ReceiptsAreBooked'
  <2> SUFFICES ASSUME NEW l \in Lines PROVE qty'[l]["received"] = Count(ReceiptsOf(l)', Receipts)
    BY DEF ReceiptsAreBooked
  <2>1. qty[l]["received"] = Count(ReceiptsOf(l), Receipts)
    BY DEF LedgerInv, ReceiptsAreBooked
  <2>2. QED BY <1>4, <1>5, <2>1
<1>7. InvoicesAreBooked'
  BY <1>2, <1>4 DEF LedgerInv, InvoicesAreBooked, InvoicesOf, Quantities
<1>8. MatchedWithinReceipts'
  <2>1. \A x \in Receipts, l \in Lines : receipt[x][l] <= receipt'[x][l]
    BY <1>0, <1>1, <1>3, OrderedAssumption DEF FulfilmentTypeOK, Upto
  <2>2. \A i \in Invoices, x \in Receipts :
          /\ invoice[i].line \in Lines /\ invoice[i].allocated[x] \in Nat
          /\ \A l \in Lines : receipt[x][l] \in Nat /\ receipt'[x][l] \in Nat
    BY <1>0, OrderedAssumption DEF FulfilmentTypeOK, Invoice, Upto
  <2>3. QED BY <1>2, <2>1, <2>2 DEF LedgerInv, MatchedWithinReceipts
<1>9. QED BY <1>6, <1>7, <1>8 DEF LedgerInv

\* An invoice adds its quantity to the one line it is for.
LEMMA RecordInvoiceLedger ==
  ASSUME FulfilmentInv, FulfilmentTypeOK', LedgerInv, NEW o \in Orders, RecordInvoice(o)
  PROVE  LedgerInv'
<1>0. FulfilmentTypeOK /\ invoice \in [Invoices -> Invoice] /\ invoice' \in [Invoices -> Invoice]
  BY DEF FulfilmentInv, FulfilmentTypeOK
<1>1. PICK i \in Invoices, l \in LinesOf(o), allocated \in [Receipts -> Upto] :
        /\ invoice[i].status = "absent"
        /\ Total(allocated) \in 1..MaxQty
        /\ invoice' = [invoice EXCEPT ![i] =
             [status |-> "received", line |-> l, quantity |-> Total(allocated), allocated |-> allocated]]
        /\ qty' = [qty EXCEPT ![l]["invoiced"] = @ + Total(allocated)]
  BY DEF RecordInvoice
<1> DEFINE quantity == Total(allocated)
<1>2. l \in Lines /\ UNCHANGED receipt /\ quantity \in Nat
  BY <1>1, OrderedAssumption DEF RecordInvoice, LinesOf
<1>3. /\ invoice'[i].status = "received" /\ invoice'[i].line = l /\ invoice'[i].quantity = quantity
      /\ \A j \in Invoices \ {i} : invoice'[j] = invoice[j]
  BY <1>0, <1>1
<1>4. ASSUME NEW k \in Lines
      PROVE  /\ qty'[k]["received"] = qty[k]["received"]
             /\ qty'[k]["invoiced"] = IF k = l THEN qty[k]["invoiced"] + quantity ELSE qty[k]["invoiced"]
  <2>1. qty[k] \in [Dimension -> Nat] /\ "received" \in Dimension /\ "invoiced" \in Dimension
    BY <1>0 DEF FulfilmentTypeOK, Dimension
  <2>2. QED BY <1>0, <1>1, <1>2, <2>1 DEF FulfilmentTypeOK
<1> HIDE DEF quantity
<1>5. ReceiptsAreBooked'
  BY <1>2, <1>4 DEF LedgerInv, ReceiptsAreBooked, ReceiptsOf
<1>6. InvoicesAreBooked'
  <2> SUFFICES ASSUME NEW k \in Lines PROVE qty'[k]["invoiced"] = Count(Quantities', InvoicesOf(k)')
    BY DEF InvoicesAreBooked
  <2>1. qty[k]["invoiced"] = Count(Quantities, InvoicesOf(k)) /\ i \notin InvoicesOf(k)
    BY <1>1 DEF LedgerInv, InvoicesAreBooked, InvoicesOf
  <2>2. Count(Quantities', InvoicesOf(k)) = Count(Quantities, InvoicesOf(k))
    <3>1. \A j \in InvoicesOf(k) : Quantities'[j] = Quantities[j]
      BY <1>3, <2>1 DEF Quantities, InvoicesOf
    <3>2. QED BY <3>1, CountSame
  <2>3. CASE k # l
    <3>1. InvoicesOf(k)' = InvoicesOf(k)
      BY <1>1, <1>3, <2>3 DEF InvoicesOf
    <3>2. QED BY <1>4, <2>1, <2>2, <2>3, <3>1
  <2>4. CASE k = l
    <3>1. InvoicesOf(k)' = InvoicesOf(k) \cup {i}
      BY <1>1, <1>3, <2>4 DEF InvoicesOf
    <3> DEFINE all == InvoicesOf(k)'
               those == [j \in all |-> Quantities'[j]]
    <3>2. IsFiniteSet(all) /\ i \in all
      BY <3>1, DocumentsAssumption, FS_Subset DEF InvoicesOf
    <3>3. those \in [all -> Upto]
      BY <1>0 DEF Quantities, Invoice, InvoicesOf
    <3>4. Count(those, all) = those[i] + Count(those, all \ {i})
      BY <3>2, <3>3, CountOneMore
    <3>5. all \ {i} = InvoicesOf(k)
      BY <2>1, <3>1
    <3>6. Count(those, all) = Count(Quantities', all) /\ Count(those, all \ {i}) = Count(Quantities', all \ {i})
      BY CountSame
    <3>7. those[i] = quantity
      BY <1>3, <3>2 DEF Quantities
    <3>8. Count(Quantities, InvoicesOf(k)) \in Nat
      BY <1>0, <2>1 DEF FulfilmentTypeOK, Dimension
    <3> HIDE DEF all, those
    <3>9. Count(Quantities', all) = quantity + Count(Quantities, InvoicesOf(k))
      BY <2>2, <3>4, <3>5, <3>6, <3>7
    <3>10. QED BY <1>2, <1>4, <2>1, <2>4, <3>8, <3>9 DEF all
  <2>5. QED BY <2>3, <2>4
<1>7. MatchedWithinReceipts'
  BY <1>2, <1>3 DEF LedgerInv, MatchedWithinReceipts
<1>8. QED BY <1>5, <1>6, <1>7 DEF LedgerInv

\* A match compares each allocation with its receipt line; a decision and the export
\* come after the match.
LEMMA InvoiceMoves ==
  ASSUME FulfilmentInv, LedgerInv, NEW i \in Invoices, MatchInvoice(i) \/ DecideAp(i) \/ InvoiceWritten(i)
  PROVE  LedgerInv'
<1>0. invoice \in [Invoices -> Invoice]
  BY DEF FulfilmentInv, FulfilmentTypeOK
<1>1. PICK status \in InvoiceStatus \ {"absent"} : SetInvoice(i, status)
  BY DEF MatchInvoice, DecideAp, InvoiceWritten, InvoiceStatus
<1>2. invoice[i].status # "absent"
      /\ \A r \in Receipts : invoice[i].allocated[r] <= receipt[r][invoice[i].line]
  BY DEF MatchInvoice, Matchable, DecideAp, InvoiceWritten, LedgerInv, MatchedWithinReceipts
<1>3. /\ UNCHANGED <<qty, receipt>> /\ invoice'[i].status = status
      /\ \A j \in Invoices : /\ invoice'[j].line = invoice[j].line
                              /\ invoice'[j].quantity = invoice[j].quantity
                              /\ invoice'[j].allocated = invoice[j].allocated
      /\ \A j \in Invoices \ {i} : invoice'[j].status = invoice[j].status
  BY <1>0, <1>1 DEF SetInvoice, Invoice
<1>4. Quantities' = Quantities /\ \A l \in Lines : InvoicesOf(l)' = InvoicesOf(l)
  BY <1>1, <1>2, <1>3 DEF Quantities, InvoicesOf
<1>5. ReceiptsAreBooked' /\ InvoicesAreBooked'
  BY <1>3, <1>4 DEF LedgerInv, ReceiptsAreBooked, InvoicesAreBooked, ReceiptsOf
<1>6. MatchedWithinReceipts'
  BY <1>2, <1>3 DEF LedgerInv, MatchedWithinReceipts
<1>7. QED BY <1>5, <1>6 DEF LedgerInv

LEMMA NextLedger ==
  ASSUME Inv, Inv', LedgerInv, [Next]_vars
  PROVE  LedgerInv'
<1>0. FulfilmentInv /\ FulfilmentTypeOK'
  BY DEF Inv, FulfilmentInv
<1>1. CASE FulfilmentNext
  BY <1>0, <1>1, OtherCommands, RecordReceiptLedger, RecordInvoiceLedger, InvoiceMoves DEF FulfilmentNext
<1>2. CASE UNCHANGED <<qty, receipt, invoice>>
  BY <1>2, NothingBooked
<1>3. QED BY <1>1, <1>2 DEF Next, vars, fulfilment, AwardRfq, CreateDraftOrders

LEMMA LedgerHolds == Spec => [](Inv /\ LedgerInv)
<1>1. Init => LedgerInv
  BY InitLedger
<1>2. Inv /\ Inv' /\ LedgerInv /\ [Next]_vars => LedgerInv'
  BY NextLedger
<1>3. QED BY <1>1, <1>2, InvHolds, PTL DEF Spec

\* What is payable is part of what was invoiced, which is received.
LEMMA LedgerPays ==
  ASSUME Inv, LedgerInv
  PROVE  PayableIsReceived
<1>0. FulfilmentTypeOK
  BY DEF Inv, FulfilmentInv
<1>1. ASSUME NEW l \in Lines PROVE PayableFor(l) <= ReceivedOn(l)
  <2> DEFINE payable == {i \in Invoices : invoice[i].line = l /\ invoice[i].status \in Payable}
  <2>1. PayableFor(l) = Count(Quantities, payable)
    BY <1>0, InvoicedIsCount DEF PayableFor
  <2>2. payable \in SUBSET InvoicesOf(l) /\ IsFiniteSet(InvoicesOf(l))
    BY DocumentsAssumption, FS_Subset DEF InvoicesOf, Payable
  <2>3. \A i \in payable : Quantities[i] \in Upto /\ Quantities[i] <= Quantities[i]
    BY <1>0, OrderedAssumption DEF Quantities, FulfilmentTypeOK, Invoice, Upto
  <2> HIDE DEF payable
  <2>4. /\ Count(Quantities, payable) \in Nat /\ Count(Quantities, InvoicesOf(l)) \in Nat
        /\ Count(Quantities, payable) <= Count(Quantities, InvoicesOf(l))
    BY <2>2, <2>3, CountGrows
  <2>5. qty[l]["invoiced"] = Count(Quantities, InvoicesOf(l)) /\ qty[l]["received"] = ReceivedOn(l)
    BY <1>0, ReceivedIsCount DEF LedgerInv, ReceiptsAreBooked, InvoicesAreBooked
  <2>6. qty[l]["invoiced"] <= qty[l]["received"] /\ qty[l]["received"] \in Nat
    BY <1>0, Facts DEF Inv, FulfilmentInv, QuantityInv, GoodsAreBacked
  <2>7. QED BY <2>1, <2>4, <2>5, <2>6
<1>2. \A i \in Invoices, r \in Receipts :
        invoice[i].status \in Payable => invoice[i].allocated[r] <= receipt[r][invoice[i].line]
  BY DEF LedgerInv, MatchedWithinReceipts, Payable
<1>3. QED BY <1>1, <1>2 DEF PayableIsReceived

-----------------------------------------------------------------------------
\* What is approved for payment on a line was received, over all of its invoices and
\* receipts, and each allocation is within its receipt line (record_invoice,
\* matchPurchaseOrderLine, decide_ap).
THEOREM PaidIsReceived == Spec => []PayableIsReceived
BY LedgerHolds, LedgerPays, PTL

\* The quantities an order line shows as received and invoiced are the sums over its receipts
\* and its invoices, whatever was recorded in which order, matched, approved or refused
\* (applyPurchaseOrderLineQuantityEvent, record_receipt, record_invoice).
BooksAreTheDocuments ==
  \A l \in Lines :
    /\ qty[l]["received"] = ReceivedOn(l)
    /\ qty[l]["invoiced"] = MapThenSumSet(LAMBDA i : invoice[i].quantity,
                              {i \in Invoices : invoice[i].status # "absent" /\ invoice[i].line = l})

\* The projection of an order line is what its documents add up to.
THEOREM BooksBalance == Spec => []BooksAreTheDocuments
<1>1. ASSUME Inv, LedgerInv PROVE BooksAreTheDocuments
  <2>1. FulfilmentTypeOK
    BY <1>1 DEF Inv, FulfilmentInv
  <2>2. ASSUME NEW l \in Lines PROVE qty[l]["received"] = ReceivedOn(l)
    BY <1>1, <2>1, ReceivedIsCount DEF LedgerInv, ReceiptsAreBooked
  <2>3. ASSUME NEW l \in Lines
        PROVE  qty[l]["invoiced"] = MapThenSumSet(LAMBDA i : invoice[i].quantity,
                 {i \in Invoices : invoice[i].status # "absent" /\ invoice[i].line = l})
    <3> DEFINE booked == {i \in Invoices : invoice[i].status # "absent" /\ invoice[i].line = l}
    <3>1. booked \in SUBSET Invoices /\ booked = InvoicesOf(l)
      BY DEF InvoicesOf
    <3>2. MapThenSumSet(LAMBDA i : invoice[i].quantity, booked) = Count(Quantities, booked)
      BY <2>1, <3>1, InvoicedIsCount
    <3>3. qty[l]["invoiced"] = Count(Quantities, InvoicesOf(l))
      BY <1>1 DEF LedgerInv, InvoicesAreBooked
    <3>4. QED BY <3>1, <3>2, <3>3
  <2>4. QED BY <2>2, <2>3 DEF BooksAreTheDocuments
<1>2. QED BY <1>1, LedgerHolds, PTL

\* A receipt that is recorded keeps its quantities, and an invoice that is payable stays payable
\* for the same line, quantity and receipts; one the ERP has is not touched again (match_invoice,
\* decide_ap, invoice.update).
PayableStands ==
  [][/\ \A r \in Receipts : (\E l \in Lines : receipt[r][l] > 0) => receipt'[r] = receipt[r]
     /\ \A i \in Invoices : invoice[i].status \in Payable =>
          /\ invoice'[i].status \in Payable
          /\ invoice'[i].line = invoice[i].line /\ invoice'[i].quantity = invoice[i].quantity
          /\ invoice'[i].allocated = invoice[i].allocated
          /\ invoice[i].status = "erp_written" => invoice'[i] = invoice[i]]_vars

\* Receipts that are recorded stand.
LEMMA ReceiptsStand ==
  ASSUME FulfilmentTypeOK, FulfilmentNext
  PROVE  \A r \in Receipts : (\E l \in Lines : receipt[r][l] > 0) => receipt'[r] = receipt[r]
<1>0. receipt \in [Receipts -> [Lines -> Upto]]
  BY DEF FulfilmentTypeOK
<1>1. ASSUME NEW o \in Orders, RecordReceipt(o)
      PROVE  \A r \in Receipts : (\E l \in Lines : receipt[r][l] > 0) => receipt'[r] = receipt[r]
  <2>1. PICK r \in Receipts, received \in Document(o) :
          (\A l \in Lines : receipt[r][l] = 0) /\ receipt' = [receipt EXCEPT ![r] = received]
    BY <1>1 DEF RecordReceipt
  <2>2. \A s \in Receipts \ {r} : receipt'[s] = receipt[s]
    BY <1>0, <2>1
  <2>3. ~\E l \in Lines : receipt[r][l] > 0
    BY <2>1
  <2>4. QED BY <2>2, <2>3
<1>2. ASSUME NEW o \in Orders,
             \/ OrderSent(o) \/ RecordConfirmation(o) \/ RecordProductionProgress(o) \/ RecordShipment(o)
             \/ RecordInvoice(o) \/ CancelPurchaseOrder(o)
      PROVE  UNCHANGED receipt
  BY <1>2 DEF OrderSent, RecordConfirmation, RecordProductionProgress, RecordShipment, RecordInvoice,
     CancelPurchaseOrder
<1>3. ASSUME NEW c \in Confirmations, DecideConfirmation(c) PROVE UNCHANGED receipt
  BY <1>3 DEF DecideConfirmation
<1>4. ASSUME NEW i \in Invoices, MatchInvoice(i) \/ DecideAp(i) \/ InvoiceWritten(i) PROVE UNCHANGED receipt
  BY <1>4 DEF MatchInvoice, DecideAp, InvoiceWritten, SetInvoice
<1>5. QED BY <1>1, <1>2, <1>3, <1>4 DEF FulfilmentNext

InvoiceStands(i) ==
  invoice[i].status \in Payable =>
    /\ invoice'[i].status \in Payable
    /\ invoice'[i].line = invoice[i].line /\ invoice'[i].quantity = invoice[i].quantity
    /\ invoice'[i].allocated = invoice[i].allocated
    /\ invoice[i].status = "erp_written" => invoice'[i] = invoice[i]

LEMMA InvoicesStand ==
  ASSUME FulfilmentTypeOK, FulfilmentNext, NEW i \in Invoices
  PROVE  InvoiceStands(i)
<1>0. invoice \in [Invoices -> Invoice]
  BY DEF FulfilmentTypeOK
<1>1. CASE UNCHANGED invoice
  BY <1>1 DEF InvoiceStands
<1>2. ASSUME NEW o \in Orders, RecordInvoice(o) PROVE InvoiceStands(i)
  <2>1. PICK j \in Invoices : invoice[j].status = "absent" /\ \E doc : invoice' = [invoice EXCEPT ![j] = doc]
    BY <1>2 DEF RecordInvoice
  <2>2. i # j => invoice'[i] = invoice[i]
    BY <1>0, <2>1
  <2>3. QED BY <2>1, <2>2 DEF InvoiceStands, Payable
<1>3. ASSUME NEW j \in Invoices, MatchInvoice(j) \/ DecideAp(j) PROVE InvoiceStands(i)
  <2>1. PICK status : invoice' = [invoice EXCEPT ![j].status = status]
    BY <1>3 DEF MatchInvoice, DecideAp, SetInvoice
  <2>2. invoice[j].status \in {"received", "pending_approval"}
    BY <1>3 DEF MatchInvoice, Matchable, DecideAp
  <2>3. i # j => invoice'[i] = invoice[i]
    BY <1>0, <2>1
  <2>4. QED BY <2>2, <2>3 DEF InvoiceStands, Payable
<1>4. ASSUME NEW j \in Invoices, InvoiceWritten(j) PROVE InvoiceStands(i)
  <2>1. invoice[j].status = "payable_approved" /\ invoice' = [invoice EXCEPT ![j].status = "erp_written"]
    BY <1>4 DEF InvoiceWritten, SetInvoice
  <2>2. i # j => invoice'[i] = invoice[i]
    BY <1>0, <2>1
  <2>3. invoice'[j] = [invoice[j] EXCEPT !.status = "erp_written"] /\ invoice[j] \in Invoice
    BY <1>0, <2>1
  <2>4. /\ invoice'[j].status = "erp_written" /\ invoice'[j].line = invoice[j].line
        /\ invoice'[j].quantity = invoice[j].quantity /\ invoice'[j].allocated = invoice[j].allocated
    BY <2>3 DEF Invoice
  <2>5. QED BY <2>1, <2>2, <2>4 DEF InvoiceStands, Payable
<1>5. ASSUME NEW o \in Orders,
             \/ OrderSent(o) \/ RecordConfirmation(o) \/ RecordProductionProgress(o) \/ RecordShipment(o)
             \/ RecordReceipt(o) \/ CancelPurchaseOrder(o)
      PROVE  UNCHANGED invoice
  BY <1>5 DEF OrderSent, RecordConfirmation, RecordProductionProgress, RecordShipment, RecordReceipt,
     CancelPurchaseOrder
<1>6. ASSUME NEW c \in Confirmations, DecideConfirmation(c) PROVE UNCHANGED invoice
  BY <1>6 DEF DecideConfirmation
<1>7. QED BY <1>1, <1>2, <1>3, <1>4, <1>5, <1>6 DEF FulfilmentNext

\* What is payable stays payable, and what it rests on stays as it was matched.
THEOREM PaymentsStand == Spec => PayableStands
<1> DEFINE Stand == /\ \A r \in Receipts : (\E l \in Lines : receipt[r][l] > 0) => receipt'[r] = receipt[r]
                    /\ \A i \in Invoices : InvoiceStands(i)
<1>1. ASSUME Inv, Next PROVE Stand
  <2>1. CASE FulfilmentNext
    BY <1>1, <2>1, ReceiptsStand, InvoicesStand DEF Inv, FulfilmentInv
  <2>2. CASE UNCHANGED <<receipt, invoice>>
    BY <2>2 DEF InvoiceStands
  <2>3. QED BY <1>1, <2>1, <2>2 DEF Next, fulfilment, AwardRfq, CreateDraftOrders
<1>2. Inv /\ [Next]_vars => [Stand]_vars
  BY <1>1
<1>3. QED BY <1>2, InvHolds, PTL DEF Spec, PayableStands, InvoiceStands

=============================================================================
