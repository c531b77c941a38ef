SPECIFICATION Spec
CONSTANTS
  near = near
  far = far
  bolt = bolt
  plate = plate
  q1 = q1
  q2 = q2
  Orders = {near, far}
  Suppliers = {near, far}
  Lines = {bolt, plate}
  Ordered <- Amounts
  MaxQty = 2
  Confirmations = {1, 2}
  Receipts = {1, 2}
  Invoices = {1, 2}
  NoOrder = NoOrder
  Quotes = {q1, q2}
  SupplierOf <- From
  Offers <- Both
  Eligible <- Fitting
  Buyers = {1}
CHECK_DEADLOCK FALSE
INVARIANTS TypeOK GoodsAreBacked StatusTellsQuantities CancelledOrderIsBare PayableIsReceived ComparisonIsComplete AwardSawEveryQuote
PROPERTIES OrderNeverGoesBack
