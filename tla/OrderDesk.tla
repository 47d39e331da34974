----------------------------- MODULE OrderDesk -----------------------------
(***************************************************************************)
(* One user at SalesView or PurchaseView: two tables of the same orders    *)
(* (the second lists invoices or receipts), each with a table of the lines *)
(* of the order selected in it. Both fill from one list of lines, the one  *)
(* that arrived last, and refilling a table of orders drops its selection. *)
(***************************************************************************)
EXTENDS Integers, FiniteSets, Sequences, Functions

CONSTANTS
  Order, Line,      \* ids
  InitialOrders,    \* the orders there at first
  InitialLines,     \* their lines: [a subset of Line -> InitialOrders]
  Kinds,            \* a subset of {"sales", "purchase"}: which view it is
  MaxActs,          \* bound: what the user does and what gets lost, in all
  MaxPending,       \* bound: messages on their way when the user does it
  MaxLost           \* bound: what gets lost

None == "none"
Table == {"orders", "documents"}
Cell == {"quantity", "price"}
Value == 1..2

ASSUME OrderDeskAssumption ==
  /\ InitialOrders \subseteq Order /\ None \notin Order
  /\ DOMAIN InitialLines \subseteq Line
  /\ \A l \in DOMAIN InitialLines : InitialLines[l] \in InitialOrders
  /\ Kinds \subseteq {"sales", "purchase"}
  /\ Order \cap Line = {}
  /\ MaxActs \in Nat /\ MaxPending \in Nat /\ MaxLost \in Nat

VARIABLES
  kind,       \* the view
  store,      \* the server's orders (their status), lines (their rows) and ids used up
  orders,     \* m_orders and m_allOrders: the orders that arrived last
  hidden,     \* the orders each table's filter hides
  selected,   \* the order selected in each table of orders
  context,    \* m_recordsContext: the table a list of lines is put beside
  last,       \* m_lastOrderId: the order whose lines are fetched after a change
  current,    \* m_currentRecords
  shown,      \* the rows of the two tables of lines
  editable,   \* the order lines were filled in as editable
  preview,    \* m_invoicePreview: an order and the lines under its heading
  exported,   \* the invoice file written last
  requests, answers, sent,
  seen,       \* the newest list of lines that arrived or was lost
  behind,     \* the lines that arrived last are not it: it overtook them or was lost
  wanted,     \* for each line, what the user's accepted edits made of it
  undone,     \* the lines an edit may have been undone of
  acts, losses

desk == <<orders, hidden, selected, context, last, current, shown, editable, preview>>
net == <<requests, answers, sent, seen, behind>>
ghost == <<wanted, undone>>
vars == <<kind, store, desk, exported, net, ghost, acts, losses>>

-----------------------------------------------------------------------------
NoRows == [l \in {} |-> None]
NoInvoice == [order |-> None, lines |-> NoRows]
Row(o, q, p) == [order |-> o, quantity |-> q, price |-> p]

LinesOf(o) == Restrict(store.lines, {l \in DOMAIN store.lines : store.lines[l].order = o})

\* The statuses a receipt sets and a view reads; sale orders have none of that kind.
isLockedPurchaseStatus(status) == status = "Received"

\* The rows of a table of orders: receipts are posted for orders not yet received.
Listed(t) ==
  {o \in DOMAIN orders \ hidden[t] :
     kind = "purchase" /\ t = "documents" => ~isLockedPurchaseStatus(orders[o])}

SelectedIsLocked ==
  selected["orders"] # None /\ isLockedPurchaseStatus(orders[selected["orders"]])

Quiet == requests = {} /\ answers = {}

\* Requests are numbered as they are sent; the numbers start again at rest.
Message(op, o, l, row) == [op |-> op, order |-> o, line |-> l, row |-> row]
GetOrders == Message("getOrders", None, None, None)
GetLines(o) == Message("getLines", o, None, None)

Send(messages) ==
  LET from == IF Quiet THEN 0 ELSE sent
  IN  /\ requests' = requests \cup {[msg |-> messages[i], n |-> from + i] : i \in DOMAIN messages}
      /\ sent' = from + Len(messages)

SendOnly(messages) ==
  Send(messages) /\ seen' = (IF Quiet THEN 0 ELSE seen) /\ UNCHANGED <<answers, behind>>

Init ==
  /\ kind \in Kinds
  /\ store = [orders |-> [o \in InitialOrders |-> "Draft"],
              lines |-> [l \in DOMAIN InitialLines |-> Row(InitialLines[l], 1, 1)],
              used |-> InitialOrders \cup DOMAIN InitialLines]
  /\ orders = store.orders
  /\ hidden = [t \in Table |-> {}]
  /\ selected = [t \in Table |-> None]
  /\ context = None /\ last = None
  /\ current = NoRows /\ shown = [t \in Table |-> NoRows] /\ editable = TRUE
  /\ preview = NoInvoice /\ exported = NoInvoice
  /\ requests = {} /\ answers = {} /\ sent = 0 /\ seen = 0 /\ behind = FALSE
  /\ wanted = NoRows /\ undone = {}
  /\ acts = 0 /\ losses = 0

Act ==
  /\ acts + losses < MaxActs
  /\ Cardinality(requests) + Cardinality(answers) <= MaxPending
  /\ acts' = acts + 1 /\ UNCHANGED losses

-----------------------------------------------------------------------------
(* What the user does.                                                      *)

\* A row of a table of orders is selected: its lines are fetched, and whatever
\* lines arrive next go beside this table. Nothing is cleared.
Select(t, o) ==
  /\ Act
  /\ o \in Listed(t) /\ o # selected[t]
  /\ selected' = [selected EXCEPT ![t] = o]
  /\ context' = t
  /\ last' = o
  /\ SendOnly(<<GetLines(o)>>)
  /\ UNCHANGED <<kind, store, orders, hidden, current, shown, editable, preview, exported, ghost>>

\* The handlers for a selection that became empty, in each table of ts.
Emptied(ts) ==
  /\ selected' = [t \in Table |-> IF t \in ts THEN None ELSE selected[t]]
  /\ LET emptied == {t \in ts : selected[t] # None}
     IN  /\ current' = IF emptied = {} THEN current ELSE NoRows
         /\ shown' = [t \in Table |-> IF t \in emptied THEN NoRows ELSE shown[t]]
         /\ preview' = IF "documents" \in emptied THEN NoInvoice ELSE preview

Deselect(t) ==
  /\ Act
  /\ selected[t] # None
  /\ Emptied({t})
  /\ UNCHANGED <<kind, store, orders, hidden, context, last, editable, exported, net, ghost>>

\* clearContents, at the start of filling a table, empties its selection.
Filter(t, os) ==
  /\ Act
  /\ os # hidden[t]
  /\ hidden' = [hidden EXCEPT ![t] = os]
  /\ Emptied({t})
  /\ UNCHANGED <<kind, store, orders, context, last, editable, exported, net, ghost>>

\* An answer another tab fetched: users, products and so on. Both tables of
\* orders are filled again and then the lines, from what is left of them.
ReferenceDataChanged ==
  /\ Act
  /\ selected' = [t \in Table |-> None]
  /\ LET emptied == {t \in Table : selected[t] # None}
         left == IF emptied = {} THEN current ELSE NoRows
     IN  /\ current' = left
         /\ shown' = [t \in Table |-> IF t = context THEN left
                                      ELSE IF t \in emptied THEN NoRows ELSE shown[t]]
         /\ editable' = (IF context = "orders" THEN TRUE ELSE editable)
         /\ preview' = IF "documents" \in emptied \cup {context} THEN NoInvoice ELSE preview
  /\ UNCHANGED <<kind, store, orders, hidden, context, last, exported, net, ghost>>

AddOrder ==
  /\ Act
  /\ SendOnly(<<Message("newOrder", None, None, None)>>)
  /\ UNCHANGED <<kind, store, desk, exported, ghost>>

DeleteOrder ==
  /\ Act
  /\ selected["orders"] # None /\ ~SelectedIsLocked
  /\ SendOnly(<<Message("delOrder", selected["orders"], None, None)>>)
  /\ UNCHANGED <<kind, store, desk, exported, ghost>>

\* A cell of an order; its combo boxes are there without the row being selected.
EditOrder(o) ==
  /\ Act
  /\ o \in Listed("orders") /\ ~isLockedPurchaseStatus(orders[o])
  /\ SendOnly(<<Message("editOrder", o, None, None)>>)
  /\ UNCHANGED <<kind, store, desk, exported, ghost>>

AddRecord ==
  /\ Act
  /\ selected["orders"] # None /\ ~SelectedIsLocked
  /\ SendOnly(<<Message("newLine", selected["orders"], None, Row(selected["orders"], 1, 1))>>)
  /\ UNCHANGED <<kind, store, desk, exported, ghost>>

DeleteRecord(l) ==
  /\ Act
  /\ l \in DOMAIN shown["orders"] /\ ~SelectedIsLocked
  /\ SendOnly(<<Message("delLine", None, l, None)>>)
  /\ UNCHANGED <<kind, store, desk, exported, ghost>>

\* Mutant: a comparison that looks at the quantity alone.
SameQuantity(l, row) == l \in DOMAIN current /\ current[l].quantity = row.quantity

\* matchesOrderRecordSnapshot: nothing is sent when the lines that arrived last
\* say the same.
MatchesSnapshot(l, row) == l \in DOMAIN current /\ current[l] = row

\* restoreIfUnchanged: a cell that was committed with the value it had.
RestoredIfUnchanged(l, c, v) == shown["orders"][l][c] = v

\* Mutant: the row is sent with the order that is selected by then.
EditedRowOfTheSelected(l, c, v) ==
  [shown["orders"][l] EXCEPT
     ![c] = v, !.order = IF selected["orders"] = None THEN @ ELSE selected["orders"]]

\* The order sent is the one in the row's hidden column, filled in with the list.
EditedRow(l, c, v) == [shown["orders"][l] EXCEPT ![c] = v]

\* The edited cell stays as it is on the screen and the whole row is sent. What
\* the user wants of the line is the cell, and what was wanted of the other; the
\* other is undone when the row shows something else for it.
EditRecord(l, c, v) ==
  /\ Act
  /\ l \in DOMAIN shown["orders"] /\ editable
  /\ ~RestoredIfUnchanged(l, c, v)
  /\ LET row == EditedRow(l, c, v)
         before == IF l \in DOMAIN wanted THEN wanted[l] ELSE shown["orders"][l]
         pending == \E r \in requests : r.msg.op = "editLine" /\ r.msg.line = l
     IN  /\ shown' = [shown EXCEPT !["orders"][l] = row]
         /\ wanted' = [x \in DOMAIN wanted \cup {l} |-> IF x = l THEN [before EXCEPT ![c] = v]
                                                                ELSE wanted[x]]
         /\ IF MatchesSnapshot(l, row)
            THEN /\ undone' = IF pending \/ (l \in DOMAIN store.lines /\ store.lines[l] # current[l])
                              THEN undone \cup {l} ELSE undone
                 /\ UNCHANGED net
            ELSE /\ SendOnly(<<Message("editLine", row.order, l, row)>>)
                 /\ undone' = IF \A x \in Cell \ {c} : row[x] = before[x]
                              THEN undone ELSE undone \cup {l}
  /\ UNCHANGED <<kind, store, orders, hidden, selected, context, last, current, editable,
                 preview, exported>>

\* The receive button stays enabled after a click.
ReceiveOrder ==
  /\ Act
  /\ kind = "purchase" /\ selected["documents"] # None
  /\ SendOnly(<<Message("receive", selected["documents"], None, None)>>)
  /\ UNCHANGED <<kind, store, desk, exported, ghost>>

\* The preview's text is written to a file named after the selected invoice.
ExportInvoice ==
  /\ Act
  /\ kind = "sales" /\ selected["documents"] # None
  /\ exported' = [order |-> selected["documents"], lines |-> preview.lines]
  /\ UNCHANGED <<kind, store, desk, net, ghost>>

-----------------------------------------------------------------------------
(* The server.                                                              *)

OrderIsOpen(o) ==
  o \in DOMAIN store.orders /\ (kind = "sales" \/ store.orders[o] # "Received")

Without(o) ==
  [store EXCEPT !.orders = Restrict(@, DOMAIN @ \ {o}),
                !.lines = Restrict(store.lines, {l \in DOMAIN store.lines : store.lines[l].order # o})]

WithLine(l, row) ==
  [store EXCEPT !.used = @ \cup {l},
                !.lines = [x \in DOMAIN store.lines \cup {l} |->
                             IF x = l THEN row ELSE store.lines[x]]]

WithOrder(o, status) ==
  [store EXCEPT !.used = @ \cup {o},
                !.orders = [x \in DOMAIN store.orders \cup {o} |->
                              IF x = o THEN status ELSE store.orders[x]]]

\* AUTOINCREMENT: an id is given out once.
Fresh(S) == CHOOSE x \in S : x \notin store.used

Has(m) == m.line \in DOMAIN store.lines /\ OrderIsOpen(store.lines[m.line].order)

\* Whether a change is done, in the order of the guards of the business modules;
\* ids run out with the instance.
Done(m) ==
  CASE m.op = "newOrder" -> Order \ store.used # {}
    [] m.op \in {"editOrder", "delOrder"} -> OrderIsOpen(m.order)
    [] m.op = "newLine" -> OrderIsOpen(m.order) /\ Line \ store.used # {}
    [] m.op = "editLine" -> Has(m) /\ OrderIsOpen(m.order)
    [] m.op = "delLine" -> Has(m)
    [] m.op = "receive" -> OrderIsOpen(m.order) /\ LinesOf(m.order) # NoRows

Effect(m) ==
  CASE m.op = "newOrder" -> WithOrder(Fresh(Order), "Draft")
    [] m.op = "editOrder" -> store
    [] m.op = "delOrder" -> Without(m.order)
    [] m.op = "newLine" -> WithLine(Fresh(Line), m.row)
    [] m.op = "editLine" -> WithLine(m.line, m.row)
    [] m.op = "delLine" ->
         [store EXCEPT !.lines = Restrict(@, DOMAIN @ \ {m.line})]
    [] m.op = "receive" -> WithOrder(m.order, "Received")

Answer(r, done, content) == [msg |-> r.msg, n |-> r.n, done |-> done, content |-> content]

\* Requests are served in any order; an edit is undone when it is refused or
\* when an older edit of its line is still to be served.
Serve(r) ==
  /\ r \in requests
  /\ requests' = requests \ {r}
  /\ IF r.msg.op \in {"getOrders", "getLines"}
     THEN /\ answers' = answers \cup
               {Answer(r, TRUE, IF r.msg.op = "getOrders" THEN store.orders ELSE LinesOf(r.msg.order))}
          /\ UNCHANGED <<store, undone>>
     ELSE /\ answers' = answers \cup {Answer(r, Done(r.msg), None)}
          /\ store' = IF Done(r.msg) THEN Effect(r.msg) ELSE store
          /\ undone' =
               IF r.msg.op = "editLine" /\
                  (~Done(r.msg) \/ \E x \in requests : /\ x.msg.op = "editLine"
                                                       /\ x.msg.line = r.msg.line /\ x.n < r.n)
               THEN undone \cup {r.msg.line} ELSE undone
  /\ UNCHANGED <<kind, desk, exported, sent, seen, behind, wanted, acts, losses>>

-----------------------------------------------------------------------------
(* What gets lost. onNetworkReply logs a reply that is an error, and no slot *)
(* hears of it; an error in place of a list is shown, and no list arrives.   *)

Loss == losses < MaxLost /\ acts + losses < MaxActs /\ losses' = losses + 1

\* The lines on the screen are behind if the list that will not come is the newest.
ListIsMissed(m) ==
  IF m.msg.op = "getLines" /\ m.n > seen THEN seen' = m.n /\ behind' = TRUE
  ELSE UNCHANGED <<seen, behind>>

\* A request that nothing is done for: an edit that stays on the screen is undone.
LoseRequest(r) ==
  /\ Loss
  /\ r \in requests
  /\ requests' = requests \ {r}
  /\ ListIsMissed(r)
  /\ undone' = IF r.msg.op = "editLine" THEN undone \cup {r.msg.line} ELSE undone
  /\ UNCHANGED <<kind, store, desk, exported, answers, sent, wanted, acts>>

\* An answer. Without the confirmation of a change nothing is fetched: the lines
\* are behind until some arrive that were asked for later.
LoseAnswer(a) ==
  /\ Loss
  /\ a \in answers
  /\ answers' = answers \ {a}
  /\ IF a.msg.op \notin {"getOrders", "getLines"} /\ a.done
     THEN seen' = sent /\ behind' = TRUE
     ELSE ListIsMissed(a)
  /\ UNCHANGED <<kind, store, desk, exported, requests, sent, ghost, acts>>

-----------------------------------------------------------------------------
(* Answers.                                                                 *)

\* onOrdersChanged: both tables of orders are filled again.
DeliverOrders(a) ==
  /\ a \in answers /\ a.msg.op = "getOrders"
  /\ answers' = answers \ {a}
  /\ orders' = a.content
  /\ Emptied(Table)
  /\ UNCHANGED <<kind, store, hidden, context, last, editable, exported, requests, sent, seen,
                 behind, ghost, acts, losses>>

\* Mutant: a refill of the lines that leaves the invoice preview.
PreviewIsLeft(lines) == preview

\* updateInvoicePreview: the lines, whosever they are, under the selected order.
PreviewOf(lines) ==
  IF selected["documents"] = None THEN NoInvoice
  ELSE [order |-> selected["documents"], lines |-> lines]

\* onOrderRecordsChanged: the lines go beside the table selected in last,
\* whatever order they were fetched for.
DeliverLines(a) ==
  /\ a \in answers /\ a.msg.op = "getLines"
  /\ answers' = answers \ {a}
  /\ current' = a.content
  /\ shown' = (IF context = None THEN shown ELSE [shown EXCEPT ![context] = a.content])
  /\ editable' = (IF context = "orders" THEN kind = "sales" \/ ~SelectedIsLocked ELSE editable)
  /\ preview' = IF kind = "sales" /\ context = "documents" THEN PreviewOf(a.content) ELSE preview
  /\ behind' = (a.n <= seen)
  /\ seen' = IF a.n > seen THEN a.n ELSE seen
  /\ UNCHANGED <<kind, store, orders, hidden, selected, context, last, exported, requests, sent,
                 ghost, acts, losses>>

\* Mutant: a refresh that forgets the lines.
RefreshOrdersOnly(op) == IF op \in {"newLine", "editLine", "delLine"} THEN <<>> ELSE <<GetOrders>>

\* What the model fetches when a change is confirmed: the orders if it was one
\* of an order (twice after a receipt, the view fetches them too), and the lines
\* of the order they were fetched for last.
Refresh(op) ==
  (CASE op \in {"newLine", "editLine", "delLine"} -> <<>>
     [] op = "receive" -> <<GetOrders, GetOrders>>
     [] OTHER -> <<GetOrders>>)
  \o (IF last = None THEN <<>> ELSE <<GetLines(last)>>)

\* A refusal is shown in a message and nothing is fetched.
DeliverChange(a) ==
  /\ a \in answers /\ a.msg.op \notin {"getOrders", "getLines"}
  /\ answers' = answers \ {a}
  /\ Send(IF a.done THEN Refresh(a.msg.op) ELSE <<>>)
  /\ UNCHANGED <<kind, store, desk, exported, seen, behind, ghost, acts, losses>>

User ==
  \/ \E t \in Table :
       \/ \E o \in Order : Select(t, o)
       \/ Deselect(t)
       \/ \E os \in SUBSET Order : Cardinality(os) <= 1 /\ Filter(t, os)
  \/ ReferenceDataChanged
  \/ \E o \in Order : EditOrder(o)
  \/ AddOrder \/ DeleteOrder \/ AddRecord \/ ReceiveOrder \/ ExportInvoice
  \/ \E l \in Line : DeleteRecord(l) \/ \E c \in Cell, v \in Value : EditRecord(l, c, v)

Network ==
  \/ \E r \in requests : Serve(r) \/ LoseRequest(r)
  \/ \E a \in answers : DeliverOrders(a) \/ DeliverLines(a) \/ DeliverChange(a) \/ LoseAnswer(a)

Next == User \/ Network

Spec == Init /\ [][Next]_vars

-----------------------------------------------------------------------------
\* When nothing is on its way, the table of lines filled last shows the lines the
\* selected order has on the server, unless the newest list of lines asked for was
\* lost or overtook another, or a change was confirmed to nobody since. The other
\* table of lines may show those of an order selected before.
LinesAreOfTheSelection ==
  Quiet /\ ~behind /\ context # None /\ selected[context] # None
    => \A l \in DOMAIN shown[context] \cup DOMAIN LinesOf(selected[context]) :
         /\ l \in DOMAIN shown[context] /\ l \in DOMAIN LinesOf(selected[context])
         /\ l \in undone \/ shown[context][l] = store.lines[l]

\* When nothing is on its way, the preview is the selected invoice with its
\* lines, if invoices are what the user turned to last; with the same exceptions:
\* after a list of lines that failed it is still the invoice selected before.
InvoiceIsOfItsOrder ==
  Quiet /\ ~behind /\ kind = "sales" /\ context = "documents" /\ selected[context] # None
    => preview = [order |-> selected[context], lines |-> LinesOf(selected[context])]

\* When nothing is on its way, a line has in every cell what the user entered
\* last, unless the edit was refused, lost on its way to the server, overtaken by an
\* older one, left unsent for a list of lines older than an edit on its way, or sent
\* back by an edit of the other cell after such a list had put the old value on the
\* screen.
EditsSurvive ==
  Quiet => \A l \in DOMAIN wanted \cap DOMAIN store.lines : l \in undone \/ wanted[l] = store.lines[l]

\* An invoice exported when nothing is on its way has the lines of the order it
\* is named after.
ExportsAreOfTheirOrder ==
  [][Quiet /\ exported' # exported =>
       \A l \in DOMAIN exported'.lines : exported'.lines[l].order = exported'.order]_vars

\* No edit moves a line to another order: an edited row names the order it was
\* fetched for, whichever order is selected beside it by then (persistOrderRecordRow).
LinesKeepTheirOrder ==
  [][\A l \in DOMAIN store.lines \cap DOMAIN store'.lines :
       store'.lines[l].order = store.lines[l].order]_vars

-----------------------------------------------------------------------------
\* The inductive invariant.

Status == {"Draft", "Received"}
LineRow == [order : Order, quantity : Value, price : Value]
Change == {"newOrder", "editOrder", "delOrder", "newLine", "editLine", "delLine", "receive"}

AreOrders(f) == DOMAIN f \subseteq Order /\ f \in [DOMAIN f -> Status]
AreRows(f) == DOMAIN f \subseteq Line /\ f \in [DOMAIN f -> LineRow]
IsInvoice(i) == DOMAIN i = {"order", "lines"} /\ i.order \in Order \cup {None} /\ AreRows(i.lines)

\* What a message carries, by what it is.
IsMessage(m) ==
  /\ m.op \in {"getOrders", "getLines"} \cup Change
  /\ m.op \notin {"getOrders", "newOrder", "delLine"} => m.order \in Order
  /\ m.op \in {"editLine", "delLine"} => m.line \in Line
  /\ m.op \in {"newLine", "editLine"} => m.row \in LineRow

IsAnswer(a) ==
  /\ IsMessage(a.msg) /\ a.done \in BOOLEAN
  /\ a.msg.op = "getOrders" => AreOrders(a.content)
  /\ a.msg.op = "getLines" => AreRows(a.content)

\* A selected order is one its table lists, and messages have the numbers given
\* out so far.
TypeOK ==
  /\ kind \in Kinds
  /\ store = [orders |-> store.orders, lines |-> store.lines, used |-> store.used]
  /\ AreOrders(store.orders) /\ AreRows(store.lines) /\ store.used \subseteq Order \cup Line
  /\ AreOrders(orders)
  /\ hidden \in [Table -> SUBSET Order]
  /\ DOMAIN selected = Table
  /\ \A t \in Table : selected[t] = None \/ selected[t] \in Listed(t)
  /\ context \in Table \cup {None} /\ last \in Order \cup {None}
  /\ AreRows(current) /\ DOMAIN shown = Table /\ \A t \in Table : AreRows(shown[t])
  /\ editable \in BOOLEAN
  /\ IsInvoice(preview) /\ IsInvoice(exported)
  /\ \A r \in requests : IsMessage(r.msg) /\ r.n \in 1 .. sent
  /\ \A a \in answers : IsAnswer(a) /\ a.n \in 1 .. sent
  /\ sent \in Nat /\ seen \in 0 .. sent /\ behind \in BOOLEAN
  /\ AreRows(wanted) /\ undone \subseteq Line
  /\ acts \in 0 .. MaxActs /\ losses \in 0 .. MaxLost

\* A list of lines was last put beside a table in which an order was selected,
\* the one whose lines are fetched again; what is selected there is that order.
OneOrderIsWatched ==
  context # None => last # None /\ selected[context] \in {None, last}

\* All lists of lines of S are older than number n.
Before(S, n) == \A x \in S : x.msg.op = "getLines" => x.n < n

AChangeIsConfirmed == \E a \in answers : a.msg.op \in Change /\ a.done

\* The newest list of lines is asked for, for the order watched.
LinesAreAskedFor ==
  \E r \in requests :
    /\ r.msg.op = "getLines" /\ r.msg.order = last
    /\ seen < r.n /\ Before(requests \ {r}, r.n) /\ Before(answers, r.n)

\* It is on its way back, and is still what the server has.
LinesAreOnTheirWay ==
  \E a \in answers :
    /\ a.msg.op = "getLines" /\ a.msg.order = last
    /\ a.content = LinesOf(last)
    /\ seen < a.n /\ Before(requests, a.n) /\ Before(answers \ {a}, a.n)

BeingEdited(l) == {r \in requests : r.msg.op = "editLine" /\ r.msg.line = l}

\* It arrived, and nothing changed since but by the user's edits.
LinesAreShown ==
  /\ DOMAIN shown[context] = DOMAIN LinesOf(last)
  /\ \A l \in DOMAIN shown[context] :
       l \in undone \/ shown[context][l] = store.lines[l] \/ BeingEdited(l) # {}
  /\ kind = "sales" /\ context = "documents" =>
       preview = [order |-> last, lines |-> LinesOf(last)]

\* It arrived, overtook others or was lost: no list still to come is newer.
NoNewerLinesCome == \A x \in requests \cup answers : x.msg.op = "getLines" => x.n <= seen

LinesArrived ==
  /\ NoNewerLinesCome
  /\ behind \/ selected[context] = None \/ LinesAreShown

LinesCome ==
  context # None =>
    AChangeIsConfirmed \/ LinesAreAskedFor \/ LinesAreOnTheirWay \/ LinesArrived

\* The lines any list of rows has, each with the order it is of.
ListsOfLines ==
  {store.lines, current, wanted} \cup {shown[t] : t \in Table}
    \cup {a.content : a \in {x \in answers : x.msg.op = "getLines"}}

Homes ==
  (UNION {{<<l, f[l].order>> : l \in DOMAIN f} : f \in ListsOfLines})
    \cup {<<r.msg.line, r.msg.row.order>> : r \in {x \in requests : x.msg.op = "editLine"}}

\* A line is of one order for ever, wherever a row of it is held, and its id is
\* not given out again.
LinesHaveAHome ==
  /\ \A p \in Homes : p[1] \in store.used
  /\ \A p, q \in Homes : p[1] = q[1] => p[2] = q[2]

\* What the user wants of a line is what the newest edit on its way makes of it,
\* or what it is on the server if none is.
EditsAreKept ==
  \A l \in DOMAIN wanted \cap DOMAIN store.lines :
    \/ l \in undone
    \/ BeingEdited(l) = {} /\ wanted[l] = store.lines[l]
    \/ /\ BeingEdited(l) # {}
       /\ \A r \in BeingEdited(l) :
            (\A x \in BeingEdited(l) : x.n <= r.n) => r.msg.row = wanted[l]

OrderDeskInv ==
  /\ TypeOK
  /\ OneOrderIsWatched
  /\ LinesCome
  /\ LinesHaveAHome
  /\ EditsAreKept
=============================================================================
