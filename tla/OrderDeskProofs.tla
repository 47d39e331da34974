-------------------------- MODULE OrderDeskProofs --------------------------
(***************************************************************************)
(* Which lines the tables of a view show, and what becomes of edits: proofs *)
(* for any orders and lines, and any number of acts and pending messages.  *)
(***************************************************************************)
EXTENDS OrderDesk, SequenceTheorems, TLAPS

-----------------------------------------------------------------------------
(* Rows, orders and numbers.                                                *)

LEMMA RestrictedTo ==
  ASSUME NEW f, NEW S
  PROVE  DOMAIN Restrict(f, S) = S /\ \A x \in S : Restrict(f, S)[x] = f[x]
BY DEF Restrict

LEMMA RowsOfFewer ==
  ASSUME NEW f, AreRows(f), NEW S \in SUBSET DOMAIN f
  PROVE  AreRows(Restrict(f, S))
BY DEF AreRows, Restrict

LEMMA NoRowsAreRows == AreRows(NoRows) /\ DOMAIN NoRows = {}
BY DEF AreRows, NoRows

LEMMA NoInvoiceIsOne == IsInvoice(NoInvoice)
BY NoRowsAreRows DEF IsInvoice, NoInvoice

LEMMA RowsOfMore ==
  ASSUME NEW f, AreRows(f), NEW l \in Line, NEW row \in LineRow
  PROVE  AreRows([x \in DOMAIN f \cup {l} |-> IF x = l THEN row ELSE f[x]])
BY DEF AreRows

\* The lines of an order on the server.
LEMMA LinesOfAnOrder ==
  ASSUME NEW o
  PROVE  /\ DOMAIN LinesOf(o) = {l \in DOMAIN store.lines : store.lines[l].order = o}
         /\ \A l \in DOMAIN LinesOf(o) : LinesOf(o)[l] = store.lines[l]
         /\ AreRows(store.lines) => AreRows(LinesOf(o))
<1> DEFINE S == {l \in DOMAIN store.lines : store.lines[l].order = o}
<1>1. LinesOf(o) = Restrict(store.lines, S) /\ S \in SUBSET DOMAIN store.lines
  BY DEF LinesOf
<1> HIDE DEF S
<1>2. DOMAIN LinesOf(o) = S /\ \A l \in S : LinesOf(o)[l] = store.lines[l]
  BY <1>1, RestrictedTo
<1>3. AreRows(store.lines) => AreRows(LinesOf(o))
  BY <1>1, RowsOfFewer
<1> QED
  BY <1>2, <1>3 DEF S

\* A message that is sent alone has the greatest number in flight, also when the
\* numbers start again.
LEMMA OneIsSent ==
  ASSUME TypeOK, NEW m, SendOnly(<<m>>)
  PROVE  /\ requests' = requests \cup {[msg |-> m, n |-> sent']}
         /\ sent' \in Nat /\ sent' > 0
         /\ \A r \in requests : r.n \in 1 .. sent' /\ r.n < sent'
         /\ \A a \in answers : a.n \in 1 .. sent' /\ a.n < sent'
         /\ UNCHANGED <<answers, behind>>
         /\ seen' \in 0 .. sent' /\ seen' < sent' /\ seen' = (IF Quiet THEN 0 ELSE seen)
<1> DEFINE from == IF Quiet THEN 0 ELSE sent
           messages == <<m>>
<1>1. /\ requests' = requests \cup {[msg |-> messages[i], n |-> from + i] : i \in DOMAIN messages}
      /\ sent' = from + Len(messages)
      /\ UNCHANGED <<answers, behind>> /\ seen' = (IF Quiet THEN 0 ELSE seen)
  BY DEF SendOnly, Send
<1>2. DOMAIN messages = {1} /\ messages[1] = m /\ Len(messages) = 1
  OBVIOUS
<1> HIDE DEF messages
<1>3. from \in Nat /\ seen' \in 0 .. from
  BY <1>1 DEF TypeOK
<1>4. \A r \in requests : r.n \in 1 .. from
  BY DEF TypeOK, Quiet
<1>5. \A a \in answers : a.n \in 1 .. from
  BY DEF TypeOK, Quiet
<1> HIDE DEF from
<1>6. sent' = from + 1 /\ requests' = requests \cup {[msg |-> m, n |-> sent']}
  BY <1>1, <1>2
<1> QED
  BY <1>1, <1>3, <1>4, <1>5, <1>6

\* A confirmed change is followed by requests for the orders and, once an order
\* is watched, by one for its lines, which is the newest of all.
LEMMA RefreshAsks ==
  ASSUME NEW op \in Change
  PROVE  /\ Refresh(op) \in Seq({GetOrders, GetLines(last)})
         /\ \A i \in 1 .. (Len(Refresh(op)) - 1) : Refresh(op)[i] = GetOrders
         /\ last = None => \A i \in 1 .. Len(Refresh(op)) : Refresh(op)[i] = GetOrders
         /\ last # None => Len(Refresh(op)) > 0 /\ Refresh(op)[Len(Refresh(op))] = GetLines(last)
<1> DEFINE u == CASE op \in {"newLine", "editLine", "delLine"} -> <<>>
                  [] op = "receive" -> <<GetOrders, GetOrders>>
                  [] OTHER -> <<GetOrders>>
           v == IF last = None THEN <<>> ELSE <<GetLines(last)>>
           M == {GetOrders, GetLines(last)}
<1>1. Refresh(op) = u \o v
  BY DEF Refresh
<1>2. u \in Seq(M) /\ Len(u) \in Nat /\ \A i \in 1 .. Len(u) : u[i] = GetOrders
  <2>1. CASE op \in {"newLine", "editLine", "delLine"}
    BY <2>1
  <2>2. CASE op = "receive"
    BY <2>2
  <2>3. CASE op \notin {"newLine", "editLine", "delLine", "receive"}
    BY <2>3
  <2> QED
    BY <2>1, <2>2, <2>3
<1>3. v \in Seq(M) /\ IF last = None THEN Len(v) = 0 ELSE Len(v) = 1 /\ v[1] = GetLines(last)
  <2>1. CASE last = None
    BY <2>1
  <2>2. CASE last # None
    BY <2>2
  <2> QED
    BY <2>1, <2>2
<1> HIDE DEF u, v, M
<1>4. /\ u \o v \in Seq(M) /\ Len(u \o v) = Len(u) + Len(v)
      /\ \A i \in 1 .. Len(u) + Len(v) : (u \o v)[i] = IF i <= Len(u) THEN u[i] ELSE v[i - Len(u)]
  BY <1>2, <1>3, ConcatProperties
<1>5. CASE last = None
  BY <1>1, <1>2, <1>3, <1>4, <1>5 DEF M
<1>6. CASE last # None
  <2>1. Len(v) = 1 /\ v[1] = GetLines(last) /\ Len(u \o v) = Len(u) + 1
    BY <1>3, <1>4, <1>6
  <2>2. \A i \in 1 .. Len(u) : (u \o v)[i] = GetOrders
    <3> SUFFICES ASSUME NEW i \in 1 .. Len(u) PROVE (u \o v)[i] = GetOrders
      OBVIOUS
    <3>1. i \in 1 .. Len(u) + Len(v) /\ i <= Len(u)
      BY <1>2, <2>1
    <3>2. (u \o v)[i] = u[i]
      BY <1>4, <3>1
    <3> QED
      BY <1>2, <3>2
  <2>3. (u \o v)[Len(u) + 1] = GetLines(last)
    <3>1. Len(u) + 1 \in 1 .. Len(u) + Len(v) /\ ~(Len(u) + 1 <= Len(u)) /\ (Len(u) + 1) - Len(u) = 1
      BY <1>2, <2>1
    <3> QED
      BY <1>4, <2>1, <3>1
  <2>4. (Len(u) + 1) - 1 = Len(u)
    BY <1>2
  <2> QED
    BY <1>1, <1>2, <1>4, <1>6, <2>1, <2>2, <2>3, <2>4 DEF M
<1> QED
  BY <1>5, <1>6

\* What is selected in a table is an order.
LEMMA SelectionIsAnOrder ==
  ASSUME TypeOK, NEW t \in Table
  PROVE  selected[t] # None => selected[t] \in Order /\ selected[t] \in DOMAIN orders
BY DEF TypeOK, Listed, AreOrders

-----------------------------------------------------------------------------
(* Parts of the invariant that most steps leave alone.                      *)

LEMMA InitEstablishesOrderDeskInv == Init => OrderDeskInv
<1> SUFFICES ASSUME Init PROVE OrderDeskInv
  OBVIOUS
<1> USE OrderDeskAssumption
<1>1. /\ kind \in Kinds /\ orders = store.orders
      /\ hidden = [t \in Table |-> {}] /\ selected = [t \in Table |-> None]
      /\ context = None /\ last = None
      /\ current = NoRows /\ shown = [t \in Table |-> NoRows] /\ editable = TRUE
      /\ preview = NoInvoice /\ exported = NoInvoice
      /\ requests = {} /\ answers = {} /\ sent = 0 /\ seen = 0 /\ behind = FALSE
      /\ wanted = NoRows /\ undone = {} /\ acts = 0 /\ losses = 0
  BY DEF Init
<1>2. /\ store.orders = [o \in InitialOrders |-> "Draft"]
      /\ store.lines = [l \in DOMAIN InitialLines |-> Row(InitialLines[l], 1, 1)]
      /\ store.used = InitialOrders \cup DOMAIN InitialLines
      /\ store = [orders |-> store.orders, lines |-> store.lines, used |-> store.used]
  BY DEF Init
<1>3. AreOrders(store.orders)
  BY <1>2 DEF AreOrders, Status
<1>4. AreRows(store.lines)
  <2>1. \A l \in DOMAIN InitialLines : Row(InitialLines[l], 1, 1) \in LineRow
    BY DEF Row, LineRow, Value
  <2> QED
    BY <1>2, <2>1 DEF AreRows
<1>5. TypeOK
  <2>1. hidden \in [Table -> SUBSET Order] /\ DOMAIN selected = Table /\ DOMAIN shown = Table
        /\ \A t \in Table : selected[t] = None /\ AreRows(shown[t])
    BY <1>1, NoRowsAreRows
  <2>2. store.used \subseteq Order \cup Line
    BY <1>2
  <2>3. sent \in Nat /\ seen \in 0 .. sent
       /\ acts \in 0 .. MaxActs /\ losses \in 0 .. MaxLost
    BY <1>1
  <2> QED
    BY <1>1, <1>2, <1>3, <1>4, <2>1, <2>2, <2>3, NoRowsAreRows, NoInvoiceIsOne DEF TypeOK
<1>6. LinesHaveAHome
  <2>1. ListsOfLines = {store.lines, NoRows}
    BY <1>1 DEF ListsOfLines, Table
  <2>2. Homes = {<<l, store.lines[l].order>> : l \in DOMAIN store.lines}
    <3>1. Homes \subseteq {<<l, store.lines[l].order>> : l \in DOMAIN store.lines}
      BY <1>1, <2>1, NoRowsAreRows DEF Homes
    <3>2. {<<l, store.lines[l].order>> : l \in DOMAIN store.lines} \subseteq Homes
      BY <2>1 DEF Homes
    <3> QED
      BY <3>1, <3>2
  <2>3. DOMAIN store.lines \subseteq store.used
    BY <1>2
  <2> QED
    BY <2>2, <2>3 DEF LinesHaveAHome
<1>7. EditsAreKept
  BY <1>1, NoRowsAreRows DEF EditsAreKept
<1> QED
  BY <1>1, <1>5, <1>6, <1>7 DEF OrderDeskInv, OneOrderIsWatched, LinesCome

\* While something is expected the user's acts do not keep it away: they bring no
\* list of lines of their own, and empty the selection or leave what it shows.
LEMMA ActsKeepLinesComing ==
  ASSUME LinesCome, UNCHANGED <<store, context, last, answers, behind>>,
         requests \subseteq requests',
         \A r \in requests' \ requests : r.msg.op # "getLines",
         Quiet \/ seen' = seen,
         context # None =>
           \/ selected'[context] = None
           \/ selected'[context] = selected[context] /\ (LinesAreShown => LinesAreShown')
  PROVE  LinesCome'
<1> SUFFICES ASSUME context # None
             PROVE  \/ AChangeIsConfirmed' \/ LinesAreAskedFor' \/ LinesAreOnTheirWay'
                    \/ LinesArrived'
  BY DEF LinesCome
<1>1. CASE AChangeIsConfirmed
  BY <1>1 DEF AChangeIsConfirmed
<1>2. CASE LinesAreAskedFor
  <2>1. PICK r \in requests :
          /\ r.msg.op = "getLines" /\ r.msg.order = last
          /\ seen < r.n /\ Before(requests \ {r}, r.n) /\ Before(answers, r.n)
    BY <1>2 DEF LinesAreAskedFor
  <2>2. r \in requests' /\ seen' = seen
    BY DEF Quiet
  <2>3. Before(requests' \ {r}, r.n)
    BY <2>1 DEF Before
  <2> QED
    BY <2>1, <2>2, <2>3 DEF LinesAreAskedFor
<1>3. CASE LinesAreOnTheirWay
  <2>1. PICK a \in answers :
          /\ a.msg.op = "getLines" /\ a.msg.order = last
          /\ a.content = LinesOf(last)
          /\ seen < a.n /\ Before(requests, a.n) /\ Before(answers \ {a}, a.n)
    BY <1>3 DEF LinesAreOnTheirWay
  <2>2. Before(requests', a.n) /\ seen' = seen
    BY <2>1 DEF Before, Quiet
  <2>3. LinesOf(last)' = LinesOf(last)
    BY DEF LinesOf
  <2> QED
    BY <2>1, <2>2, <2>3 DEF LinesAreOnTheirWay
<1>4. CASE LinesArrived
  <2>1. NoNewerLinesCome'
    BY <1>4 DEF LinesArrived, NoNewerLinesCome, Quiet
  <2>2. behind' \/ selected'[context'] = None \/ LinesAreShown'
    BY <1>4 DEF LinesArrived
  <2> QED
    BY <2>1, <2>2 DEF LinesArrived
<1> QED
  BY <1>1, <1>2, <1>3, <1>4 DEF LinesCome

\* What is shown stays right if the rows, the preview and the edits on their way
\* stay.
LEMMA ShownIsStillShown ==
  ASSUME LinesAreShown, UNCHANGED <<kind, store, context, last, undone>>,
         shown'[context] = shown[context],
         kind = "sales" /\ context = "documents" => preview' = preview,
         \A r \in requests : r.msg.op = "editLine" => r \in requests'
  PROVE  LinesAreShown'
<1>1. LinesOf(last)' = LinesOf(last)
  BY DEF LinesOf
<1>2. \A l : BeingEdited(l) \subseteq BeingEdited(l)'
  BY DEF BeingEdited
<1> QED
  BY <1>1, <1>2 DEF LinesAreShown

\* No row appears that was not held before.
LEMMA NoNewRows ==
  ASSUME LinesHaveAHome, store'.used = store.used,
         ListsOfLines' \subseteq ListsOfLines \cup {NoRows},
         \A r \in requests' : r.msg.op = "editLine" => r \in requests
  PROVE  LinesHaveAHome'
<1>1. Homes' \subseteq Homes
  <2> SUFFICES ASSUME NEW p \in Homes' PROVE p \in Homes
    OBVIOUS
  <2>1. CASE \E f \in ListsOfLines' : \E l \in DOMAIN f : p = <<l, f[l].order>>
    BY <2>1, NoRowsAreRows DEF Homes
  <2>2. CASE \E r \in requests' : r.msg.op = "editLine" /\ p = <<r.msg.line, r.msg.row.order>>
    BY <2>2 DEF Homes
  <2> QED
    BY <2>1, <2>2 DEF Homes
<1> QED
  BY <1>1 DEF LinesHaveAHome

LEMMA EditsAreStillKept ==
  ASSUME EditsAreKept, UNCHANGED ghost, store'.lines = store.lines,
         \A r : r \in requests' /\ r.msg.op = "editLine" <=> r \in requests /\ r.msg.op = "editLine"
  PROVE  EditsAreKept'
<1>1. \A l : BeingEdited(l)' = BeingEdited(l)
  BY DEF BeingEdited
<1> QED
  BY <1>1 DEF EditsAreKept, ghost

\* Refilling tables of orders: a selection is emptied or stays, and so is what
\* depends on it.
LEMMA EmptiedIsOfTypes ==
  ASSUME TypeOK, NEW ts \in SUBSET Table, Emptied(ts)
  PROVE  /\ DOMAIN selected' = Table
         /\ \A t \in Table : selected'[t] = IF t \in ts THEN None ELSE selected[t]
         /\ AreRows(current') /\ current' \in {current, NoRows}
         /\ DOMAIN shown' = Table /\ \A t \in Table : AreRows(shown'[t])
         /\ \A t \in Table : shown'[t] \in {shown[t], NoRows}
         /\ \A t \in Table \ ts : shown'[t] = shown[t]
         /\ IsInvoice(preview')
         /\ "documents" \notin ts => preview' = preview
<1> USE NoRowsAreRows, NoInvoiceIsOne
<1>1. selected' = [t \in Table |-> IF t \in ts THEN None ELSE selected[t]]
  BY DEF Emptied
<1> DEFINE emptied == {t \in ts : selected[t] # None}
<1>2. /\ current' = IF emptied = {} THEN current ELSE NoRows
      /\ shown' = [t \in Table |-> IF t \in emptied THEN NoRows ELSE shown[t]]
      /\ preview' = IF "documents" \in emptied THEN NoInvoice ELSE preview
  BY DEF Emptied
<1>3. emptied \subseteq ts
  OBVIOUS
<1> HIDE DEF emptied
<1>4. AreRows(current) /\ IsInvoice(preview) /\ \A t \in Table : AreRows(shown[t])
  BY DEF TypeOK
<1>5. AreRows(current') /\ current' \in {current, NoRows} /\ IsInvoice(preview')
  BY <1>2, <1>4
<1>6. /\ DOMAIN shown' = Table
      /\ \A t \in Table : shown'[t] = IF t \in emptied THEN NoRows ELSE shown[t]
  BY <1>2
<1>7. \A t \in Table : AreRows(shown'[t]) /\ shown'[t] \in {shown[t], NoRows}
  BY <1>4, <1>6
<1>8. \A t \in Table \ ts : shown'[t] = shown[t]
  BY <1>3, <1>6
<1> QED
  BY <1>1, <1>2, <1>3, <1>5, <1>6, <1>7, <1>8

-----------------------------------------------------------------------------
(* What the user does.                                                      *)

\* A message that is sent is of its type and number, and so is all that was in
\* flight.
LEMMA SendingKeepsTypes ==
  ASSUME TypeOK, Act, NEW m, IsMessage(m), SendOnly(<<m>>)
  PROVE  /\ \A r \in requests' : IsMessage(r.msg) /\ r.n \in 1 .. sent'
         /\ \A a \in answers' : IsAnswer(a) /\ a.n \in 1 .. sent'
         /\ sent' \in Nat /\ seen' \in 0 .. sent' /\ behind' \in BOOLEAN
         /\ acts' \in 0 .. MaxActs /\ losses' \in 0 .. MaxLost
<1>1. /\ requests' = requests \cup {[msg |-> m, n |-> sent']}
      /\ sent' \in Nat /\ sent' > 0
      /\ \A r \in requests : r.n \in 1 .. sent'
      /\ \A a \in answers : a.n \in 1 .. sent'
      /\ UNCHANGED <<answers, behind>> /\ seen' \in 0 .. sent'
  BY OneIsSent
<1>2. acts' \in 0 .. MaxActs /\ losses' \in 0 .. MaxLost
  BY OrderDeskAssumption DEF Act, TypeOK
<1>3. \A r \in requests' : IsMessage(r.msg) /\ r.n \in 1 .. sent'
  BY <1>1 DEF TypeOK
<1> QED
  BY <1>1, <1>2, <1>3 DEF TypeOK

\* A change that is asked for, other than an edit of a line.
LEMMA AskingKeeps ==
  ASSUME OrderDeskInv, Act, NEW m, IsMessage(m), m.op \in Change \ {"editLine"},
         SendOnly(<<m>>), UNCHANGED <<kind, store, desk, exported, ghost>>
  PROVE  OrderDeskInv'
<1> USE DEF desk, ghost
<1>1. TypeOK /\ OneOrderIsWatched /\ LinesCome /\ LinesHaveAHome /\ EditsAreKept
  BY DEF OrderDeskInv
<1> DEFINE new == [msg |-> m, n |-> sent']
<1>2. /\ requests' = requests \cup {new} /\ UNCHANGED <<answers, behind>>
      /\ seen' = (IF Quiet THEN 0 ELSE seen)
  BY <1>1, OneIsSent
<1>3. new.msg.op # "getLines" /\ new.msg.op # "editLine"
  BY DEF Change
<1> HIDE DEF new
<1>4. TypeOK'
  BY <1>1, SendingKeepsTypes DEF TypeOK, Listed
<1>5. OneOrderIsWatched'
  BY <1>1 DEF OneOrderIsWatched
<1>6. LinesCome'
  <2>1. LinesAreShown => LinesAreShown'
    BY <1>2, ShownIsStillShown
  <2> QED
    BY <1>1, <1>2, <1>3, <2>1, ActsKeepLinesComing
<1>7. LinesHaveAHome'
  <2>1. ListsOfLines' = ListsOfLines
    BY <1>2 DEF ListsOfLines
  <2> QED
    BY <1>1, <1>2, <1>3, <2>1, NoNewRows
<1>8. EditsAreKept'
  BY <1>1, <1>2, <1>3, EditsAreStillKept
<1> QED
  BY <1>4, <1>5, <1>6, <1>7, <1>8 DEF OrderDeskInv

LEMMA AddOrderKeeps ==
  ASSUME OrderDeskInv, AddOrder
  PROVE  OrderDeskInv'
<1> DEFINE m == Message("newOrder", None, None, None)
<1>1. IsMessage(m) /\ m.op \in Change \ {"editLine"}
  BY DEF IsMessage, Message, Change
<1> QED
  BY <1>1, AskingKeeps DEF AddOrder

LEMMA DeleteOrderKeeps ==
  ASSUME OrderDeskInv, DeleteOrder
  PROVE  OrderDeskInv'
<1> DEFINE m == Message("delOrder", selected["orders"], None, None)
<1>1. selected["orders"] \in Order
  BY SelectionIsAnOrder DEF OrderDeskInv, DeleteOrder, Table
<1>2. IsMessage(m) /\ m.op \in Change \ {"editLine"}
  BY <1>1 DEF IsMessage, Message, Change
<1> QED
  BY <1>2, AskingKeeps DEF DeleteOrder

LEMMA EditOrderKeeps ==
  ASSUME OrderDeskInv, NEW o \in Order, EditOrder(o)
  PROVE  OrderDeskInv'
<1> DEFINE m == Message("editOrder", o, None, None)
<1>1. IsMessage(m) /\ m.op \in Change \ {"editLine"}
  BY DEF IsMessage, Message, Change
<1> QED
  BY <1>1, AskingKeeps DEF EditOrder

LEMMA AddRecordKeeps ==
  ASSUME OrderDeskInv, AddRecord
  PROVE  OrderDeskInv'
<1> DEFINE m == Message("newLine", selected["orders"], None, Row(selected["orders"], 1, 1))
<1>1. selected["orders"] \in Order
  BY SelectionIsAnOrder DEF OrderDeskInv, AddRecord, Table
<1>2. Row(selected["orders"], 1, 1) \in LineRow
  BY <1>1 DEF Row, LineRow, Value
<1>3. IsMessage(m) /\ m.op \in Change \ {"editLine"}
  BY <1>1, <1>2 DEF IsMessage, Message, Change
<1> QED
  BY <1>3, AskingKeeps DEF AddRecord

LEMMA DeleteRecordKeeps ==
  ASSUME OrderDeskInv, NEW l \in Line, DeleteRecord(l)
  PROVE  OrderDeskInv'
<1> DEFINE m == Message("delLine", None, l, None)
<1>1. IsMessage(m) /\ m.op \in Change \ {"editLine"}
  BY DEF IsMessage, Message, Change
<1> QED
  BY <1>1, AskingKeeps DEF DeleteRecord

LEMMA ReceiveOrderKeeps ==
  ASSUME OrderDeskInv, ReceiveOrder
  PROVE  OrderDeskInv'
<1> DEFINE m == Message("receive", selected["documents"], None, None)
<1>1. selected["documents"] \in Order
  BY SelectionIsAnOrder DEF OrderDeskInv, ReceiveOrder, Table
<1>2. IsMessage(m) /\ m.op \in Change \ {"editLine"}
  BY <1>1 DEF IsMessage, Message, Change
<1> QED
  BY <1>2, AskingKeeps DEF ReceiveOrder

\* Selecting an order asks for its lines, with the greatest number in flight.
LEMMA SelectKeeps ==
  ASSUME OrderDeskInv, NEW t \in Table, NEW o \in Order, Select(t, o)
  PROVE  OrderDeskInv'
<1> USE DEF ghost
<1>1. TypeOK /\ OneOrderIsWatched /\ LinesCome /\ LinesHaveAHome /\ EditsAreKept
  BY DEF OrderDeskInv
<1> DEFINE m == GetLines(o)
           new == [msg |-> m, n |-> sent']
<1>2. /\ Act /\ o \in Listed(t) /\ SendOnly(<<m>>)
      /\ selected' = [selected EXCEPT ![t] = o] /\ context' = t /\ last' = o
      /\ UNCHANGED <<kind, store, orders, hidden, current, shown, editable, preview, exported,
                     wanted, undone>>
  BY DEF Select
<1>3. IsMessage(m) /\ m.op = "getLines" /\ m.order = o
  BY DEF IsMessage, Message, GetLines
<1> HIDE DEF m
<1>4. /\ requests' = requests \cup {new} /\ UNCHANGED <<answers, behind>>
      /\ sent' \in Nat /\ seen' < sent'
      /\ \A r \in requests : r.n < sent'
      /\ \A a \in answers : a.n < sent'
  BY <1>1, <1>2, OneIsSent
<1>5. new.msg = m /\ new.n = sent'
  OBVIOUS
<1> HIDE DEF new
<1>6. TypeOK'
  <2>1. DOMAIN selected' = Table
    BY <1>1, <1>2 DEF TypeOK
  <2>2. \A x \in Table : selected'[x] = None \/ selected'[x] \in Listed(x)'
    BY <1>1, <1>2 DEF TypeOK, Listed
  <2> QED
    BY <1>1, <1>2, <1>3, <2>1, <2>2, SendingKeepsTypes DEF TypeOK
<1>7. OneOrderIsWatched'
  <2>1. None \notin Order /\ selected'[t] = o
    BY <1>1, <1>2, OrderDeskAssumption DEF TypeOK
  <2> QED
    BY <1>2, <2>1 DEF OneOrderIsWatched
<1>8. LinesCome'
  <2>1. Before(requests' \ {new}, new.n) /\ Before(answers', new.n)
    BY <1>4, <1>5 DEF Before
  <2>2. LinesAreAskedFor'
    BY <1>2, <1>3, <1>4, <1>5, <2>1 DEF LinesAreAskedFor
  <2> QED
    BY <2>2 DEF LinesCome
<1>9. LinesHaveAHome'
  <2>1. ListsOfLines' = ListsOfLines
    BY <1>2, <1>4 DEF ListsOfLines
  <2> QED
    BY <1>1, <1>2, <1>3, <1>4, <1>5, <2>1, NoNewRows
<1>10. EditsAreKept'
  BY <1>1, <1>2, <1>3, <1>4, <1>5, EditsAreStillKept
<1> QED
  BY <1>6, <1>7, <1>8, <1>9, <1>10 DEF OrderDeskInv

\* Refilling tables of orders, with nothing sent.
LEMMA EmptiedKeeps ==
  ASSUME OrderDeskInv, NEW ts \in SUBSET Table, Emptied(ts),
         acts' \in 0 .. MaxActs /\ losses' \in 0 .. MaxLost, hidden' \in [Table -> SUBSET Order],
         \A t \in Table \ ts : hidden'[t] = hidden[t],
         UNCHANGED <<kind, store, orders, context, last, editable, exported, net, ghost>>
  PROVE  OrderDeskInv'
<1> USE DEF net, ghost
<1>1. TypeOK /\ OneOrderIsWatched /\ LinesCome /\ LinesHaveAHome /\ EditsAreKept
  BY DEF OrderDeskInv
<1>2. /\ DOMAIN selected' = Table
      /\ \A t \in Table : selected'[t] = IF t \in ts THEN None ELSE selected[t]
      /\ AreRows(current') /\ current' \in {current, NoRows}
      /\ DOMAIN shown' = Table /\ \A t \in Table : AreRows(shown'[t])
      /\ \A t \in Table : shown'[t] \in {shown[t], NoRows}
      /\ \A t \in Table \ ts : shown'[t] = shown[t]
      /\ IsInvoice(preview')
      /\ "documents" \notin ts => preview' = preview
  BY <1>1, EmptiedIsOfTypes
<1>3. TypeOK'
  <2>1. \A t \in Table : selected'[t] = None \/ selected'[t] \in Listed(t)'
    BY <1>1, <1>2 DEF TypeOK, Listed
  <2> QED
    BY <1>1, <1>2, <2>1 DEF TypeOK
<1>4. OneOrderIsWatched'
  BY <1>1, <1>2 DEF OneOrderIsWatched, TypeOK
<1>5. LinesCome'
  <2>1. context # None /\ context \notin ts /\ LinesAreShown => LinesAreShown'
    BY <1>1, <1>2, ShownIsStillShown DEF TypeOK
  <2>2. context # None => \/ selected'[context] = None
                          \/ selected'[context] = selected[context] /\ (LinesAreShown => LinesAreShown')
    BY <1>1, <1>2, <2>1 DEF TypeOK
  <2> QED
    BY <1>1, <2>2, ActsKeepLinesComing
<1>6. LinesHaveAHome'
  <2>1. ListsOfLines' \subseteq ListsOfLines \cup {NoRows}
    BY <1>2 DEF ListsOfLines
  <2> QED
    BY <1>1, <2>1, NoNewRows
<1>7. EditsAreKept'
  BY <1>1, EditsAreStillKept
<1> QED
  BY <1>3, <1>4, <1>5, <1>6, <1>7 DEF OrderDeskInv

LEMMA ActsAreCounted == ASSUME TypeOK, Act PROVE acts' \in 0 .. MaxActs /\ losses' \in 0 .. MaxLost
BY OrderDeskAssumption DEF Act, TypeOK

LEMMA DeselectKeeps ==
  ASSUME OrderDeskInv, NEW t \in Table, Deselect(t)
  PROVE  OrderDeskInv'
<1>1. acts' \in 0 .. MaxActs /\ losses' \in 0 .. MaxLost
  BY ActsAreCounted DEF OrderDeskInv, Deselect
<1>2. hidden' = hidden /\ hidden \in [Table -> SUBSET Order]
  BY DEF Deselect, OrderDeskInv, TypeOK
<1> QED
  BY <1>1, <1>2, EmptiedKeeps DEF Deselect

LEMMA FilterKeeps ==
  ASSUME OrderDeskInv, NEW t \in Table, NEW os \in SUBSET Order, Filter(t, os)
  PROVE  OrderDeskInv'
<1>1. acts' \in 0 .. MaxActs /\ losses' \in 0 .. MaxLost
  BY ActsAreCounted DEF OrderDeskInv, Filter
<1>2. hidden' = [hidden EXCEPT ![t] = os] /\ hidden \in [Table -> SUBSET Order]
  BY DEF Filter, OrderDeskInv, TypeOK
<1>3. hidden' \in [Table -> SUBSET Order] /\ \A x \in Table \ {t} : hidden'[x] = hidden[x]
  BY <1>2
<1> QED
  BY <1>1, <1>3, EmptiedKeeps DEF Filter

LEMMA ReferenceDataChangedKeeps ==
  ASSUME OrderDeskInv, ReferenceDataChanged
  PROVE  OrderDeskInv'
<1> USE NoRowsAreRows, NoInvoiceIsOne DEF net, ghost
<1>1. TypeOK /\ OneOrderIsWatched /\ LinesCome /\ LinesHaveAHome /\ EditsAreKept
  BY DEF OrderDeskInv
<1> DEFINE emptied == {t \in Table : selected[t] # None}
           left == IF emptied = {} THEN current ELSE NoRows
<1>2. /\ selected' = [t \in Table |-> None]
      /\ current' = left
      /\ shown' = [t \in Table |-> IF t = context THEN left
                                   ELSE IF t \in emptied THEN NoRows ELSE shown[t]]
      /\ editable' = (IF context = "orders" THEN TRUE ELSE editable)
      /\ preview' = IF "documents" \in emptied \cup {context} THEN NoInvoice ELSE preview
      /\ UNCHANGED <<kind, store, orders, hidden, context, last, exported, net, ghost>>
      /\ acts' \in 0 .. MaxActs /\ losses' \in 0 .. MaxLost
  BY <1>1, ActsAreCounted DEF ReferenceDataChanged
<1>3. left \in {current, NoRows}
  OBVIOUS
<1> HIDE DEF emptied, left
<1>4. /\ DOMAIN shown' = Table
      /\ \A t \in Table : shown'[t] \in {shown[t], current, NoRows}
  BY <1>2, <1>3
<1>5. TypeOK'
  <2>1. DOMAIN selected' = Table /\ \A t \in Table : selected'[t] = None
    BY <1>2
  <2>2. AreRows(current') /\ \A t \in Table : AreRows(shown'[t])
    BY <1>1, <1>2, <1>3, <1>4 DEF TypeOK
  <2>3. IsInvoice(preview') /\ editable' \in BOOLEAN
    BY <1>1, <1>2 DEF TypeOK
  <2> QED
    BY <1>1, <1>2, <1>4, <2>1, <2>2, <2>3 DEF TypeOK
<1>6. OneOrderIsWatched'
  BY <1>1, <1>2 DEF OneOrderIsWatched, TypeOK
<1>7. LinesCome'
  <2>1. context # None => selected'[context] = None
    BY <1>1, <1>2 DEF TypeOK
  <2> QED
    BY <1>1, <1>2, <2>1, ActsKeepLinesComing
<1>8. LinesHaveAHome'
  <2>1. ListsOfLines' \subseteq ListsOfLines \cup {NoRows}
    BY <1>2, <1>3, <1>4 DEF ListsOfLines
  <2> QED
    BY <1>1, <1>2, <2>1, NoNewRows
<1>9. EditsAreKept'
  BY <1>1, <1>2, EditsAreStillKept
<1> QED
  BY <1>5, <1>6, <1>7, <1>8, <1>9 DEF OrderDeskInv

LEMMA ExportInvoiceKeeps ==
  ASSUME OrderDeskInv, ExportInvoice
  PROVE  OrderDeskInv'
<1> USE DEF desk, net, ghost
<1>1. TypeOK /\ OneOrderIsWatched /\ LinesCome /\ LinesHaveAHome /\ EditsAreKept
  BY DEF OrderDeskInv
<1>2. /\ exported' = [order |-> selected["documents"], lines |-> preview.lines]
      /\ UNCHANGED <<kind, store, desk, net, ghost>> /\ acts' \in 0 .. MaxActs /\ losses' \in 0 .. MaxLost
      /\ selected["documents"] # None
  BY <1>1, ActsAreCounted DEF ExportInvoice
<1>3. IsInvoice(exported')
  <2>1. selected["documents"] \in Order
    BY <1>1, <1>2, SelectionIsAnOrder DEF Table
  <2>2. AreRows(preview.lines)
    BY <1>1 DEF TypeOK, IsInvoice
  <2> QED
    BY <1>2, <2>1, <2>2 DEF IsInvoice
<1>4. TypeOK'
  BY <1>1, <1>2, <1>3 DEF TypeOK, Listed
<1>5. LinesCome'
  <2>1. LinesAreShown => LinesAreShown'
    BY <1>2, ShownIsStillShown
  <2> QED
    BY <1>1, <1>2, <2>1, ActsKeepLinesComing
<1>6. LinesHaveAHome'
  <2>1. ListsOfLines' = ListsOfLines
    BY <1>2 DEF ListsOfLines
  <2> QED
    BY <1>1, <1>2, <2>1, NoNewRows
<1> QED
  BY <1>1, <1>2, <1>4, <1>5, <1>6, EditsAreStillKept DEF OrderDeskInv, OneOrderIsWatched

\* The two cells of a row.
LEMMA RowsOfCells ==
  ASSUME NEW row \in LineRow, NEW c \in Cell, NEW v \in Value
  PROVE  LET new == [row EXCEPT ![c] = v]
         IN  /\ new \in LineRow /\ new.order = row.order /\ new[c] = v
             /\ \A x \in Cell \ {c} : new[x] = row[x]
<1>1. CASE c = "quantity"
  BY <1>1 DEF LineRow, Cell
<1>2. CASE c = "price"
  BY <1>2 DEF LineRow, Cell
<1> QED
  BY <1>1, <1>2 DEF Cell

LEMMA RowsAreTheirCells ==
  ASSUME NEW r \in LineRow, NEW s \in LineRow, r.order = s.order,
         \A x \in Cell : r[x] = s[x]
  PROVE  r = s
<1>1. r.quantity = s.quantity /\ r.price = s.price
  BY DEF Cell
<1> QED
  BY <1>1 DEF LineRow

\* Rows of the same line in two lists are of one order.
LEMMA RowsAgreeOnTheOrder ==
  ASSUME LinesHaveAHome, NEW f \in ListsOfLines, NEW g \in ListsOfLines,
         NEW l, l \in DOMAIN f, l \in DOMAIN g
  PROVE  f[l].order = g[l].order /\ l \in store.used
<1>1. <<l, f[l].order>> \in Homes /\ <<l, g[l].order>> \in Homes
  BY DEF Homes
<1> QED
  BY <1>1 DEF LinesHaveAHome

\* An edit of a cell: what is wanted of the line is either sent with the greatest
\* number in flight, or what the server has already, or the line is undone.
LEMMA EditRecordKeeps ==
  ASSUME OrderDeskInv, NEW l \in Line, NEW c \in Cell, NEW v \in Value, EditRecord(l, c, v)
  PROVE  OrderDeskInv'
<1>1. TypeOK /\ OneOrderIsWatched /\ LinesCome /\ LinesHaveAHome /\ EditsAreKept
  BY DEF OrderDeskInv
<1> DEFINE old == shown["orders"][l]
           row == [shown["orders"][l] EXCEPT ![c] = v]
           before == IF l \in DOMAIN wanted THEN wanted[l] ELSE shown["orders"][l]
           want == [before EXCEPT ![c] = v]
           pending == \E r \in requests : r.msg.op = "editLine" /\ r.msg.line = l
           m == Message("editLine", row.order, l, row)
           new == [msg |-> m, n |-> sent']
<1>2. /\ Act /\ l \in DOMAIN shown["orders"]
      /\ shown' = [shown EXCEPT !["orders"][l] = row]
      /\ wanted' = [x \in DOMAIN wanted \cup {l} |-> IF x = l THEN want ELSE wanted[x]]
      /\ UNCHANGED <<kind, store, orders, hidden, selected, context, last, current, editable,
                     preview, exported>>
  BY DEF EditRecord, EditedRow
<1>3. \/ /\ MatchesSnapshot(l, row)
         /\ undone' = IF pending \/ (l \in DOMAIN store.lines /\ store.lines[l] # current[l])
                      THEN undone \cup {l} ELSE undone
         /\ UNCHANGED net
      \/ /\ SendOnly(<<m>>)
         /\ undone' = IF \A x \in Cell \ {c} : row[x] = before[x]
                      THEN undone ELSE undone \cup {l}
  BY DEF EditRecord, EditedRow
<1>4. old \in LineRow /\ before \in LineRow
  BY <1>1, <1>2 DEF TypeOK, AreRows, Table
<1>5. row \in LineRow /\ row.order = old.order /\ row[c] = v /\ \A x \in Cell \ {c} : row[x] = old[x]
  BY <1>4, RowsOfCells
<1>6. want \in LineRow /\ want.order = before.order /\ want[c] = v
      /\ \A x \in Cell \ {c} : want[x] = before[x]
  BY <1>4, RowsOfCells
<1>7. before.order = old.order /\ l \in store.used /\ <<l, old.order>> \in Homes
  <2>1. shown["orders"] \in ListsOfLines /\ wanted \in ListsOfLines
    BY DEF ListsOfLines, Table
  <2>2. <<l, old.order>> \in Homes
    BY <1>2, <2>1 DEF Homes
  <2> QED
    BY <1>1, <1>2, <2>1, <2>2, RowsAgreeOnTheOrder DEF LinesHaveAHome
<1>8. /\ DOMAIN shown' = Table /\ shown'["documents"] = shown["documents"]
      /\ shown'["orders"] = [shown["orders"] EXCEPT ![l] = row]
      /\ DOMAIN shown'["orders"] = DOMAIN shown["orders"]
      /\ shown'["orders"][l] = row
      /\ \A x \in DOMAIN shown["orders"] : x # l => shown'["orders"][x] = shown["orders"][x]
  <2>1. DOMAIN shown = Table
    BY <1>1 DEF TypeOK
  <2> HIDE DEF row
  <2>2. DOMAIN shown' = Table /\ shown'["documents"] = shown["documents"]
        /\ shown'["orders"] = [shown["orders"] EXCEPT ![l] = row]
    BY <1>2, <2>1 DEF Table
  <2> QED
    BY <1>2, <2>2
<1>9. IsMessage(m) /\ m.op = "editLine" /\ m.line = l /\ m.row = row
  <2>1. row.order \in Order
    BY <1>5 DEF LineRow
  <2> QED
    BY <1>5, <2>1 DEF IsMessage, Message, Change
<1> HIDE DEF row, want, before, old, m, pending
<1>10. /\ undone' \in {undone, undone \cup {l}}
       /\ answers' = answers /\ behind' = behind
       /\ \A r \in requests : r \in requests'
       /\ \A r \in requests' : r \in requests \/ r = new
       /\ Quiet \/ seen' = seen
  <2>1. CASE UNCHANGED net
    BY <1>3, <2>1 DEF net
  <2>2. CASE SendOnly(<<m>>)
    BY <1>1, <1>3, <2>2, OneIsSent
  <2> QED
    BY <1>3, <2>1, <2>2
<1>11. new.msg = m /\ new.n = sent'
  OBVIOUS
<1> HIDE DEF new
<1>12. TypeOK'
  <2>1. AreRows(wanted')
    BY <1>1, <1>2, <1>6, RowsOfMore DEF TypeOK
  <2>2. \A t \in Table : AreRows(shown'[t])
    <3>1. AreRows(shown["orders"]) /\ AreRows(shown["documents"])
      BY <1>1 DEF TypeOK, Table
    <3>2. AreRows(shown'["orders"])
      BY <1>2, <1>5, <1>8, <3>1 DEF AreRows
    <3> QED
      BY <1>8, <3>1, <3>2 DEF Table
  <2>3. undone' \subseteq Line
    BY <1>1, <1>10 DEF TypeOK
  <2>4. /\ \A r \in requests' : IsMessage(r.msg) /\ r.n \in 1 .. sent'
        /\ \A a \in answers' : IsAnswer(a) /\ a.n \in 1 .. sent'
        /\ sent' \in Nat /\ seen' \in 0 .. sent' /\ behind' \in BOOLEAN
        /\ acts' \in 0 .. MaxActs /\ losses' \in 0 .. MaxLost
    <3>1. CASE UNCHANGED net
      BY <1>1, <1>2, <3>1, ActsAreCounted DEF net, TypeOK
    <3>2. CASE SendOnly(<<m>>)
      BY <1>1, <1>2, <1>9, <3>2, SendingKeepsTypes
    <3> QED
      BY <1>3, <3>1, <3>2
  <2> QED
    BY <1>1, <1>2, <1>8, <2>1, <2>2, <2>3, <2>4 DEF TypeOK, Listed
<1>13. OneOrderIsWatched'
  BY <1>1, <1>2 DEF OneOrderIsWatched
<1>14. LinesCome'
  <2>1. context # None /\ LinesAreShown => LinesAreShown'
    <3> SUFFICES ASSUME context # None, LinesAreShown PROVE LinesAreShown'
      OBVIOUS
    <3>1. LinesOf(last)' = LinesOf(last)
      BY <1>2 DEF LinesOf
    <3>2. context \in Table
      BY <1>1 DEF TypeOK
    <3>3. DOMAIN shown'[context] = DOMAIN shown[context]
      BY <1>8, <3>2 DEF Table
    <3>4. \A x : BeingEdited(x) \subseteq BeingEdited(x)'
      BY <1>10 DEF BeingEdited
    <3>5. ASSUME NEW x \in DOMAIN shown[context]
          PROVE  x \in undone' \/ shown'[context][x] = store.lines[x] \/ BeingEdited(x)' # {}
      <4>1. CASE context = "orders" /\ x = l
        <5>1. CASE UNCHANGED net /\ MatchesSnapshot(l, row)
                   /\ undone' = IF pending \/ (l \in DOMAIN store.lines /\ store.lines[l] # current[l])
                                THEN undone \cup {l} ELSE undone
          <6>1. l \in DOMAIN store.lines
            BY <4>1, LinesOfAnOrder DEF LinesAreShown
          <6>2. l \notin undone' => store.lines[l] = current[l]
            BY <5>1, <6>1
          <6> QED
            BY <1>8, <4>1, <5>1, <6>2 DEF MatchesSnapshot
        <5>2. CASE SendOnly(<<m>>)
          <6>1. new \in requests'
            BY <1>1, <5>2, OneIsSent DEF new
          <6> QED
            BY <1>9, <1>11, <4>1, <6>1 DEF BeingEdited
        <5> QED
          BY <1>3, <5>1, <5>2
      <4>2. CASE ~(context = "orders" /\ x = l)
        <5>1. shown'[context][x] = shown[context][x]
          BY <1>8, <3>2, <4>2 DEF Table
        <5>2. x \in undone \/ shown[context][x] = store.lines[x] \/ BeingEdited(x) # {}
          BY DEF LinesAreShown
        <5> QED
          BY <1>10, <3>4, <5>1, <5>2
      <4> QED
        BY <4>1, <4>2
    <3> QED
      BY <1>2, <3>1, <3>3, <3>5 DEF LinesAreShown
  <2>2. \A r \in requests' \ requests : r.msg.op # "getLines"
    BY <1>9, <1>10, <1>11
  <2> QED
    BY <1>1, <1>2, <1>10, <2>1, <2>2, ActsKeepLinesComing
<1>15. LinesHaveAHome'
  <2>1. Homes' \subseteq Homes
    <3> SUFFICES ASSUME NEW p \in Homes' PROVE p \in Homes
      OBVIOUS
    <3>1. ASSUME NEW f \in ListsOfLines', NEW x \in DOMAIN f, p = <<x, f[x].order>>
          PROVE  p \in Homes
      <4>1. CASE f = wanted'
        <5>1. CASE x = l
          BY <1>2, <1>6, <1>7, <3>1, <4>1, <5>1
        <5>2. CASE x # l
          BY <1>2, <3>1, <4>1, <5>2 DEF Homes, ListsOfLines
        <5> QED
          BY <5>1, <5>2
      <4>2. CASE f = shown'["orders"]
        <5>1. CASE x = l
          BY <1>5, <1>7, <1>8, <3>1, <4>2, <5>1
        <5>2. CASE x # l
          BY <1>8, <3>1, <4>2, <5>2 DEF Homes, ListsOfLines, Table
        <5> QED
          BY <5>1, <5>2
      <4>3. CASE f # wanted' /\ f # shown'["orders"]
        <5>1. f \in ListsOfLines
          BY <1>2, <1>8, <1>10, <4>3 DEF ListsOfLines, Table
        <5> QED
          BY <3>1, <5>1 DEF Homes
      <4> QED
        BY <4>1, <4>2, <4>3
    <3>2. ASSUME NEW r \in requests', r.msg.op = "editLine", p = <<r.msg.line, r.msg.row.order>>
          PROVE  p \in Homes
      <4>1. CASE r \in requests
        BY <3>2, <4>1 DEF Homes
      <4>2. CASE r = new
        BY <1>5, <1>7, <1>9, <1>11, <3>2, <4>2
      <4> QED
        BY <1>10, <4>1, <4>2
    <3> QED
      BY <3>1, <3>2 DEF Homes
  <2> QED
    BY <1>1, <1>2, <2>1 DEF LinesHaveAHome
<1>16. EditsAreKept'
  <2> SUFFICES ASSUME NEW x \in DOMAIN wanted' \cap DOMAIN store.lines, x \notin undone'
               PROVE  \/ BeingEdited(x)' = {} /\ wanted'[x] = store.lines[x]
                      \/ /\ BeingEdited(x)' # {}
                         /\ \A r \in BeingEdited(x)' :
                              (\A y \in BeingEdited(x)' : y.n <= r.n) => r.msg.row = wanted'[x]
    BY <1>2 DEF EditsAreKept
  <2>1. CASE x # l
    <3>1. BeingEdited(x)' = BeingEdited(x)
      BY <1>9, <1>10, <1>11, <2>1 DEF BeingEdited
    <3>2. x \in DOMAIN wanted /\ wanted'[x] = wanted[x] /\ x \notin undone
      BY <1>2, <1>10, <2>1
    <3> QED
      BY <1>1, <3>1, <3>2 DEF EditsAreKept
  <2>2. CASE x = l /\ UNCHANGED net /\ MatchesSnapshot(l, row)
             /\ undone' = IF pending \/ (l \in DOMAIN store.lines /\ store.lines[l] # current[l])
                          THEN undone \cup {l} ELSE undone
    <3>1. ~pending /\ store.lines[l] = current[l] /\ l \notin undone
      BY <2>2
    <3>2. BeingEdited(l) = {} /\ BeingEdited(l)' = {}
      BY <2>2, <3>1 DEF pending, BeingEdited, net
    <3>3. store.lines[l] = row
      BY <2>2, <3>1 DEF MatchesSnapshot
    <3>4. want = row
      <4>1. CASE l \in DOMAIN wanted
        <5>1. before = row
          BY <1>1, <2>2, <3>1, <3>2, <3>3, <4>1 DEF EditsAreKept, before
        <5> QED
          BY <1>5, <1>6, <5>1, RowsAreTheirCells
      <4>2. CASE l \notin DOMAIN wanted
        BY <4>2 DEF want, row, before
      <4> QED
        BY <4>1, <4>2
    <3> QED
      BY <1>2, <2>2, <3>2, <3>3, <3>4
  <2>3. CASE x = l /\ SendOnly(<<m>>)
             /\ undone' = IF \A y \in Cell \ {c} : row[y] = before[y]
                          THEN undone ELSE undone \cup {l}
    <3>1. \A y \in Cell \ {c} : row[y] = before[y]
      BY <2>3
    <3>2. want = row
      BY <1>5, <1>6, <1>7, <3>1, RowsAreTheirCells
    <3>3. /\ new \in BeingEdited(l)' /\ new.msg.row = row /\ new.n = sent'
          /\ \A r \in BeingEdited(l)' : r = new \/ r.n < sent'
          /\ sent' \in Nat /\ \A r \in requests : r.n \in Nat
      <4>1. requests' = requests \cup {new} /\ sent' \in Nat
            /\ \A r \in requests : r.n < sent' /\ r.n \in 1 .. sent'
        BY <1>1, <2>3, OneIsSent DEF new
      <4> QED
        BY <1>9, <1>11, <4>1 DEF BeingEdited
    <3>4. wanted'[l] = row
      BY <1>2, <3>2
    <3>5. ASSUME NEW r \in BeingEdited(l)', \A y \in BeingEdited(l)' : y.n <= r.n
          PROVE  r = new
      <4>1. new.n <= r.n
        BY <3>3, <3>5
      <4>2. r \in requests \/ r = new
        BY <1>10 DEF BeingEdited
      <4> QED
        BY <3>3, <4>1, <4>2
    <3> QED
      BY <2>3, <3>3, <3>4, <3>5
  <2> QED
    BY <1>3, <2>1, <2>2, <2>3
<1> QED
  BY <1>12, <1>13, <1>14, <1>15, <1>16 DEF OrderDeskInv

-----------------------------------------------------------------------------
(* The server.                                                              *)

\* Rows g are rows f with one of them set.
IsWith(g, f, l, row) ==
  /\ DOMAIN g = DOMAIN f \cup {l} /\ g[l] = row
  /\ \A x \in DOMAIN f \ {l} : g[x] = f[x]

\* What a change that is done makes of the server: a new line has an id that was
\* never used, an edit replaces a row that is there, and every other change at
\* most takes lines away.
IsEffect(m, s) ==
  /\ s = [orders |-> s.orders, lines |-> s.lines, used |-> s.used]
  /\ AreOrders(s.orders) /\ AreRows(s.lines)
  /\ s.used \subseteq Order \cup Line /\ store.used \subseteq s.used
  /\ \/ /\ m.op = "newLine"
        /\ \E f \in s.used \ store.used : IsWith(s.lines, store.lines, f, m.row)
     \/ /\ m.op = "editLine" /\ m.line \in DOMAIN store.lines
        /\ IsWith(s.lines, store.lines, m.line, m.row)
     \/ /\ m.op \notin {"newLine", "editLine"}
        /\ DOMAIN s.lines \subseteq DOMAIN store.lines
        /\ \A x \in DOMAIN s.lines : s.lines[x] = store.lines[x]

LEMMA EffectsOfChanges ==
  ASSUME TypeOK, NEW m, IsMessage(m), m.op \in Change, Done(m), NEW s, s = Effect(m)
  PROVE  IsEffect(m, s)
<1> USE DEF IsEffect
<1>1. /\ store = [orders |-> store.orders, lines |-> store.lines, used |-> store.used]
      /\ AreOrders(store.orders) /\ AreRows(store.lines) /\ store.used \subseteq Order \cup Line
  BY DEF TypeOK
<1>2. ASSUME NEW o \in Order, NEW status \in Status, s = WithOrder(o, status)
      PROVE  /\ s = [orders |-> s.orders, lines |-> s.lines, used |-> s.used]
             /\ AreOrders(s.orders) /\ s.lines = store.lines /\ s.used = store.used \cup {o}
  <2>1. /\ s.orders = [x \in DOMAIN store.orders \cup {o} |-> IF x = o THEN status ELSE store.orders[x]]
        /\ s.lines = store.lines /\ s.used = store.used \cup {o}
        /\ s = [orders |-> s.orders, lines |-> s.lines, used |-> s.used]
    BY <1>1, <1>2 DEF WithOrder
  <2>2. AreOrders(s.orders)
    BY <1>1, <2>1 DEF AreOrders
  <2> QED
    BY <2>1, <2>2
<1>3. ASSUME NEW l \in Line, NEW row \in LineRow, s = WithLine(l, row)
      PROVE  /\ s = [orders |-> s.orders, lines |-> s.lines, used |-> s.used]
             /\ s.orders = store.orders /\ AreRows(s.lines) /\ s.used = store.used \cup {l}
             /\ IsWith(s.lines, store.lines, l, row)
  <2>1. /\ s.lines = [x \in DOMAIN store.lines \cup {l} |-> IF x = l THEN row ELSE store.lines[x]]
        /\ s.orders = store.orders /\ s.used = store.used \cup {l}
        /\ s = [orders |-> s.orders, lines |-> s.lines, used |-> s.used]
    BY <1>1, <1>3 DEF WithLine
  <2>2. AreRows(s.lines)
    BY <1>1, <2>1, RowsOfMore
  <2>3. IsWith(s.lines, store.lines, l, row)
    BY <2>1 DEF IsWith
  <2> QED
    BY <2>1, <2>2, <2>3
<1>4. ASSUME NEW S \in SUBSET DOMAIN store.lines
      PROVE  /\ AreRows(Restrict(store.lines, S))
             /\ DOMAIN Restrict(store.lines, S) \subseteq DOMAIN store.lines
             /\ \A x \in DOMAIN Restrict(store.lines, S) : Restrict(store.lines, S)[x] = store.lines[x]
  BY <1>1, RowsOfFewer, RestrictedTo
<1>5. CASE m.op = "newOrder"
  <2>1. Fresh(Order) \in Order /\ s = WithOrder(Fresh(Order), "Draft")
    BY <1>5 DEF Done, Effect, Fresh
  <2> QED
    BY <1>1, <1>2, <1>5, <2>1 DEF Status
<1>6. CASE m.op = "editOrder"
  <2>1. s = store
    BY <1>6 DEF Effect
  <2> QED
    BY <1>1, <1>6, <2>1
<1>7. CASE m.op = "delOrder"
  <2> DEFINE S == {l \in DOMAIN store.lines : store.lines[l].order # m.order}
             O == DOMAIN store.orders \ {m.order}
  <2>1. s = [store EXCEPT !.orders = Restrict(@, O), !.lines = Restrict(store.lines, S)]
    BY <1>7 DEF Effect, Without
  <2>2. S \in SUBSET DOMAIN store.lines /\ O \in SUBSET DOMAIN store.orders
    OBVIOUS
  <2> HIDE DEF S, O
  <2>3. /\ s.orders = Restrict(store.orders, O) /\ s.lines = Restrict(store.lines, S)
        /\ s.used = store.used
        /\ s = [orders |-> s.orders, lines |-> s.lines, used |-> s.used]
    BY <1>1, <2>1
  <2>4. AreOrders(s.orders)
    BY <1>1, <2>2, <2>3 DEF AreOrders, Restrict
  <2> QED
    BY <1>1, <1>4, <1>7, <2>2, <2>3, <2>4
<1>8. CASE m.op = "newLine"
  <2>1. Fresh(Line) \in Line \ store.used /\ s = WithLine(Fresh(Line), m.row) /\ m.row \in LineRow
    BY <1>8 DEF Done, Effect, Fresh, IsMessage
  <2>2. Fresh(Line) \in s.used \ store.used /\ IsWith(s.lines, store.lines, Fresh(Line), m.row)
    BY <1>3, <2>1
  <2>3. /\ s = [orders |-> s.orders, lines |-> s.lines, used |-> s.used]
        /\ s.orders = store.orders /\ AreRows(s.lines) /\ s.used = store.used \cup {Fresh(Line)}
    BY <1>3, <2>1
  <2> QED
    BY <1>1, <1>8, <2>1, <2>2, <2>3
<1>9. CASE m.op = "editLine"
  <2>1. s = WithLine(m.line, m.row) /\ m.line \in Line /\ m.row \in LineRow
        /\ m.line \in DOMAIN store.lines
    BY <1>9 DEF Done, Effect, Has, IsMessage
  <2> QED
    BY <1>1, <1>3, <1>9, <2>1
<1>10. CASE m.op = "delLine"
  <2> DEFINE S == DOMAIN store.lines \ {m.line}
  <2>1. s = [store EXCEPT !.lines = Restrict(@, S)]
    BY <1>10 DEF Effect
  <2>2. S \in SUBSET DOMAIN store.lines
    OBVIOUS
  <2> HIDE DEF S
  <2>3. /\ s.orders = store.orders /\ s.lines = Restrict(store.lines, S)
        /\ s.used = store.used
        /\ s = [orders |-> s.orders, lines |-> s.lines, used |-> s.used]
    BY <1>1, <2>1
  <2> QED
    BY <1>1, <1>4, <1>10, <2>2, <2>3
<1>11. CASE m.op = "receive"
  <2>1. s = WithOrder(m.order, "Received") /\ m.order \in Order
    BY <1>11 DEF Effect, IsMessage
  <2> QED
    BY <1>1, <1>2, <1>11, <2>1 DEF Status
<1> QED
  BY <1>5, <1>6, <1>7, <1>8, <1>9, <1>10, <1>11 DEF Change

\* A list is answered with what the server has.
LEMMA ServeListKeeps ==
  ASSUME OrderDeskInv, NEW r, Serve(r), r.msg.op \in {"getOrders", "getLines"}
  PROVE  OrderDeskInv'
<1> USE DEF desk
<1>1. TypeOK /\ OneOrderIsWatched /\ LinesCome /\ LinesHaveAHome /\ EditsAreKept
  BY DEF OrderDeskInv
<1> DEFINE content == IF r.msg.op = "getOrders" THEN store.orders ELSE LinesOf(r.msg.order)
           a == Answer(r, TRUE, content)
<1>2. /\ r \in requests /\ requests' = requests \ {r} /\ answers' = answers \cup {a}
      /\ UNCHANGED <<kind, store, desk, exported, sent, seen, behind, wanted, undone, acts, losses>>
  BY DEF Serve
<1>3. a.msg = r.msg /\ a.n = r.n /\ a.done = TRUE /\ a.content = content
  BY DEF Answer
<1>4. /\ IsMessage(r.msg) /\ r.n \in 1 .. sent
      /\ r.msg.op = "getOrders" => AreOrders(content)
      /\ r.msg.op = "getLines" => AreRows(content) /\ content = LinesOf(r.msg.order)
  BY <1>1, <1>2, LinesOfAnOrder DEF TypeOK
<1> HIDE DEF a, content
<1>5. TypeOK'
  <2>1. \A x \in answers' : IsAnswer(x) /\ x.n \in 1 .. sent
    BY <1>1, <1>2, <1>3, <1>4 DEF TypeOK, IsAnswer
  <2> QED
    BY <1>1, <1>2, <2>1 DEF TypeOK, Listed
<1>6. LinesCome'
  <2> SUFFICES ASSUME context # None
               PROVE  \/ AChangeIsConfirmed' \/ LinesAreAskedFor' \/ LinesAreOnTheirWay'
                      \/ LinesArrived'
    BY <1>2 DEF LinesCome
  <2>1. LinesOf(last)' = LinesOf(last)
    BY <1>2 DEF LinesOf
  <2>2. CASE AChangeIsConfirmed
    BY <1>2, <2>2 DEF AChangeIsConfirmed
  <2>3. CASE LinesAreAskedFor
    <3>1. PICK x \in requests :
            /\ x.msg.op = "getLines" /\ x.msg.order = last
            /\ seen < x.n /\ Before(requests \ {x}, x.n) /\ Before(answers, x.n)
      BY <2>3 DEF LinesAreAskedFor
    <3>2. CASE x = r
      <4>1. a.content = LinesOf(last)'
        BY <1>3, <1>4, <2>1, <3>1, <3>2
      <4>2. Before(requests', a.n) /\ Before(answers' \ {a}, a.n)
        BY <1>2, <1>3, <3>1, <3>2 DEF Before
      <4> QED
        BY <1>2, <1>3, <3>1, <3>2, <4>1, <4>2 DEF LinesAreOnTheirWay
    <3>3. CASE x # r
      <4>1. Before(requests' \ {x}, x.n) /\ Before(answers', x.n)
        BY <1>2, <1>3, <3>1, <3>3 DEF Before
      <4> QED
        BY <1>2, <3>1, <3>3, <4>1 DEF LinesAreAskedFor
    <3> QED
      BY <3>2, <3>3
  <2>4. CASE LinesAreOnTheirWay
    <3>1. PICK x \in answers :
            /\ x.msg.op = "getLines" /\ x.msg.order = last
            /\ x.content = LinesOf(last)
            /\ seen < x.n /\ Before(requests, x.n) /\ Before(answers \ {x}, x.n)
      BY <2>4 DEF LinesAreOnTheirWay
    <3>2. Before(requests', x.n) /\ Before(answers' \ {x}, x.n)
      BY <1>2, <1>3, <3>1 DEF Before
    <3> QED
      BY <1>2, <2>1, <3>1, <3>2 DEF LinesAreOnTheirWay
  <2>5. CASE LinesArrived
    <3>1. NoNewerLinesCome'
      BY <1>2, <1>3, <2>5 DEF LinesArrived, NoNewerLinesCome
    <3>2. LinesAreShown => LinesAreShown'
      <4>1. \A l : BeingEdited(l)' = BeingEdited(l)
        BY <1>2 DEF BeingEdited
      <4> QED
        BY <1>2, <2>1, <4>1 DEF LinesAreShown
    <3> QED
      BY <1>2, <2>5, <3>1, <3>2 DEF LinesArrived
  <2> QED
    BY <1>1, <2>2, <2>3, <2>4, <2>5 DEF LinesCome
<1>7. LinesHaveAHome'
  <2>1. Homes' \subseteq Homes
    <3> SUFFICES ASSUME NEW p \in Homes' PROVE p \in Homes
      OBVIOUS
    <3>1. ASSUME NEW f \in ListsOfLines', NEW x \in DOMAIN f, p = <<x, f[x].order>>
          PROVE  p \in Homes
      <4>1. CASE f \in ListsOfLines
        BY <3>1, <4>1 DEF Homes
      <4>2. CASE f \notin ListsOfLines
        <5>1. r.msg.op = "getLines" /\ f = content
          BY <1>2, <1>3, <4>2 DEF ListsOfLines
        <5>2. x \in DOMAIN store.lines /\ f[x] = store.lines[x]
          <6>1. f = LinesOf(r.msg.order)
            BY <1>4, <5>1
          <6>2. x \in DOMAIN LinesOf(r.msg.order)
            BY <6>1
          <6> QED
            BY <6>1, <6>2, LinesOfAnOrder
        <5> QED
          BY <3>1, <5>2 DEF Homes, ListsOfLines
      <4> QED
        BY <4>1, <4>2
    <3>2. ASSUME NEW x \in requests', x.msg.op = "editLine", p = <<x.msg.line, x.msg.row.order>>
          PROVE  p \in Homes
      BY <1>2, <3>2 DEF Homes
    <3> QED
      BY <3>1, <3>2 DEF Homes
  <2> QED
    BY <1>1, <1>2, <2>1 DEF LinesHaveAHome
<1>8. EditsAreKept'
  BY <1>1, <1>2, EditsAreStillKept DEF ghost
<1> QED
  BY <1>1, <1>2, <1>5, <1>6, <1>7, <1>8 DEF OrderDeskInv, OneOrderIsWatched

\* A change that is done is confirmed, and the lines are fetched again; one that
\* is refused leaves everything but the edit it was.
LEMMA ServeChangeKeeps ==
  ASSUME OrderDeskInv, NEW r, Serve(r), r.msg.op \notin {"getOrders", "getLines"}
  PROVE  OrderDeskInv'
<1> USE DEF desk
<1>1. TypeOK /\ OneOrderIsWatched /\ LinesCome /\ LinesHaveAHome /\ EditsAreKept
  BY DEF OrderDeskInv
<1> DEFINE done == Done(r.msg)
           a == Answer(r, done, None)
           overtakes == \E x \in requests : /\ x.msg.op = "editLine"
                                            /\ x.msg.line = r.msg.line /\ x.n < r.n
<1>2. /\ r \in requests /\ requests' = requests \ {r} /\ answers' = answers \cup {a}
      /\ store' = IF done THEN Effect(r.msg) ELSE store
      /\ undone' = IF r.msg.op = "editLine" /\ (~done \/ overtakes)
                   THEN undone \cup {r.msg.line} ELSE undone
      /\ UNCHANGED <<kind, desk, exported, sent, seen, behind, wanted, acts, losses>>
  BY DEF Serve
<1>3. a.msg = r.msg /\ a.n = r.n /\ a.done = done
  BY DEF Answer
<1>4. IsMessage(r.msg) /\ r.n \in 1 .. sent /\ r.msg.op \in Change /\ done \in BOOLEAN
  <2>1. IsMessage(r.msg) /\ r.n \in 1 .. sent
    BY <1>1, <1>2 DEF TypeOK
  <2>2. r.msg.op \in Change
    BY <2>1 DEF IsMessage
  <2>3. done \in BOOLEAN
    <3>1. CASE r.msg.op = "newOrder"
      BY <3>1 DEF Done
    <3>2. CASE r.msg.op \in {"editOrder", "delOrder"}
      BY <3>2 DEF Done, OrderIsOpen
    <3>3. CASE r.msg.op = "newLine"
      BY <3>3 DEF Done
    <3>4. CASE r.msg.op = "editLine"
      BY <3>4 DEF Done
    <3>5. CASE r.msg.op = "delLine"
      BY <3>5 DEF Done, Has
    <3>6. CASE r.msg.op = "receive"
      BY <3>6 DEF Done
    <3> QED
      BY <2>2, <3>1, <3>2, <3>3, <3>4, <3>5, <3>6 DEF Change
  <2> QED
    BY <2>1, <2>2, <2>3
<1> HIDE DEF a
<1>5. done => IsEffect(r.msg, store')
  BY <1>1, <1>2, <1>4, EffectsOfChanges
<1> HIDE DEF done
<1>6. TypeOK'
  <2>1. \A x \in answers' : IsAnswer(x) /\ x.n \in 1 .. sent
    BY <1>1, <1>2, <1>3, <1>4 DEF TypeOK, IsAnswer
  <2>2. undone' \subseteq Line
    BY <1>1, <1>2, <1>4 DEF TypeOK, IsMessage
  <2>3. /\ store' = [orders |-> store'.orders, lines |-> store'.lines, used |-> store'.used]
        /\ AreOrders(store'.orders) /\ AreRows(store'.lines)
        /\ store'.used \subseteq Order \cup Line
    BY <1>1, <1>2, <1>5 DEF TypeOK, IsEffect
  <2> QED
    BY <1>1, <1>2, <2>1, <2>2, <2>3 DEF TypeOK, Listed
<1>7. OneOrderIsWatched'
  BY <1>1, <1>2 DEF OneOrderIsWatched
<1>8. LinesCome'
  <2>1. CASE done
    BY <1>2, <1>3, <1>4, <2>1 DEF LinesCome, AChangeIsConfirmed
  <2>2. CASE ~done
    <3> SUFFICES ASSUME context # None
                 PROVE  \/ AChangeIsConfirmed' \/ LinesAreAskedFor' \/ LinesAreOnTheirWay'
                        \/ LinesArrived'
      BY <1>2 DEF LinesCome
    <3>1. store' = store /\ LinesOf(last)' = LinesOf(last)
      BY <1>2, <2>2 DEF LinesOf
    <3>2. CASE AChangeIsConfirmed
      BY <1>2, <3>2 DEF AChangeIsConfirmed
    <3>3. CASE LinesAreAskedFor
      <4>1. PICK x \in requests :
              /\ x.msg.op = "getLines" /\ x.msg.order = last
              /\ seen < x.n /\ Before(requests \ {x}, x.n) /\ Before(answers, x.n)
        BY <3>3 DEF LinesAreAskedFor
      <4>2. x \in requests'
        BY <1>2, <4>1
      <4>3. Before(requests' \ {x}, x.n) /\ Before(answers', x.n)
        BY <1>2, <1>3, <4>1 DEF Before
      <4> QED
        BY <1>2, <4>1, <4>2, <4>3 DEF LinesAreAskedFor
    <3>4. CASE LinesAreOnTheirWay
      <4>1. PICK x \in answers :
              /\ x.msg.op = "getLines" /\ x.msg.order = last
              /\ x.content = LinesOf(last)
              /\ seen < x.n /\ Before(requests, x.n) /\ Before(answers \ {x}, x.n)
        BY <3>4 DEF LinesAreOnTheirWay
      <4>2. Before(requests', x.n) /\ Before(answers' \ {x}, x.n)
        BY <1>2, <1>3, <4>1 DEF Before
      <4> QED
        BY <1>2, <3>1, <4>1, <4>2 DEF LinesAreOnTheirWay
    <3>5. CASE LinesArrived
      <4>1. NoNewerLinesCome'
        BY <1>2, <1>3, <3>5 DEF LinesArrived, NoNewerLinesCome
      <4>2. LinesAreShown => LinesAreShown'
        <5>1. \A l : BeingEdited(l)' = BeingEdited(l) \/ l \in undone'
          BY <1>2, <2>2 DEF BeingEdited
        <5>2. undone \subseteq undone'
          BY <1>2
        <5> QED
          BY <1>2, <3>1, <5>1, <5>2 DEF LinesAreShown
      <4> QED
        BY <1>2, <3>5, <4>1, <4>2 DEF LinesArrived
    <3> QED
      BY <1>1, <3>2, <3>3, <3>4, <3>5 DEF LinesCome
  <2> QED
    BY <2>1, <2>2
<1>9. /\ store.used \subseteq store'.used
      /\ \A f \in ListsOfLines' : f = store'.lines \/ f \in ListsOfLines
      /\ store.lines \in ListsOfLines
      /\ \A x \in requests' : x \in requests
  <2>1. store.used \subseteq store'.used
    BY <1>2, <1>5 DEF IsEffect
  <2>2. \A f \in ListsOfLines' : f = store'.lines \/ f \in ListsOfLines
    BY <1>2, <1>3 DEF ListsOfLines
  <2> QED
    BY <1>2, <2>1, <2>2 DEF ListsOfLines
<1>10. LinesHaveAHome'
  <2>1. ASSUME NEW p \in Homes'
        PROVE  \/ p \in Homes
               \/ done /\ r.msg.op = "newLine" /\ p[1] \notin store.used /\ p[1] \in store'.used
                  /\ p[2] = r.msg.row.order
    <3>1. ASSUME NEW x \in DOMAIN store'.lines, p = <<x, store'.lines[x].order>>
          PROVE  \/ p \in Homes
                 \/ done /\ r.msg.op = "newLine" /\ p[1] \notin store.used /\ p[1] \in store'.used
                    /\ p[2] = r.msg.row.order
      <4>1. CASE x \in DOMAIN store.lines /\ store'.lines[x] = store.lines[x]
        BY <1>9, <3>1, <4>1 DEF Homes
      <4>2. CASE ~(x \in DOMAIN store.lines /\ store'.lines[x] = store.lines[x])
        <5>1. done
          BY <1>2, <3>1, <4>2
        <5>2. CASE r.msg.op = "newLine"
          BY <1>5, <3>1, <4>2, <5>1, <5>2 DEF IsEffect, IsWith
        <5>3. CASE r.msg.op = "editLine"
          <6>1. x = r.msg.line /\ store'.lines[x] = r.msg.row
            BY <1>5, <3>1, <4>2, <5>1, <5>3 DEF IsEffect, IsWith
          <6> QED
            BY <1>2, <3>1, <5>3, <6>1 DEF Homes
        <5> QED
          BY <1>5, <3>1, <4>2, <5>1, <5>2, <5>3 DEF IsEffect
      <4> QED
        BY <4>1, <4>2
    <3>2. ASSUME NEW f \in ListsOfLines, NEW x \in DOMAIN f, p = <<x, f[x].order>>
          PROVE  p \in Homes
      BY <3>2 DEF Homes
    <3>3. ASSUME NEW x \in requests', x.msg.op = "editLine", p = <<x.msg.line, x.msg.row.order>>
          PROVE  p \in Homes
      BY <1>9, <3>3 DEF Homes
    <3> QED
      BY <1>9, <3>1, <3>2, <3>3 DEF Homes
  <2> QED
    <3>1. \A p \in Homes' : p[1] \in store'.used
      BY <1>1, <1>9, <2>1 DEF LinesHaveAHome
    <3>2. ASSUME NEW p \in Homes', NEW q \in Homes', p[1] = q[1]
          PROVE  p[2] = q[2]
      BY <1>1, <2>1, <3>2 DEF LinesHaveAHome
    <3> QED
      BY <3>1, <3>2 DEF LinesHaveAHome
<1>11. EditsAreKept'
  <2> SUFFICES ASSUME NEW l \in DOMAIN wanted \cap DOMAIN store'.lines, l \notin undone'
               PROVE  \/ BeingEdited(l)' = {} /\ wanted[l] = store'.lines[l]
                      \/ /\ BeingEdited(l)' # {}
                         /\ \A x \in BeingEdited(l)' :
                              (\A y \in BeingEdited(l)' : y.n <= x.n) => x.msg.row = wanted[l]
    BY <1>2 DEF EditsAreKept
  <2>1. l \in store.used /\ l \notin undone
    <3>1. wanted \in ListsOfLines
      BY DEF ListsOfLines
    <3>2. <<l, wanted[l].order>> \in Homes
      BY <3>1 DEF Homes
    <3> QED
      BY <1>1, <1>2, <3>2 DEF LinesHaveAHome
  <2>2. CASE r.msg.op = "editLine" /\ r.msg.line = l
    <3>1. done /\ ~overtakes
      BY <1>2, <2>2
    <3>2. l \in DOMAIN store.lines /\ store'.lines[l] = r.msg.row
      BY <1>5, <2>2, <3>1 DEF IsEffect, IsWith
    <3>3. r \in BeingEdited(l) /\ BeingEdited(l)' = BeingEdited(l) \ {r}
      BY <1>2, <2>2 DEF BeingEdited
    <3>4. \A y \in BeingEdited(l) : ~(y.n < r.n) /\ y.n \in Nat
      BY <1>1, <2>2, <3>1 DEF BeingEdited, TypeOK
    <3>5. \A x \in BeingEdited(l) :
            (\A y \in BeingEdited(l) : y.n <= x.n) => x.msg.row = wanted[l]
      BY <1>1, <2>1, <3>2, <3>3 DEF EditsAreKept
    <3>6. CASE BeingEdited(l)' = {}
      <4>1. \A y \in BeingEdited(l) : y = r
        BY <3>3, <3>6
      <4>2. \A y \in BeingEdited(l) : y.n <= r.n
        BY <1>4, <4>1
      <4> QED
        BY <3>2, <3>3, <3>5, <3>6, <4>2
    <3>7. CASE BeingEdited(l)' # {}
      <4> SUFFICES ASSUME NEW x \in BeingEdited(l)', \A y \in BeingEdited(l)' : y.n <= x.n
                   PROVE  x.msg.row = wanted[l]
        BY <3>7
      <4>1. x \in BeingEdited(l) /\ r.n <= x.n
        BY <1>4, <3>3, <3>4
      <4>2. \A y \in BeingEdited(l) : y.n <= x.n
        BY <3>3, <4>1
      <4> QED
        BY <3>5, <4>1, <4>2
    <3> QED
      BY <3>6, <3>7
  <2>3. CASE ~(r.msg.op = "editLine" /\ r.msg.line = l)
    <3>1. BeingEdited(l)' = BeingEdited(l)
      BY <1>2, <2>3 DEF BeingEdited
    <3>2. l \in DOMAIN store.lines /\ store'.lines[l] = store.lines[l]
      <4>1. CASE ~done
        BY <1>2, <4>1
      <4>2. CASE done /\ r.msg.op = "newLine"
        BY <1>5, <2>1, <4>2 DEF IsEffect, IsWith
      <4>3. CASE done /\ r.msg.op = "editLine"
        BY <1>5, <2>3, <4>3 DEF IsEffect, IsWith
      <4>4. CASE done /\ r.msg.op \notin {"newLine", "editLine"}
        BY <1>5, <4>4 DEF IsEffect
      <4> QED
        BY <1>4, <4>1, <4>2, <4>3, <4>4
    <3> QED
      BY <1>1, <2>1, <3>1, <3>2 DEF EditsAreKept
  <2> QED
    BY <2>2, <2>3
<1> QED
  BY <1>6, <1>7, <1>8, <1>10, <1>11 DEF OrderDeskInv

-----------------------------------------------------------------------------
(* Answers.                                                                 *)

\* The orders arrive and both selections are emptied.
LEMMA DeliverOrdersKeeps ==
  ASSUME OrderDeskInv, NEW a, DeliverOrders(a)
  PROVE  OrderDeskInv'
<1> USE DEF ghost
<1>1. TypeOK /\ OneOrderIsWatched /\ LinesCome /\ LinesHaveAHome /\ EditsAreKept
  BY DEF OrderDeskInv
<1>2. /\ a \in answers /\ a.msg.op = "getOrders" /\ answers' = answers \ {a}
      /\ orders' = a.content /\ Emptied(Table)
      /\ UNCHANGED <<kind, store, hidden, context, last, editable, exported, requests, sent, seen,
                     behind, ghost, acts, losses>>
  BY DEF DeliverOrders
<1>3. /\ DOMAIN selected' = Table /\ \A t \in Table : selected'[t] = None
      /\ AreRows(current') /\ current' \in {current, NoRows}
      /\ DOMAIN shown' = Table /\ \A t \in Table : AreRows(shown'[t])
      /\ \A t \in Table : shown'[t] \in {shown[t], NoRows}
      /\ IsInvoice(preview')
  BY <1>1, <1>2, EmptiedIsOfTypes
<1>4. TypeOK'
  <2>1. AreOrders(orders')
    BY <1>1, <1>2 DEF TypeOK, IsAnswer
  <2> QED
    BY <1>1, <1>2, <1>3, <2>1 DEF TypeOK
<1>5. OneOrderIsWatched'
  BY <1>1, <1>2, <1>3 DEF OneOrderIsWatched, TypeOK
<1>6. LinesCome'
  <2> SUFFICES ASSUME context # None
               PROVE  \/ AChangeIsConfirmed' \/ LinesAreAskedFor' \/ LinesAreOnTheirWay'
                      \/ LinesArrived'
    BY <1>2 DEF LinesCome
  <2>1. CASE AChangeIsConfirmed
    BY <1>2, <2>1 DEF AChangeIsConfirmed, Change
  <2>2. CASE LinesAreAskedFor
    <3>1. PICK x \in requests :
            /\ x.msg.op = "getLines" /\ x.msg.order = last
            /\ seen < x.n /\ Before(requests \ {x}, x.n) /\ Before(answers, x.n)
      BY <2>2 DEF LinesAreAskedFor
    <3>2. Before(answers', x.n)
      BY <1>2, <3>1 DEF Before
    <3> QED
      BY <1>2, <3>1, <3>2 DEF LinesAreAskedFor
  <2>3. CASE LinesAreOnTheirWay
    <3>1. PICK x \in answers :
            /\ x.msg.op = "getLines" /\ x.msg.order = last
            /\ x.content = LinesOf(last)
            /\ seen < x.n /\ Before(requests, x.n) /\ Before(answers \ {x}, x.n)
      BY <2>3 DEF LinesAreOnTheirWay
    <3>2. x \in answers' /\ Before(answers' \ {x}, x.n)
      BY <1>2, <3>1 DEF Before
    <3>3. LinesOf(last)' = LinesOf(last)
      BY <1>2 DEF LinesOf
    <3> QED
      BY <1>2, <3>1, <3>2, <3>3 DEF LinesAreOnTheirWay
  <2>4. CASE LinesArrived
    <3>1. NoNewerLinesCome'
      BY <1>2, <2>4 DEF LinesArrived, NoNewerLinesCome
    <3>2. selected'[context'] = None
      BY <1>1, <1>2, <1>3 DEF TypeOK
    <3> QED
      BY <3>1, <3>2 DEF LinesArrived
  <2> QED
    BY <1>1, <2>1, <2>2, <2>3, <2>4 DEF LinesCome
<1>7. LinesHaveAHome'
  <2>1. ListsOfLines' \subseteq ListsOfLines \cup {NoRows}
    BY <1>2, <1>3 DEF ListsOfLines
  <2> QED
    BY <1>1, <1>2, <2>1, NoNewRows
<1>8. EditsAreKept'
  BY <1>1, <1>2, EditsAreStillKept
<1> QED
  BY <1>4, <1>5, <1>6, <1>7, <1>8 DEF OrderDeskInv

\* A list of lines arrives. It is the newest and is put where the selection is, or
\* it is older than one still to come, or the lines are behind.
LEMMA DeliverLinesKeeps ==
  ASSUME OrderDeskInv, NEW a, DeliverLines(a)
  PROVE  OrderDeskInv'
<1> USE DEF ghost
<1>1. TypeOK /\ OneOrderIsWatched /\ LinesCome /\ LinesHaveAHome /\ EditsAreKept
  BY DEF OrderDeskInv
<1>2. /\ a \in answers /\ a.msg.op = "getLines" /\ answers' = answers \ {a}
      /\ current' = a.content
      /\ shown' = (IF context = None THEN shown ELSE [shown EXCEPT ![context] = a.content])
      /\ editable' = (IF context = "orders" THEN kind = "sales" \/ ~SelectedIsLocked ELSE editable)
      /\ preview' = IF kind = "sales" /\ context = "documents" THEN PreviewOf(a.content) ELSE preview
      /\ behind' = (a.n <= seen)
      /\ seen' = IF a.n > seen THEN a.n ELSE seen
      /\ UNCHANGED <<kind, store, orders, hidden, selected, context, last, exported, requests, sent,
                     wanted, undone, acts, losses>>
  BY DEF DeliverLines
<1>3. AreRows(a.content) /\ a.n \in 1 .. sent /\ seen \in 0 .. sent /\ sent \in Nat
  BY <1>1, <1>2 DEF TypeOK, IsAnswer
<1>4. /\ DOMAIN shown' = Table
      /\ \A t \in Table : shown'[t] = IF t = context THEN a.content ELSE shown[t]
  <2>1. CASE context = None
    BY <1>1, <1>2, <2>1 DEF TypeOK, Table, None
  <2>2. CASE context # None
    BY <1>1, <1>2, <2>2 DEF TypeOK
  <2> QED
    BY <2>1, <2>2
<1>5. TypeOK'
  <2>1. \A t \in Table : AreRows(shown'[t])
    BY <1>1, <1>3, <1>4 DEF TypeOK
  <2>2. editable' \in BOOLEAN
    <3>1. SelectedIsLocked \in BOOLEAN
      BY DEF SelectedIsLocked, isLockedPurchaseStatus
    <3>2. editable \in BOOLEAN
      BY <1>1 DEF TypeOK
    <3> QED
      BY <1>2, <3>1, <3>2
  <2>3. IsInvoice(preview')
    <3>1. selected["documents"] = None \/ selected["documents"] \in Order
      BY <1>1, SelectionIsAnOrder DEF Table
    <3>2. IsInvoice(PreviewOf(a.content))
      <4>1. CASE selected["documents"] = None
        BY <4>1, NoInvoiceIsOne DEF PreviewOf
      <4>2. CASE selected["documents"] # None
        BY <1>3, <3>1, <4>2 DEF PreviewOf, IsInvoice
      <4> QED
        BY <4>1, <4>2
    <3> QED
      BY <1>1, <1>2, <3>2 DEF TypeOK
  <2>4. behind' \in BOOLEAN /\ seen' \in 0 .. sent
    BY <1>2, <1>3
  <2> QED
    BY <1>1, <1>2, <1>3, <1>4, <2>1, <2>2, <2>3, <2>4 DEF TypeOK, Listed
<1>6. OneOrderIsWatched'
  BY <1>1, <1>2 DEF OneOrderIsWatched
<1>7. LinesCome'
  <2> SUFFICES ASSUME context # None
               PROVE  \/ AChangeIsConfirmed' \/ LinesAreAskedFor' \/ LinesAreOnTheirWay'
                      \/ LinesArrived'
    BY <1>2 DEF LinesCome
  <2>1. LinesOf(last)' = LinesOf(last)
    BY <1>2 DEF LinesOf
  <2>2. CASE AChangeIsConfirmed
    BY <1>2, <2>2 DEF AChangeIsConfirmed, Change
  <2>3. CASE LinesAreAskedFor
    <3>1. PICK x \in requests :
            /\ x.msg.op = "getLines" /\ x.msg.order = last
            /\ seen < x.n /\ Before(requests \ {x}, x.n) /\ Before(answers, x.n)
      BY <2>3 DEF LinesAreAskedFor
    <3>2. Before(answers', x.n) /\ seen' < x.n
      BY <1>2, <3>1 DEF Before
    <3> QED
      BY <1>2, <3>1, <3>2 DEF LinesAreAskedFor
  <2>4. CASE LinesAreOnTheirWay
    <3>1. PICK x \in answers :
            /\ x.msg.op = "getLines" /\ x.msg.order = last
            /\ x.content = LinesOf(last)
            /\ seen < x.n /\ Before(requests, x.n) /\ Before(answers \ {x}, x.n)
      BY <2>4 DEF LinesAreOnTheirWay
    <3>2. CASE x # a
      <4>1. x \in answers' /\ Before(answers' \ {x}, x.n) /\ seen' < x.n
        BY <1>2, <3>1, <3>2 DEF Before
      <4> QED
        BY <1>2, <2>1, <3>1, <4>1 DEF LinesAreOnTheirWay
    <3>3. CASE x = a
      <4>1. seen' = a.n /\ NoNewerLinesCome'
        <5>1. seen' = a.n
          BY <1>2, <3>1, <3>3
        <5>2. \A y \in requests' \cup answers' :
                y.msg.op = "getLines" => y.n \in Int /\ a.n \in Int /\ y.n < a.n
          BY <1>1, <1>2, <1>3, <3>1, <3>3 DEF Before, TypeOK
        <5> QED
          BY <5>1, <5>2 DEF NoNewerLinesCome
      <4>2. selected[context] # None => LinesAreShown'
        <5> SUFFICES ASSUME selected[context] # None PROVE LinesAreShown'
          OBVIOUS
        <5>1. context \in Table /\ selected[context] = last
          BY <1>1 DEF TypeOK, OneOrderIsWatched
        <5>2. shown'[context] = LinesOf(last)
          BY <1>4, <3>1, <3>3, <5>1
        <5>3. \A l \in DOMAIN LinesOf(last) : LinesOf(last)[l] = store.lines[l]
          BY LinesOfAnOrder
        <5>4. kind = "sales" /\ context = "documents" =>
                preview' = [order |-> last, lines |-> LinesOf(last)]
          BY <1>2, <3>1, <3>3, <5>1 DEF PreviewOf
        <5> QED
          BY <1>2, <2>1, <5>2, <5>3, <5>4 DEF LinesAreShown
      <4> QED
        BY <1>2, <4>1, <4>2 DEF LinesArrived
    <3> QED
      BY <3>2, <3>3
  <2>5. CASE LinesArrived
    <3>1. a.n <= seen
      BY <1>2, <2>5 DEF LinesArrived, NoNewerLinesCome
    <3>2. behind' /\ seen' = seen
      <4>1. seen' = seen
        BY <1>2, <1>3, <3>1
      <4>2. behind' = (a.n <= seen)
        BY <1>2
      <4> QED
        BY <3>1, <4>1, <4>2, Zenon
    <3>3. NoNewerLinesCome'
      BY <1>2, <2>5, <3>2 DEF LinesArrived, NoNewerLinesCome
    <3> QED
      BY <3>2, <3>3 DEF LinesArrived
  <2> QED
    BY <1>1, <2>2, <2>3, <2>4, <2>5 DEF LinesCome
<1>8. LinesHaveAHome'
  <2>1. a.content \in ListsOfLines
    BY <1>2 DEF ListsOfLines
  <2>2. ListsOfLines' \subseteq ListsOfLines \cup {NoRows}
    <3> SUFFICES ASSUME NEW f \in ListsOfLines' PROVE f \in ListsOfLines
      OBVIOUS
    <3>1. CASE f \in {store.lines, a.content, wanted}
      BY <2>1, <3>1 DEF ListsOfLines
    <3>2. CASE \E t \in Table : f = shown'[t]
      BY <1>4, <2>1, <3>2 DEF ListsOfLines
    <3>3. CASE \E x \in answers' : x.msg.op = "getLines" /\ f = x.content
      BY <1>2, <3>3 DEF ListsOfLines
    <3> QED
      BY <1>2, <3>1, <3>2, <3>3 DEF ListsOfLines
  <2> QED
    BY <1>1, <1>2, <2>2, NoNewRows
<1>9. EditsAreKept'
  BY <1>1, <1>2, EditsAreStillKept
<1> QED
  BY <1>5, <1>6, <1>7, <1>8, <1>9 DEF OrderDeskInv

\* What is sent when a change is confirmed: nothing but requests for the orders,
\* and last one for the lines of the order watched.
LEMMA ConfirmedIsFollowed ==
  ASSUME TypeOK, NEW a \in answers, a.msg.op \in Change, a.done, Send(Refresh(a.msg.op))
  PROVE  /\ requests \subseteq requests'
         /\ sent' \in Nat /\ sent <= sent'
         /\ \A r \in requests' \ requests :
              /\ r.msg = GetOrders \/ (r.msg = GetLines(last) /\ last # None)
              /\ r.n \in 1 .. sent'
         /\ last # None =>
              \E r \in requests' :
                /\ r.msg = GetLines(last) /\ r.n = sent' /\ sent < sent'
                /\ \A x \in requests' \ {r} : x.msg.op = "getLines" => x \in requests
<1> DEFINE op == a.msg.op
           messages == Refresh(op)
           N == Len(messages)
<1>1. ~Quiet
  BY DEF Quiet
<1>2. /\ requests' = requests \cup {[msg |-> messages[i], n |-> sent + i] : i \in DOMAIN messages}
      /\ sent' = sent + N
  BY <1>1 DEF Send
<1>3. /\ messages \in Seq({GetOrders, GetLines(last)})
      /\ \A i \in 1 .. (N - 1) : messages[i] = GetOrders
      /\ last = None => \A i \in 1 .. N : messages[i] = GetOrders
      /\ last # None => N > 0 /\ messages[N] = GetLines(last)
  BY RefreshAsks
<1> HIDE DEF messages
<1>4. DOMAIN messages = 1 .. N /\ N \in Nat
  BY <1>3
<1> HIDE DEF N
<1>5. sent \in Nat
  BY DEF TypeOK
<1>6. ASSUME NEW i \in 1 .. N
      PROVE  /\ messages[i] = GetOrders \/ (messages[i] = GetLines(last) /\ last # None)
             /\ sent + i \in 1 .. sent'
             /\ i # N => messages[i] = GetOrders
  <2>1. messages[i] \in {GetOrders, GetLines(last)}
    BY <1>3, <1>4
  <2>2. i # N => i \in 1 .. (N - 1)
    BY <1>4
  <2>3. sent + i \in 1 .. sent'
    BY <1>2, <1>4, <1>5
  <2> QED
    BY <1>3, <2>1, <2>2, <2>3
<1>7. ASSUME NEW r \in requests' \ requests
      PROVE  /\ r.msg = GetOrders \/ (r.msg = GetLines(last) /\ last # None)
             /\ r.n \in 1 .. sent'
  <2>1. PICK i \in 1 .. N : r = [msg |-> messages[i], n |-> sent + i]
    BY <1>2, <1>4
  <2> QED
    BY <1>6, <2>1
<1>8. ASSUME last # None
      PROVE  \E r \in requests' :
               /\ r.msg = GetLines(last) /\ r.n = sent' /\ sent < sent'
               /\ \A x \in requests' \ {r} : x.msg.op = "getLines" => x \in requests
  <2> DEFINE r == [msg |-> messages[N], n |-> sent + N]
  <2>1. N \in 1 .. N
    BY <1>3, <1>4, <1>8
  <2>2. r \in requests'
    BY <1>2, <1>4, <2>1
  <2>3. r.msg = GetLines(last) /\ r.n = sent' /\ sent < sent'
    BY <1>2, <1>3, <1>4, <1>5, <1>8
  <2>4. ASSUME NEW x \in requests' \ {r}, x.msg.op = "getLines"
        PROVE  x \in requests
    <3> SUFFICES ASSUME x \notin requests PROVE FALSE
      OBVIOUS
    <3>1. PICK i \in 1 .. N : x = [msg |-> messages[i], n |-> sent + i]
      BY <1>2, <1>4
    <3>2. i # N
      BY <2>4, <3>1
    <3>3. x.msg = GetOrders
      BY <1>6, <3>1, <3>2
    <3> QED
      BY <2>4, <3>3 DEF GetOrders, Message
  <2> QED
    BY <2>2, <2>3, <2>4
<1> QED
  BY <1>2, <1>4, <1>5, <1>7, <1>8

\* A change is confirmed and the lines are asked for again, or it is refused and
\* nothing is sent.
LEMMA DeliverChangeKeeps ==
  ASSUME OrderDeskInv, NEW a, DeliverChange(a)
  PROVE  OrderDeskInv'
<1> USE DEF desk, ghost
<1>1. TypeOK /\ OneOrderIsWatched /\ LinesCome /\ LinesHaveAHome /\ EditsAreKept
  BY DEF OrderDeskInv
<1>2. /\ a \in answers /\ a.msg.op \notin {"getOrders", "getLines"} /\ answers' = answers \ {a}
      /\ Send(IF a.done THEN Refresh(a.msg.op) ELSE <<>>)
      /\ UNCHANGED <<kind, store, desk, exported, seen, behind, ghost, acts, losses>>
  BY DEF DeliverChange
<1>3. a.msg.op \in Change /\ a.done \in BOOLEAN
  BY <1>1, <1>2 DEF TypeOK, IsAnswer, IsMessage
<1>4. CASE a.done
  <2>1. /\ requests \subseteq requests'
        /\ sent' \in Nat /\ sent <= sent'
        /\ \A r \in requests' \ requests :
             /\ r.msg = GetOrders \/ (r.msg = GetLines(last) /\ last # None)
             /\ r.n \in 1 .. sent'
        /\ last # None =>
             \E r \in requests' :
               /\ r.msg = GetLines(last) /\ r.n = sent' /\ sent < sent'
               /\ \A x \in requests' \ {r} : x.msg.op = "getLines" => x \in requests
    BY <1>1, <1>2, <1>3, <1>4, ConfirmedIsFollowed
  <2>2. /\ IsMessage(GetOrders) /\ GetOrders.op = "getOrders"
        /\ GetLines(last).op = "getLines" /\ GetLines(last).order = last
        /\ last # None => IsMessage(GetLines(last))
    BY <1>1 DEF IsMessage, GetOrders, GetLines, Message, TypeOK
  <2>3. sent \in Nat /\ seen \in 0 .. sent
        /\ (\A r \in requests : r.n \in 1 .. sent) /\ \A x \in answers : x.n \in 1 .. sent
    BY <1>1 DEF TypeOK
  <2>4. TypeOK'
    <3>1. \A r \in requests' : IsMessage(r.msg) /\ r.n \in 1 .. sent'
      <4> SUFFICES ASSUME NEW r \in requests' PROVE IsMessage(r.msg) /\ r.n \in 1 .. sent'
        OBVIOUS
      <4>1. CASE r \in requests
        BY <1>1, <2>1, <2>3, <4>1 DEF TypeOK
      <4>2. CASE r \notin requests
        BY <2>1, <2>2, <4>2
      <4> QED
        BY <4>1, <4>2
    <3>2. \A x \in answers' : IsAnswer(x) /\ x.n \in 1 .. sent'
      BY <1>1, <1>2, <2>1, <2>3 DEF TypeOK
    <3>3. seen' \in 0 .. sent'
      BY <1>2, <2>1, <2>3
    <3> QED
      BY <1>1, <1>2, <2>1, <3>1, <3>2, <3>3 DEF TypeOK, Listed
  <2>5. LinesCome'
    <3> SUFFICES ASSUME context # None PROVE LinesAreAskedFor'
      BY <1>2 DEF LinesCome
    <3>1. last # None
      BY <1>1 DEF OneOrderIsWatched
    <3>2. PICK r \in requests' :
            /\ r.msg = GetLines(last) /\ r.n = sent' /\ sent < sent'
            /\ \A x \in requests' \ {r} : x.msg.op = "getLines" => x \in requests
      BY <2>1, <3>1
    <3>3. Before(requests' \ {r}, r.n) /\ Before(answers', r.n)
      BY <1>2, <2>1, <2>3, <3>2 DEF Before
    <3>4. seen' < r.n
      BY <1>2, <2>1, <2>3, <3>2
    <3> QED
      BY <1>2, <2>2, <3>2, <3>3, <3>4 DEF LinesAreAskedFor
  <2>6. \A r \in requests' : r.msg.op = "editLine" => r \in requests
    BY <2>1, <2>2
  <2>7. LinesHaveAHome'
    <3>1. ListsOfLines' \subseteq ListsOfLines \cup {NoRows}
      BY <1>2 DEF ListsOfLines
    <3> QED
      BY <1>1, <1>2, <2>6, <3>1, NoNewRows
  <2>8. EditsAreKept'
    BY <1>1, <1>2, <2>1, <2>6, EditsAreStillKept
  <2> QED
    BY <1>1, <1>2, <2>4, <2>5, <2>7, <2>8 DEF OrderDeskInv, OneOrderIsWatched
<1>5. CASE ~a.done
  <2>1. requests' = requests /\ sent' = sent
    <3> DEFINE none == <<>>
    <3>1. DOMAIN none = {} /\ Len(none) = 0
      OBVIOUS
    <3>2. ~Quiet /\ Send(none)
      BY <1>2, <1>5 DEF Quiet
    <3> HIDE DEF none
    <3> QED
      BY <1>1, <3>1, <3>2 DEF Send, TypeOK
  <2>2. TypeOK'
    BY <1>1, <1>2, <2>1 DEF TypeOK, Listed
  <2>3. LinesCome'
    <3> SUFFICES ASSUME context # None
                 PROVE  \/ AChangeIsConfirmed' \/ LinesAreAskedFor' \/ LinesAreOnTheirWay'
                        \/ LinesArrived'
      BY <1>2 DEF LinesCome
    <3>1. LinesOf(last)' = LinesOf(last)
      BY <1>2 DEF LinesOf
    <3>2. CASE AChangeIsConfirmed
      BY <1>2, <1>5, <3>2 DEF AChangeIsConfirmed
    <3>3. CASE LinesAreAskedFor
      <4>1. PICK x \in requests :
              /\ x.msg.op = "getLines" /\ x.msg.order = last
              /\ seen < x.n /\ Before(requests \ {x}, x.n) /\ Before(answers, x.n)
        BY <3>3 DEF LinesAreAskedFor
      <4>2. Before(answers', x.n)
        BY <1>2, <4>1 DEF Before
      <4> QED
        BY <1>2, <2>1, <4>1, <4>2 DEF LinesAreAskedFor
    <3>4. CASE LinesAreOnTheirWay
      <4>1. PICK x \in answers :
              /\ x.msg.op = "getLines" /\ x.msg.order = last
              /\ x.content = LinesOf(last)
              /\ seen < x.n /\ Before(requests, x.n) /\ Before(answers \ {x}, x.n)
        BY <3>4 DEF LinesAreOnTheirWay
      <4>2. x \in answers' /\ Before(answers' \ {x}, x.n)
        BY <1>2, <4>1 DEF Before
      <4> QED
        BY <1>2, <2>1, <3>1, <4>1, <4>2 DEF LinesAreOnTheirWay
    <3>5. CASE LinesArrived
      <4>1. NoNewerLinesCome'
        BY <1>2, <2>1, <3>5 DEF LinesArrived, NoNewerLinesCome
      <4>2. LinesAreShown => LinesAreShown'
        BY <1>2, <2>1, ShownIsStillShown
      <4> QED
        BY <1>2, <3>5, <4>1, <4>2 DEF LinesArrived
    <3> QED
      BY <1>1, <3>2, <3>3, <3>4, <3>5 DEF LinesCome
  <2>4. LinesHaveAHome'
    <3>1. ListsOfLines' \subseteq ListsOfLines \cup {NoRows}
      BY <1>2 DEF ListsOfLines
    <3> QED
      BY <1>1, <1>2, <2>1, <3>1, NoNewRows
  <2>5. EditsAreKept'
    BY <1>1, <1>2, <2>1, EditsAreStillKept
  <2> QED
    BY <1>1, <1>2, <2>2, <2>3, <2>4, <2>5 DEF OrderDeskInv, OneOrderIsWatched
<1> QED
  BY <1>3, <1>4, <1>5

-----------------------------------------------------------------------------
(* The specification.                                                       *)

\* A request gets lost. If it is the newest list of lines, the lines on the screen
\* are behind from now on.
LEMMA LoseRequestKeeps ==
  ASSUME OrderDeskInv, NEW r, LoseRequest(r)
  PROVE  OrderDeskInv'
<1> USE DEF desk
<1>1. TypeOK /\ OneOrderIsWatched /\ LinesCome /\ LinesHaveAHome /\ EditsAreKept
  BY DEF OrderDeskInv
<1>2. /\ losses < MaxLost /\ losses' = losses + 1
      /\ r \in requests /\ requests' = requests \ {r} /\ ListIsMissed(r)
      /\ undone' = IF r.msg.op = "editLine" THEN undone \cup {r.msg.line} ELSE undone
      /\ UNCHANGED <<kind, store, desk, exported, answers, sent, wanted, acts>>
  BY DEF LoseRequest, Loss
<1>3. /\ r.n \in 1 .. sent /\ sent \in Nat /\ seen \in 0 .. sent /\ IsMessage(r.msg)
      /\ \A x \in requests \cup answers : x.n \in Int
  BY <1>1, <1>2 DEF TypeOK
<1>4. /\ r.msg.op = "getLines" /\ r.n > seen => seen' = r.n /\ behind' = TRUE
      /\ ~(r.msg.op = "getLines" /\ r.n > seen) => UNCHANGED <<seen, behind>>
  BY <1>2 DEF ListIsMissed
<1>5. TypeOK'
  <2>1. seen' \in 0 .. sent /\ behind' \in BOOLEAN
    <3>1. behind \in BOOLEAN
      BY <1>1 DEF TypeOK
    <3>2. CASE r.msg.op = "getLines" /\ r.n > seen
      <4>1. seen' = r.n /\ behind' = TRUE
        BY <1>4, <3>2
      <4>2. behind' \in BOOLEAN
        BY <4>1, Zenon
      <4> QED
        BY <1>3, <4>1, <4>2
    <3>3. CASE ~(r.msg.op = "getLines" /\ r.n > seen)
      BY <1>3, <1>4, <3>1, <3>3
    <3> QED
      BY <3>2, <3>3
  <2>2. losses' \in 0 .. MaxLost
    BY <1>1, <1>2, OrderDeskAssumption DEF TypeOK
  <2>3. undone' \subseteq Line
    BY <1>1, <1>2, <1>3 DEF TypeOK, IsMessage
  <2> QED
    BY <1>1, <1>2, <2>1, <2>2, <2>3 DEF TypeOK, Listed
<1>6. OneOrderIsWatched'
  BY <1>1, <1>2 DEF OneOrderIsWatched
<1>7. LinesCome'
  <2> SUFFICES ASSUME context # None
               PROVE  \/ AChangeIsConfirmed' \/ LinesAreAskedFor' \/ LinesAreOnTheirWay'
                      \/ LinesArrived'
    BY <1>2 DEF LinesCome
  <2>1. LinesOf(last)' = LinesOf(last)
    BY <1>2 DEF LinesOf
  <2>2. CASE AChangeIsConfirmed
    BY <1>2, <2>2 DEF AChangeIsConfirmed
  <2>3. CASE LinesAreAskedFor
    <3>1. PICK x \in requests :
            /\ x.msg.op = "getLines" /\ x.msg.order = last
            /\ seen < x.n /\ Before(requests \ {x}, x.n) /\ Before(answers, x.n)
      BY <2>3 DEF LinesAreAskedFor
    <3>2. CASE x = r
      <4>1. seen' = r.n /\ behind'
        BY <1>4, <3>1, <3>2
      <4>2. \A y \in requests' \cup answers' : y.msg.op = "getLines" => y.n < r.n
        BY <1>2, <3>1, <3>2 DEF Before
      <4>3. NoNewerLinesCome'
        BY <1>2, <1>3, <4>1, <4>2 DEF NoNewerLinesCome
      <4> QED
        BY <4>1, <4>3 DEF LinesArrived
    <3>3. CASE x # r
      <4>1. r.msg.op = "getLines" => r.n < x.n
        BY <1>2, <3>1, <3>3 DEF Before
      <4>2. seen' < x.n
        BY <1>4, <3>1, <4>1
      <4>3. x \in requests' /\ Before(requests' \ {x}, x.n) /\ Before(answers', x.n)
        BY <1>2, <3>1, <3>3 DEF Before
      <4> QED
        BY <1>2, <3>1, <4>2, <4>3 DEF LinesAreAskedFor
    <3> QED
      BY <3>2, <3>3
  <2>4. CASE LinesAreOnTheirWay
    <3>1. PICK a \in answers :
            /\ a.msg.op = "getLines" /\ a.msg.order = last
            /\ a.content = LinesOf(last)
            /\ seen < a.n /\ Before(requests, a.n) /\ Before(answers \ {a}, a.n)
      BY <2>4 DEF LinesAreOnTheirWay
    <3>2. r.msg.op = "getLines" => r.n < a.n
      BY <1>2, <3>1 DEF Before
    <3>3. seen' < a.n
      BY <1>4, <3>1, <3>2
    <3>4. Before(requests', a.n)
      BY <1>2, <3>1 DEF Before
    <3> QED
      BY <1>2, <2>1, <3>1, <3>3, <3>4 DEF LinesAreOnTheirWay
  <2>5. CASE LinesArrived
    <3>1. r.msg.op = "getLines" => r.n <= seen
      BY <1>2, <2>5 DEF LinesArrived, NoNewerLinesCome
    <3>2. UNCHANGED <<seen, behind>>
      BY <1>3, <1>4, <3>1
    <3>3. NoNewerLinesCome'
      BY <1>2, <2>5, <3>2 DEF LinesArrived, NoNewerLinesCome
    <3>4. LinesAreShown => LinesAreShown'
      <4>1. \A l : l \notin undone' => BeingEdited(l)' = BeingEdited(l)
        BY <1>2 DEF BeingEdited
      <4>2. undone \subseteq undone'
        BY <1>2
      <4> QED
        BY <1>2, <2>1, <4>1, <4>2 DEF LinesAreShown
    <3> QED
      BY <1>2, <2>5, <3>2, <3>3, <3>4 DEF LinesArrived
  <2> QED
    BY <1>1, <2>2, <2>3, <2>4, <2>5 DEF LinesCome
<1>8. LinesHaveAHome'
  <2>1. ListsOfLines' = ListsOfLines
    BY <1>2 DEF ListsOfLines
  <2> QED
    BY <1>1, <1>2, <2>1, NoNewRows
<1>9. EditsAreKept'
  <2>1. \A l : l \notin undone' => BeingEdited(l)' = BeingEdited(l)
    BY <1>2 DEF BeingEdited
  <2>2. undone \subseteq undone'
    BY <1>2
  <2> QED
    BY <1>1, <1>2, <2>1, <2>2 DEF EditsAreKept
<1> QED
  BY <1>5, <1>6, <1>7, <1>8, <1>9 DEF OrderDeskInv

\* An answer gets lost: a list of lines as its request would, and after the
\* confirmation of a change the lines are behind whatever else is on its way.
LEMMA LoseAnswerKeeps ==
  ASSUME OrderDeskInv, NEW a, LoseAnswer(a)
  PROVE  OrderDeskInv'
<1> USE DEF desk, ghost
<1>1. TypeOK /\ OneOrderIsWatched /\ LinesCome /\ LinesHaveAHome /\ EditsAreKept
  BY DEF OrderDeskInv
<1> DEFINE confirmed == a.msg.op \notin {"getOrders", "getLines"} /\ a.done
<1>2. /\ losses < MaxLost /\ losses' = losses + 1
      /\ a \in answers /\ answers' = answers \ {a}
      /\ confirmed => seen' = sent /\ behind' = TRUE
      /\ ~confirmed => ListIsMissed(a)
      /\ UNCHANGED <<kind, store, desk, exported, requests, sent, ghost, acts>>
  BY DEF LoseAnswer, Loss
<1>3. /\ a.n \in 1 .. sent /\ sent \in Nat /\ seen \in 0 .. sent /\ IsAnswer(a)
      /\ \A x \in requests \cup answers : x.n \in 1 .. sent
  BY <1>1, <1>2 DEF TypeOK
<1>4. ~confirmed =>
        /\ a.msg.op = "getLines" /\ a.n > seen => seen' = a.n /\ behind' = TRUE
        /\ ~(a.msg.op = "getLines" /\ a.n > seen) => UNCHANGED <<seen, behind>>
  BY <1>2 DEF ListIsMissed
<1>5. TypeOK'
  <2>1. seen' \in 0 .. sent /\ behind' \in BOOLEAN
    <3>1. behind \in BOOLEAN
      BY <1>1 DEF TypeOK
    <3> HIDE DEF confirmed
    <3>2. CASE confirmed
      BY <1>2, <1>3, <3>2
    <3>3. CASE ~confirmed /\ a.msg.op = "getLines" /\ a.n > seen
      <4>1. seen' = a.n /\ behind' = TRUE
        BY <1>4, <3>3
      <4>2. behind' \in BOOLEAN
        BY <4>1, Zenon
      <4> QED
        BY <1>3, <4>1, <4>2
    <3>4. CASE ~confirmed /\ ~(a.msg.op = "getLines" /\ a.n > seen)
      BY <1>3, <1>4, <3>1, <3>4
    <3> QED
      BY <3>2, <3>3, <3>4
  <2>2. losses' \in 0 .. MaxLost
    BY <1>1, <1>2, OrderDeskAssumption DEF TypeOK
  <2> QED
    BY <1>1, <1>2, <2>1, <2>2 DEF TypeOK, Listed
<1>6. OneOrderIsWatched'
  BY <1>1, <1>2 DEF OneOrderIsWatched
<1>7. LinesCome'
  <2> SUFFICES ASSUME context # None
               PROVE  \/ AChangeIsConfirmed' \/ LinesAreAskedFor' \/ LinesAreOnTheirWay'
                      \/ LinesArrived'
    BY <1>2 DEF LinesCome
  <2>1. LinesOf(last)' = LinesOf(last)
    BY <1>2 DEF LinesOf
  <2>2. CASE confirmed
    <3>1. NoNewerLinesCome'
      BY <1>2, <1>3, <2>2 DEF NoNewerLinesCome
    <3> QED
      BY <1>2, <2>2, <3>1 DEF LinesArrived
  <2>3. CASE ~confirmed /\ AChangeIsConfirmed
    <3>1. PICK x \in answers : x.msg.op \in Change /\ x.done
      BY <2>3 DEF AChangeIsConfirmed
    <3>2. x # a
      BY <2>3, <3>1 DEF Change
    <3> QED
      BY <1>2, <3>1, <3>2 DEF AChangeIsConfirmed
  <2>4. CASE ~confirmed /\ LinesAreAskedFor
    <3>1. PICK x \in requests :
            /\ x.msg.op = "getLines" /\ x.msg.order = last
            /\ seen < x.n /\ Before(requests \ {x}, x.n) /\ Before(answers, x.n)
      BY <2>4 DEF LinesAreAskedFor
    <3>2. a.msg.op = "getLines" => a.n < x.n
      BY <1>2, <3>1 DEF Before
    <3>3. seen' < x.n
      BY <1>4, <2>4, <3>1, <3>2
    <3>4. Before(answers', x.n)
      BY <1>2, <3>1 DEF Before
    <3> QED
      BY <1>2, <3>1, <3>3, <3>4 DEF LinesAreAskedFor
  <2>5. CASE ~confirmed /\ LinesAreOnTheirWay
    <3>1. PICK x \in answers :
            /\ x.msg.op = "getLines" /\ x.msg.order = last
            /\ x.content = LinesOf(last)
            /\ seen < x.n /\ Before(requests, x.n) /\ Before(answers \ {x}, x.n)
      BY <2>5 DEF LinesAreOnTheirWay
    <3>2. CASE x = a
      <4>1. seen' = a.n /\ behind'
        BY <1>4, <2>5, <3>1, <3>2
      <4>2. \A y \in requests' \cup answers' : y.msg.op = "getLines" => y.n < a.n
        BY <1>2, <3>1, <3>2 DEF Before
      <4>3. NoNewerLinesCome'
        BY <1>2, <1>3, <4>1, <4>2 DEF NoNewerLinesCome
      <4> QED
        BY <4>1, <4>3 DEF LinesArrived
    <3>3. CASE x # a
      <4>1. a.msg.op = "getLines" => a.n < x.n
        BY <1>2, <3>1, <3>3 DEF Before
      <4>2. seen' < x.n
        BY <1>4, <2>5, <3>1, <4>1
      <4>3. x \in answers' /\ Before(answers' \ {x}, x.n) /\ Before(requests', x.n)
        BY <1>2, <3>1, <3>3 DEF Before
      <4> QED
        BY <1>2, <2>1, <3>1, <4>2, <4>3 DEF LinesAreOnTheirWay
    <3> QED
      BY <3>2, <3>3
  <2>6. CASE ~confirmed /\ LinesArrived
    <3>1. a.msg.op = "getLines" => a.n <= seen
      BY <1>2, <2>6 DEF LinesArrived, NoNewerLinesCome
    <3>2. UNCHANGED <<seen, behind>>
      BY <1>3, <1>4, <2>6, <3>1
    <3>3. NoNewerLinesCome'
      BY <1>2, <2>6, <3>2 DEF LinesArrived, NoNewerLinesCome
    <3>4. LinesAreShown => LinesAreShown'
      BY <1>2, ShownIsStillShown
    <3> QED
      BY <1>2, <2>6, <3>2, <3>3, <3>4 DEF LinesArrived
  <2> QED
    BY <1>1, <2>2, <2>3, <2>4, <2>5, <2>6 DEF LinesCome
<1>8. LinesHaveAHome'
  <2>1. ListsOfLines' \subseteq ListsOfLines
    BY <1>2 DEF ListsOfLines
  <2> QED
    BY <1>1, <1>2, <2>1, NoNewRows
<1>9. EditsAreKept'
  BY <1>1, <1>2, EditsAreStillKept
<1> QED
  BY <1>5, <1>6, <1>7, <1>8, <1>9 DEF OrderDeskInv

LEMMA NextKeepsOrderDeskInv ==
  ASSUME OrderDeskInv, [Next]_vars
  PROVE  OrderDeskInv'
<1>1. CASE User
  <2>1. ASSUME NEW t \in Table, NEW o \in Order, Select(t, o) PROVE OrderDeskInv'
    BY <2>1, SelectKeeps
  <2>2. ASSUME NEW t \in Table, Deselect(t) PROVE OrderDeskInv'
    BY <2>2, DeselectKeeps
  <2>3. ASSUME NEW t \in Table, NEW os \in SUBSET Order, Filter(t, os) PROVE OrderDeskInv'
    BY <2>3, FilterKeeps
  <2>4. CASE ReferenceDataChanged
    BY <2>4, ReferenceDataChangedKeeps
  <2>5. ASSUME NEW o \in Order, EditOrder(o) PROVE OrderDeskInv'
    BY <2>5, EditOrderKeeps
  <2>6. CASE AddOrder
    BY <2>6, AddOrderKeeps
  <2>7. CASE DeleteOrder
    BY <2>7, DeleteOrderKeeps
  <2>8. CASE AddRecord
    BY <2>8, AddRecordKeeps
  <2>9. CASE ReceiveOrder
    BY <2>9, ReceiveOrderKeeps
  <2>10. CASE ExportInvoice
    BY <2>10, ExportInvoiceKeeps
  <2>11. ASSUME NEW l \in Line, DeleteRecord(l) PROVE OrderDeskInv'
    BY <2>11, DeleteRecordKeeps
  <2>12. ASSUME NEW l \in Line, NEW c \in Cell, NEW v \in Value, EditRecord(l, c, v)
         PROVE  OrderDeskInv'
    BY <2>12, EditRecordKeeps
  <2> QED
    BY <1>1, <2>1, <2>2, <2>3, <2>4, <2>5, <2>6, <2>7, <2>8, <2>9, <2>10, <2>11, <2>12 DEF User
<1>2. CASE Network
  <2>1. ASSUME NEW r \in requests, Serve(r) PROVE OrderDeskInv'
    BY <2>1, ServeListKeeps, ServeChangeKeeps
  <2>2. ASSUME NEW a \in answers, DeliverOrders(a) PROVE OrderDeskInv'
    BY <2>2, DeliverOrdersKeeps
  <2>3. ASSUME NEW a \in answers, DeliverLines(a) PROVE OrderDeskInv'
    BY <2>3, DeliverLinesKeeps
  <2>4. ASSUME NEW a \in answers, DeliverChange(a) PROVE OrderDeskInv'
    BY <2>4, DeliverChangeKeeps
  <2>5. ASSUME NEW r \in requests, LoseRequest(r) PROVE OrderDeskInv'
    BY <2>5, LoseRequestKeeps
  <2>6. ASSUME NEW a \in answers, LoseAnswer(a) PROVE OrderDeskInv'
    BY <2>6, LoseAnswerKeeps
  <2> QED
    BY <1>2, <2>1, <2>2, <2>3, <2>4, <2>5, <2>6 DEF Network
<1>3. CASE UNCHANGED vars
  <2> USE <1>3 DEF vars, desk, net, ghost
  <2>1. TypeOK /\ OneOrderIsWatched /\ LinesCome /\ LinesHaveAHome /\ EditsAreKept
    BY DEF OrderDeskInv
  <2>2. TypeOK'
    BY <2>1 DEF TypeOK, Listed
  <2>3. LinesCome'
    <3>1. LinesAreShown => LinesAreShown'
      BY ShownIsStillShown
    <3> QED
      BY <2>1, <3>1, ActsKeepLinesComing
  <2>4. LinesHaveAHome'
    <3>1. ListsOfLines' = ListsOfLines
      BY DEF ListsOfLines
    <3> QED
      BY <2>1, <3>1, NoNewRows
  <2>5. EditsAreKept'
    BY <2>1, EditsAreStillKept
  <2> QED
    BY <2>1, <2>2, <2>3, <2>4, <2>5 DEF OrderDeskInv, OneOrderIsWatched
<1> QED
  BY <1>1, <1>2, <1>3 DEF Next

LEMMA OrderDeskInvHolds == Spec => []OrderDeskInv
<1>1. Init => OrderDeskInv
  BY InitEstablishesOrderDeskInv
<1>2. OrderDeskInv /\ [Next]_vars => OrderDeskInv'
  BY NextKeepsOrderDeskInv
<1> QED
  BY <1>1, <1>2, PTL DEF Spec

\* What a table, a message and an answer of SalesView and PurchaseView hold: rows
\* of known orders and lines, and a selection that is listed in its table.
THEOREM OrderDeskTypeCorrect == Spec => []TypeOK
<1>1. OrderDeskInv => TypeOK
  BY DEF OrderDeskInv
<1> QED
  BY <1>1, OrderDeskInvHolds, PTL

\* When nothing is on its way the lines came, and those shown are those of the
\* order watched.
LEMMA LinesAreThereAtRest ==
  ASSUME OrderDeskInv, Quiet, ~behind, context # None, selected[context] # None
  PROVE  LinesAreShown /\ selected[context] = last /\ context \in Table /\ undone \subseteq Line
         /\ \A l : BeingEdited(l) = {}
<1>1. LinesArrived
  BY DEF OrderDeskInv, LinesCome, AChangeIsConfirmed, LinesAreAskedFor, LinesAreOnTheirWay, Quiet
<1>2. LinesAreShown
  BY <1>1 DEF LinesArrived
<1>3. \A l : BeingEdited(l) = {}
  BY DEF BeingEdited, Quiet
<1> QED
  BY <1>2, <1>3 DEF OrderDeskInv, OneOrderIsWatched, TypeOK

\* The table of lines that SalesView::onOrderRecordsChanged filled last shows what
\* the server has of the order selected beside it, once nothing is on its way; not
\* if the newest list failed or overtook another, or a confirmation failed, which
\* onNetworkReply leaves to the log.
THEOREM TheTableShowsItsOrder == Spec => []LinesAreOfTheSelection
<1>1. OrderDeskInv => LinesAreOfTheSelection
  <2> SUFFICES ASSUME OrderDeskInv, Quiet, ~behind, context # None, selected[context] # None,
                      NEW l \in DOMAIN shown[context] \cup DOMAIN LinesOf(selected[context])
               PROVE  /\ l \in DOMAIN shown[context] /\ l \in DOMAIN LinesOf(selected[context])
                      /\ l \in undone \/ shown[context][l] = store.lines[l]
    BY DEF LinesAreOfTheSelection
  <2>1. LinesAreShown /\ selected[context] = last /\ BeingEdited(l) = {}
    BY LinesAreThereAtRest
  <2> QED
    BY <2>1 DEF LinesAreShown
<1> QED
  BY <1>1, OrderDeskInvHolds, PTL

\* The invoice preview is the selected invoice with its own lines once nothing is
\* on its way, although updateInvoicePreview never asks whose lines it is given; not
\* after a list that failed or overtook another, or a confirmation that failed.
THEOREM ThePreviewIsTheSelection == Spec => []InvoiceIsOfItsOrder
<1>1. OrderDeskInv => InvoiceIsOfItsOrder
  <2> SUFFICES ASSUME OrderDeskInv, Quiet, ~behind, kind = "sales", context = "documents",
                      selected[context] # None
               PROVE  preview = [order |-> selected[context], lines |-> LinesOf(selected[context])]
    BY DEF InvoiceIsOfItsOrder
  <2>1. LinesAreShown /\ selected[context] = last
    BY LinesAreThereAtRest DEF None
  <2> QED
    BY <2>1 DEF LinesAreShown
<1> QED
  BY <1>1, OrderDeskInvHolds, PTL

\* An accepted edit of a cell is what the server has in the end, unless it is one
\* of those that the guards of PurchaseView, the order of requests or a request
\* that failed undo.
THEOREM EditsReachTheServer == Spec => []EditsSurvive
<1>1. OrderDeskInv => EditsSurvive
  <2> SUFFICES ASSUME OrderDeskInv, Quiet, NEW l \in DOMAIN wanted \cap DOMAIN store.lines
               PROVE  l \in undone \/ wanted[l] = store.lines[l]
    BY DEF EditsSurvive
  <2>1. BeingEdited(l) = {}
    BY DEF BeingEdited, Quiet
  <2> QED
    BY <2>1 DEF OrderDeskInv, EditsAreKept
<1> QED
  BY <1>1, OrderDeskInvHolds, PTL

\* What a change that is done makes of the lines leaves each of its order: a new
\* one has an id of its own, and an edit sends the order the row is of.
LEMMA ChangesKeepTheOrder ==
  ASSUME OrderDeskInv, NEW r \in requests, r.msg.op \in Change, Done(r.msg),
         NEW l \in DOMAIN store.lines \cap DOMAIN Effect(r.msg).lines
  PROVE  Effect(r.msg).lines[l].order = store.lines[l].order
<1> DEFINE s == Effect(r.msg)
<1>1. TypeOK /\ LinesHaveAHome
  BY DEF OrderDeskInv
<1>2. IsMessage(r.msg)
  BY <1>1 DEF TypeOK
<1>3. IsEffect(r.msg, s)
  BY <1>1, <1>2, EffectsOfChanges
<1>4. <<l, store.lines[l].order>> \in Homes
  BY DEF Homes, ListsOfLines
<1>5. l \in store.used
  BY <1>1, <1>4 DEF LinesHaveAHome
<1> HIDE DEF s
<1>6. CASE r.msg.op = "newLine"
  <2>1. PICK f \in s.used \ store.used : IsWith(s.lines, store.lines, f, r.msg.row)
    BY <1>3, <1>6 DEF IsEffect
  <2> QED
    BY <1>5, <2>1 DEF IsWith, s
<1>7. CASE r.msg.op = "editLine"
  <2>1. IsWith(s.lines, store.lines, r.msg.line, r.msg.row)
    BY <1>3, <1>7 DEF IsEffect
  <2>2. <<r.msg.line, r.msg.row.order>> \in Homes
    BY <1>7 DEF Homes
  <2>3. l = r.msg.line => store.lines[l].order = r.msg.row.order
    BY <1>1, <1>4, <2>2 DEF LinesHaveAHome
  <2> QED
    BY <2>1, <2>3 DEF IsWith, s
<1>8. CASE r.msg.op \notin {"newLine", "editLine"}
  BY <1>3, <1>8 DEF IsEffect, s
<1> QED
  BY <1>6, <1>7, <1>8

\* persistOrderRecordRow sends the order a row was filled in with, so a line edited
\* under another selection stays a line of its own order.
THEOREM LinesStayAtHome == Spec => LinesKeepTheirOrder
<1>1. ASSUME OrderDeskInv, [Next]_vars,
             NEW l \in DOMAIN store.lines \cap DOMAIN store'.lines
      PROVE  store'.lines[l].order = store.lines[l].order
  <2>1. CASE store' = store
    BY <2>1
  <2>2. CASE \E r \in requests : Serve(r) /\ store' # store
    <3>1. PICK r \in requests : Serve(r) /\ store' # store
      BY <2>2
    <3>2. r.msg.op \in Change /\ Done(r.msg) /\ store' = Effect(r.msg)
      BY <1>1, <3>1 DEF Serve, OrderDeskInv, TypeOK, IsMessage
    <3> QED
      BY <1>1, <3>2, ChangesKeepTheOrder
  <2>3. store' = store \/ \E r \in requests : Serve(r)
    <3>1. CASE User
      <4>1. ASSUME NEW t \in Table, NEW o, Select(t, o) \/ Deselect(t) \/ Filter(t, o)
            PROVE  store' = store
        BY <4>1 DEF Select, Deselect, Filter
      <4>2. ASSUME NEW k, NEW c, NEW v, DeleteRecord(k) \/ EditRecord(k, c, v)
            PROVE  store' = store
        BY <4>2 DEF DeleteRecord, EditRecord
      <4>3. ASSUME NEW o, \/ EditOrder(o) \/ ReferenceDataChanged \/ AddOrder \/ DeleteOrder
                          \/ AddRecord \/ ReceiveOrder \/ ExportInvoice
            PROVE  store' = store
        BY <4>3 DEF EditOrder, ReferenceDataChanged, AddOrder, DeleteOrder, AddRecord,
                    ReceiveOrder, ExportInvoice
      <4> QED
        BY <3>1, <4>1, <4>2, <4>3 DEF User
    <3>2. CASE Network
      <4>1. ASSUME NEW x, \/ LoseRequest(x) \/ LoseAnswer(x) \/ DeliverOrders(x)
                          \/ DeliverLines(x) \/ DeliverChange(x)
            PROVE  store' = store
        BY <4>1 DEF LoseRequest, LoseAnswer, DeliverOrders, DeliverLines, DeliverChange
      <4> QED
        BY <3>2, <4>1 DEF Network
    <3>3. CASE UNCHANGED vars
      BY <3>3 DEF vars
    <3> QED
      BY <1>1, <3>1, <3>2, <3>3 DEF Next
  <2> QED
    BY <1>1, <2>1, <2>2, <2>3
<1>2. OrderDeskInv /\ [Next]_vars =>
        [\A l \in DOMAIN store.lines \cap DOMAIN store'.lines :
           store'.lines[l].order = store.lines[l].order]_vars
  BY <1>1
<1> QED
  BY <1>2, OrderDeskInvHolds, PTL DEF Spec, LinesKeepTheirOrder
=============================================================================
