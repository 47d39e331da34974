--------------------------- MODULE RequestServer ---------------------------
(***************************************************************************)
(* The way of a request through the server: HttpServer and HttpTransaction *)
(* accept it, read it and send the answer; BusinessLogic::executeTask lets *)
(* a module do it, writes the audit entry and calls back.  All of it runs  *)
(* on the one thread of the io_context, and a connection carries one       *)
(* request: do_close follows the answer.                                   *)
(*                                                                         *)
(* What a business module does is abstracted to the number of statements   *)
(* that commit one by one (a transaction counts as one, a login as none)   *)
(* and to the account the request removes, if any: entries of the Log      *)
(* table refer to accounts.  What the statements do, and a ROLLBACK that   *)
(* fails, are ErpCore's.                                                   *)
(***************************************************************************)
EXTENDS Naturals, Sequences, FiniteSets

CONSTANTS
  Connections,   \* the connections clients make, one request each
  Accounts,      \* ids of the rows of the User table at startup
  NoAccount,     \* no userId in the dataset: the entry's column is NULL
  MaxStatements, \* bound: statements of one request
  MaxFaults      \* bound: failing statements and crashes

ASSUME NoAccountAssumption == NoAccount \notin Accounts
ASSUME ServerBoundAssumption == MaxStatements \in Nat /\ MaxFaults \in Nat

VARIABLES
  link,     \* how far each connection has come
  request,  \* what it carries, once it is read
  ready,    \* connections whose read handler the io_context has queued
  thread,   \* the request executeTask is working on
  written,  \* how many of its statements are committed, by connection
  answer,   \* the answer do_response was given, by connection
  accounts, \* ids in the User table
  log,      \* Log table: the account an entry names, by the connection that
            \* made the entry
  faults

vars == <<link, request, ready, thread, written, answer, accounts, log, faults>>

-----------------------------------------------------------------------------
(* Requests.                                                                *)

Named == Accounts \cup {NoAccount}

\* A non-GET request to a module other than logs.  Deleting an account is one
\* statement.
Mutation ==
  {r \in [kind : {"mutation"}, statements : 0 .. MaxStatements, userId : Named, removes : Named] :
     r.removes # NoAccount => r.statements = 1}

LogRequest ==
  [kind : {"addLog"}, statements : {1}, userId : Named]
    \cup [kind : {"editLog"}, statements : {1}, userId : Named, entry : Connections]
    \cup [kind : {"deleteLog"}, statements : {1}, entry : Connections]

\* A path that is not /api/module/submodule, a module nobody registered, a GET.
OtherRequest == [kind : {"badPath", "unknownModule", "get"}, statements : {0}]

Request == Mutation \cup LogRequest \cup OtherRequest

NotRead == [kind |-> "notRead", statements |-> 0]

Idle == [at |-> "idle"]

-----------------------------------------------------------------------------
Init ==
  /\ link = [c \in Connections |-> "new"]
  /\ request = [c \in Connections |-> NotRead]
  /\ ready = <<>>
  /\ thread = Idle
  /\ written = [c \in Connections |-> 0]
  /\ answer = [c \in Connections |-> "none"]
  /\ accounts = Accounts
  /\ log = [c \in {} |-> NoAccount]
  /\ faults = 0

Fault == faults < MaxFaults /\ faults' = faults + 1

SameTables == UNCHANGED <<written, accounts, log>>

-----------------------------------------------------------------------------
(* Connections.                                                             *)

\* on_accept: a transaction object is made, starts its read, and the acceptor
\* waits for the next connection.
Accept(c) ==
  /\ thread = Idle
  /\ link[c] = "new"
  /\ link' = [link EXCEPT ![c] = "reading"]
  /\ UNCHANGED <<request, ready, thread, answer, faults>> /\ SameTables

\* The last byte of a request is there: async_read completes.  Nothing obliges
\* a client to send it, and nothing limits the wait.
Receive(c, r) ==
  /\ link[c] = "reading"
  /\ link' = [link EXCEPT ![c] = "queued"]
  /\ request' = [request EXCEPT ![c] = r]
  /\ ready' = Append(ready, c)
  /\ UNCHANGED <<thread, answer, faults>> /\ SameTables

\* The client goes away before its request is read or its answer written: the
\* handler only logs, and the last reference to the transaction goes with it.
HangUp(c) ==
  /\ link[c] \in {"reading", "sending"}
  /\ link' = [link EXCEPT ![c] = "closed"]
  /\ UNCHANGED <<request, ready, thread, answer, faults>> /\ SameTables

\* async_write completes, and do_close shuts the connection.
Deliver(c) ==
  /\ link[c] = "sending"
  /\ link' = [link EXCEPT ![c] = "answered"]
  /\ UNCHANGED <<request, ready, thread, answer, faults>> /\ SameTables

\* Mutant: the request that came last is taken first.
HandleNewest ==
  /\ thread = Idle
  /\ ready # <<>>
  /\ ready' = SubSeq(ready, 1, Len(ready) - 1)
  /\ LET c == ready[Len(ready)]
     IN  /\ link' = [link EXCEPT ![c] = "handled"]
         /\ thread' = [at |-> "module", conn |-> c, outcome |-> "ok"]
  /\ UNCHANGED <<request, answer, faults>> /\ SameTables

\* Mutant: a request for another path is logged and its transaction kept.
HandleKeepsBadPath ==
  /\ thread = Idle
  /\ ready # <<>>
  /\ ready' = Tail(ready)
  /\ LET c == Head(ready)
     IN  \/ /\ request[c].kind = "badPath"
            /\ UNCHANGED <<link, thread>>
         \/ /\ request[c].kind # "badPath"
            /\ link' = [link EXCEPT ![c] = "handled"]
            /\ thread' = [at |-> "module", conn |-> c, outcome |-> "ok"]
  /\ UNCHANGED <<request, answer, faults>> /\ SameTables

\* handle_request: a path that is not the API's is logged and the transaction
\* dropped; any other request goes to executeTask at once, where a module that
\* is not registered is an error.
HandleRequest ==
  /\ thread = Idle
  /\ ready # <<>>
  /\ ready' = Tail(ready)
  /\ LET c == Head(ready)
     IN  \/ /\ request[c].kind = "badPath"
            /\ link' = [link EXCEPT ![c] = "closed"]
            /\ UNCHANGED thread
         \/ /\ request[c].kind = "unknownModule"
            /\ link' = [link EXCEPT ![c] = "handled"]
            /\ thread' = [at |-> "callback", conn |-> c, outcome |-> "error"]
         \/ /\ request[c].kind \notin {"badPath", "unknownModule"}
            /\ link' = [link EXCEPT ![c] = "handled"]
            /\ thread' = [at |-> "module", conn |-> c, outcome |-> "ok"]
  /\ UNCHANGED <<request, answer, faults>> /\ SameTables

-----------------------------------------------------------------------------
(* executeTask.                                                             *)

Current == request[thread.conn]

Exists(u) == u \in accounts \cup {NoAccount}

LoggedFor(u) == \E c \in DOMAIN log : log[c] = u

Entry(c, u) == [x \in DOMAIN log \cup {c} |-> IF x = c THEN u ELSE log[x]]

Without(c) == [x \in DOMAIN log \ {c} |-> log[x]]

\* The statement of a request to the logs module, which looks an entry up before
\* it changes or deletes it.
WriteLog ==
  \/ /\ Current.kind = "addLog"
     /\ Exists(Current.userId)
     /\ log' = Entry(thread.conn, Current.userId)
  \/ /\ Current.kind = "editLog"
     /\ Current.entry \in DOMAIN log
     /\ Exists(Current.userId)
     /\ log' = Entry(Current.entry, Current.userId)
  \/ /\ Current.kind = "deleteLog"
     /\ Current.entry \in DOMAIN log
     /\ log' = Without(Current.entry)

\* Mutant: a delete of an account on a connection without PRAGMA foreign_keys.
WriteUnchecked ==
  /\ thread.at = "module"
  /\ written[thread.conn] < Current.statements
  /\ written' = [written EXCEPT ![thread.conn] = @ + 1]
  /\ \/ /\ Current.kind = "mutation"
        /\ accounts' = accounts \ {Current.removes}
        /\ UNCHANGED log
     \/ WriteLog /\ UNCHANGED accounts
  /\ UNCHANGED <<link, request, ready, thread, answer, faults>>

\* The next statement of the module.  An account that entries of the log name
\* is not deleted.
Write ==
  /\ thread.at = "module"
  /\ written[thread.conn] < Current.statements
  /\ written' = [written EXCEPT ![thread.conn] = @ + 1]
  /\ \/ /\ Current.kind = "mutation"
        /\ Current.removes # NoAccount => ~LoggedFor(Current.removes)
        /\ accounts' = accounts \ {Current.removes}
        /\ UNCHANGED log
     \/ WriteLog /\ UNCHANGED accounts
  /\ UNCHANGED <<link, request, ready, thread, answer, faults>>

Goto(at, outcome) == thread' = [thread EXCEPT !.at = at, !.outcome = outcome]

\* The module throws: a request may be refused before anything is written, later
\* only a statement that fails stops it.  What is written stays.
ModuleThrows ==
  /\ thread.at = "module"
  /\ written[thread.conn] < Current.statements \/ Current.statements = 0
  /\ IF written[thread.conn] = 0 THEN UNCHANGED faults ELSE Fault
  /\ Goto("callback", "error")
  /\ UNCHANGED <<link, request, ready, answer>> /\ SameTables

\* Mutant: requests that remove something are not audited.
ModuleReturnsDeletesUnaudited ==
  /\ thread.at = "module"
  /\ written[thread.conn] = Current.statements
  /\ Goto(IF Current.kind = "mutation" /\ Current.removes = NoAccount THEN "audit" ELSE "callback", "ok")
  /\ UNCHANGED <<link, request, ready, answer, faults>> /\ SameTables

\* Mutant: the audit entry is written before the module runs.
ModuleReturnsEarly ==
  /\ thread.at = "module"
  /\ Goto(IF Current.kind = "mutation" THEN "audit" ELSE "callback", "ok")
  /\ UNCHANGED <<link, request, ready, answer, faults>> /\ SameTables

ModuleReturns ==
  /\ thread.at = "module"
  /\ written[thread.conn] = Current.statements
  /\ Goto(IF Current.kind = "mutation" THEN "audit" ELSE "callback", "ok")
  /\ UNCHANGED <<link, request, ready, answer, faults>> /\ SameTables

Audit ==
  /\ thread.at = "audit"
  /\ Exists(Current.userId)
  /\ log' = Entry(thread.conn, Current.userId)
  /\ Goto("callback", "ok")
  /\ UNCHANGED <<link, request, ready, written, answer, accounts, faults>>

\* Mutant: the exception of the audit entry reaches the outer handler.
AuditFailureReported ==
  /\ thread.at = "audit"
  /\ IF Exists(Current.userId) THEN Fault ELSE UNCHANGED faults
  /\ Goto("callback", "error")
  /\ UNCHANGED <<link, request, ready, answer>> /\ SameTables

\* The entry names an account that is gone, or the statement fails: a warning
\* is logged, and the answer is the module's.
AuditFails ==
  /\ thread.at = "audit"
  /\ IF Exists(Current.userId) THEN Fault ELSE UNCHANGED faults
  /\ Goto("callback", "ok")
  /\ UNCHANGED <<link, request, ready, answer>> /\ SameTables

\* Mutant: executeTask that calls back only when all went well.
CallbackOnlyOk ==
  /\ thread.at = "callback"
  /\ answer' = [answer EXCEPT ![thread.conn] = thread.outcome]
  /\ link' = [link EXCEPT ![thread.conn] = IF thread.outcome = "ok" THEN "sending" ELSE @]
  /\ thread' = Idle
  /\ UNCHANGED <<request, ready, faults>> /\ SameTables

\* do_response: the answer is serialised and async_write starts.
Callback ==
  /\ thread.at = "callback"
  /\ answer' = [answer EXCEPT ![thread.conn] = thread.outcome]
  /\ link' = [link EXCEPT ![thread.conn] = "sending"]
  /\ thread' = Idle
  /\ UNCHANGED <<request, ready, faults>> /\ SameTables

\* The process ends, also when an exception leaves a handler, and is started
\* again: connections are gone, the tables are in the file.
Crash ==
  /\ Fault
  /\ link' = [c \in Connections |->
                IF link[c] \in {"new", "answered"} THEN link[c] ELSE "closed"]
  /\ ready' = <<>>
  /\ thread' = Idle
  /\ UNCHANGED <<request, answer>> /\ SameTables

-----------------------------------------------------------------------------
ServerStep ==
  HandleRequest \/ Write \/ ModuleThrows \/ ModuleReturns \/ Audit \/ AuditFails \/ Callback

ClientStep ==
  \E c \in Connections :
    Accept(c) \/ (\E r \in Request : Receive(c, r)) \/ HangUp(c)

Next == ServerStep \/ ClientStep \/ (\E c \in Connections : Deliver(c)) \/ Crash

Spec == Init /\ [][Next]_vars

\* The io_context runs its queue in order and a handler to its end; an answer
\* that is being written is delivered, unless the client goes away.
FairSpec == Spec /\ WF_vars(ServerStep) /\ \A c \in Connections : WF_vars(Deliver(c))

-----------------------------------------------------------------------------
(* Properties.                                                              *)

Phase == {"new", "reading", "queued", "handled", "sending", "answered", "closed"}

Working == [at : {"module", "audit", "callback"}, conn : Connections, outcome : {"ok", "error"}]

Log == UNION {[C -> Named] : C \in SUBSET Connections}

\* Connections have one of their phases, no request has more statements than it
\* asked for, and the tables hold ids.
TypeOK ==
  /\ link \in [Connections -> Phase]
  /\ request \in [Connections -> Request \cup {NotRead}]
  /\ ready \in Seq(Connections)
  /\ thread \in Working \cup {Idle}
  /\ written \in [Connections -> Nat]
  /\ \A c \in Connections : written[c] <= request[c].statements
  /\ answer \in [Connections -> {"none", "ok", "error"}]
  /\ accounts \in SUBSET Accounts
  /\ log \in Log
  /\ faults \in 0 .. MaxFaults

Complete(c) == written[c] = request[c].statements

\* An audit entry never speaks of a change that was refused or broke off:
\* executeTask writes it after the module, and a crash between the two loses the
\* entry, not the change.
AuditFollowsChange ==
  \A c \in DOMAIN log :
    request[c].kind = "mutation" => Complete(c) /\ answer[c] # "error"

\* The answer a client gets is true: "ok" only if every statement is committed,
\* an error only if not all of them are, whatever became of the audit entry.
AnswersAreTrue ==
  \A c \in Connections :
    /\ answer[c] = "ok" => Complete(c)
    /\ answer[c] = "error" /\ request[c].statements > 0 => ~Complete(c)

\* No entry of the log names an account that is gone, although the account may
\* be deleted between a module's statement and its audit entry.
LogNamesAccounts == \A c \in DOMAIN log : Exists(log[c])

\* What is complete and no longer in the thread's hands, yet has no entry.
Unaudited ==
  {c \in Connections :
     /\ request[c].kind = "mutation" /\ request[c].statements > 0
     /\ Complete(c) /\ c \notin DOMAIN log
     /\ thread = Idle \/ thread.conn # c}

\* Each missing audit entry has a cause of its own: a fault, a userId whose
\* account is gone, or a request that deleted an entry.
MissingEntriesHaveCauses ==
  Cardinality(Unaudited) <=
    faults
      + Cardinality({c \in Unaudited : ~Exists(request[c].userId)})
      + Cardinality({c \in Connections : request[c].kind = "deleteLog" /\ Complete(c)})

\* A request that was read is answered, or its connection is closed, however
\* many other clients keep their connections open and send nothing.
RequestsEnd ==
  \A c \in Connections : link[c] = "queued" ~> link[c] \in {"answered", "closed"}

\* A request that was read is not mislaid: its handler is in the io_context's
\* queue, or the thread is at it, until it is answered or its connection closed.
NothingIsLost ==
  \A c \in Connections :
    /\ link[c] = "queued" => \E i \in 1 .. Len(ready) : ready[i] = c
    /\ link[c] = "handled" => thread # Idle /\ thread.conn = c

\* How many steps executeTask is at most from its callback's end.
WorkLeft ==
  IF thread = Idle THEN 0
  ELSE CASE thread.at = "module" -> (Current.statements - written[thread.conn]) + 3
         [] thread.at = "audit" -> 2
         [] OTHER -> 1

\* A handler comes to an end: each step of the thread brings executeTask nearer
\* to its answer, and nothing a client does in between sets it back.
WorkDescends ==
  [][thread # Idle =>
       (ServerStep => WorkLeft' < WorkLeft) /\ WorkLeft' <= WorkLeft]_vars

\* Where a request stands in the queue.
Place(c) == CHOOSE i \in 1 .. Len(ready) : ready[i] = c

\* Nobody is overtaken: whoever comes later, a request that waits keeps its place
\* in the queue, and each handler that is called brings it one place nearer.
QueueMovesUp ==
  [][\A c \in Connections :
       link[c] = "queued" /\ link'[c] = "queued" =>
         Place(c)' = IF HandleRequest THEN Place(c) - 1 ELSE Place(c)]_vars

\* "Non-GET non-logs mutations write audit entries": once such a request has
\* been answered with success, its entry has been written.
MutationsAreAudited ==
  [][\A c \in Connections :
       request[c].kind = "mutation" /\ answer[c] = "none" /\ answer'[c] = "ok"
         => c \in DOMAIN log]_vars

\* The requests still to be done, in the order they were read, and what is done of
\* each, as if the one in the thread's hands were done when it is answered.
Waiting == IF thread = Idle THEN ready ELSE <<thread.conn>> \o ready

Effect ==
  [c \in Connections |-> IF thread # Idle /\ thread.conn = c THEN 0 ELSE written[c]]

Queue ==
  INSTANCE RequestQueue WITH
    Client <- Connections, Job <- Request, waiting <- Waiting, effect <- Effect

\* The server behaves like a queue of requests each of which is done at one
\* moment: handlers are called in the order reads complete, one at a time, and
\* executeTask answers "ok" for nothing less than the whole (handle_request,
\* executeTask, do_response).
ImplementsQueue == Queue!Spec

-----------------------------------------------------------------------------
(* The inductive invariant.                                                 *)

\* The queue holds every connection once, and only while it waits there.
QueueHoldsTheQueued ==
  /\ \A i \in 1 .. Len(ready) : link[ready[i]] = "queued"
  /\ \A i, j \in 1 .. Len(ready) : ready[i] = ready[j] => i = j

\* What the server has not begun with has left no trace.
UnhandledLeavesNoTrace ==
  \A c \in Connections :
    link[c] \in {"new", "reading", "queued"} =>
      written[c] = 0 /\ answer[c] = "none" /\ c \notin DOMAIN log

\* A connection has a request from the moment it is read.
ReadMeansRequest ==
  \A c \in Connections :
    /\ link[c] \in {"new", "reading"} => request[c] = NotRead
    /\ link[c] = "queued" => request[c] \in Request

\* What executeTask knows of the request it is working on.
WorkUnderWay ==
  thread # Idle =>
    LET c == thread.conn
    IN  /\ link[c] = "handled" /\ request[c] \in Request /\ answer[c] = "none"
        /\ request[c].kind = "mutation" /\ c \in DOMAIN log =>
             thread.at = "callback" /\ thread.outcome = "ok"
        /\ thread.at = "audit" => Complete(c) /\ request[c].kind = "mutation"
        /\ thread.at = "callback" =>
             IF thread.outcome = "ok" THEN Complete(c)
             ELSE request[c].statements > 0 => ~Complete(c)

ServerInv ==
  /\ TypeOK
  /\ QueueHoldsTheQueued /\ UnhandledLeavesNoTrace /\ ReadMeansRequest /\ WorkUnderWay
  /\ AuditFollowsChange /\ AnswersAreTrue /\ LogNamesAccounts

\* The connections the server has had to do with.
Begun == {c \in Connections : link[c] # "new"}

\* Complete mutations that have missed their entry although the account they name
\* exists, the one executeTask is about to answer included.
Unexplained ==
  {c \in Connections :
     /\ request[c].kind = "mutation" /\ request[c].statements > 0
     /\ Complete(c) /\ c \notin DOMAIN log
     /\ thread # Idle => thread.conn # c \/ thread.at = "callback"
     /\ Exists(request[c].userId)}

\* The requests that removed an entry.
Removals == {c \in Connections : request[c].kind = "deleteLog" /\ Complete(c)}

\* A fault or a removal for each of them.
EntriesAreAccountedFor ==
  /\ IsFiniteSet(Begun)
  /\ Cardinality(Unexplained) <= faults + Cardinality(Removals)
=============================================================================
