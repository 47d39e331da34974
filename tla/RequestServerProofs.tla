------------------------ MODULE RequestServerProofs ------------------------
(***************************************************************************)
(* What the answers and the audit entries of the server are worth: proofs  *)
(* for any number of connections, accounts, statements and faults.         *)
(***************************************************************************)
EXTENDS RequestServer, SequenceTheorems, FiniteSetTheorems, TLAPS

\* Goto changes where executeTask is, not the connection it works for.
LEMMA GotoStaysAtWork ==
  ASSUME thread \in Working \cup {Idle}, thread # Idle,
         NEW at \in {"module", "audit", "callback"}, NEW outcome \in {"ok", "error"},
         Goto(at, outcome)
  PROVE  /\ thread \in Working /\ thread' \in Working
         /\ thread' # Idle
         /\ thread'.conn = thread.conn /\ thread'.at = at /\ thread'.outcome = outcome
<1>1. thread \in Working
  OBVIOUS
<1>2. PICK a \in {"module", "audit", "callback"}, c \in Connections, o \in {"ok", "error"} :
        thread = [at |-> a, conn |-> c, outcome |-> o]
  BY <1>1 DEF Working
<1>3. thread' = [at |-> at, conn |-> c, outcome |-> outcome]
  BY <1>2 DEF Goto
<1> QED
  BY <1>1, <1>2, <1>3 DEF Working, Idle

\* A thread that is somewhere in executeTask is not idle.
LEMMA WorkIsNotIdle ==
  ASSUME thread \in Working \cup {Idle}
  PROVE  /\ thread # Idle => thread \in Working
         /\ thread.at \in {"module", "audit", "callback"} => thread # Idle
  BY DEF Working, Idle

\* An added or changed entry is the only difference to the log.
LEMMA EntryIsLog ==
  ASSUME log \in Log, NEW c \in Connections, NEW u \in Named
  PROVE  /\ Entry(c, u) \in Log
         /\ DOMAIN Entry(c, u) = DOMAIN log \cup {c}
         /\ Entry(c, u)[c] = u
         /\ \A x \in DOMAIN log : x # c => Entry(c, u)[x] = log[x]
<1>1. PICK C \in SUBSET Connections : log \in [C -> Named]
  BY DEF Log
<1>2. Entry(c, u) \in [C \cup {c} -> Named]
  BY <1>1 DEF Entry
<1>3. C \cup {c} \in SUBSET Connections
  BY <1>1
<1>4. Entry(c, u) \in Log
  BY <1>2, <1>3 DEF Log
<1> QED
  BY <1>4 DEF Entry

LEMMA EntryLooks ==
  ASSUME log \in Log, NEW c \in Connections, NEW u \in Named, log' = Entry(c, u)
  PROVE  /\ log' \in Log /\ DOMAIN log' = DOMAIN log \cup {c}
         /\ log'[c] = u
         /\ \A x \in DOMAIN log : x # c => log'[x] = log[x]
BY EntryIsLog

\* A deleted entry is the only difference to the log.
LEMMA WithoutIsLog ==
  ASSUME log \in Log, NEW c
  PROVE  /\ Without(c) \in Log
         /\ DOMAIN Without(c) = DOMAIN log \ {c}
         /\ \A x \in DOMAIN Without(c) : Without(c)[x] = log[x]
<1>1. PICK C \in SUBSET Connections : log \in [C -> Named]
  BY DEF Log
<1>2. Without(c) \in [C \ {c} -> Named]
  BY <1>1 DEF Without
<1>3. C \ {c} \in SUBSET Connections
  BY <1>1
<1>4. Without(c) \in Log
  BY <1>2, <1>3 DEF Log
<1> QED
  BY <1>4 DEF Without

\* Entries belong to connections and name accounts or nobody.
LEMMA LogShape ==
  ASSUME log \in Log
  PROVE  DOMAIN log \subseteq Connections /\ \A c \in DOMAIN log : log[c] \in Named
  BY DEF Log

\* A connection that is accepted was not in the server's hands.
LEMMA AcceptKeepsInv ==
  ASSUME ServerInv, NEW c \in Connections, Accept(c)
  PROVE  ServerInv'
<1>1. TypeOK'
  BY DEF ServerInv, TypeOK, Accept, SameTables, Phase
<1>2. QueueHoldsTheQueued'
  BY DEF ServerInv, TypeOK, QueueHoldsTheQueued, Accept, SameTables
<1>3. UnhandledLeavesNoTrace'
  BY DEF ServerInv, TypeOK, UnhandledLeavesNoTrace, Accept, SameTables
<1>4. ReadMeansRequest'
  BY DEF ServerInv, TypeOK, ReadMeansRequest, Accept, SameTables
<1>5. WorkUnderWay'
  BY DEF ServerInv, TypeOK, WorkUnderWay, Accept, SameTables, Complete
<1>6. AuditFollowsChange'
  BY DEF ServerInv, TypeOK, AuditFollowsChange, Accept, SameTables, Complete
<1>7. AnswersAreTrue'
  BY DEF ServerInv, TypeOK, AnswersAreTrue, Accept, SameTables, Complete
<1>8. LogNamesAccounts'
  BY DEF ServerInv, TypeOK, LogNamesAccounts, Accept, SameTables, Exists
<1> QED
  BY <1>1, <1>2, <1>3, <1>4, <1>5, <1>6, <1>7, <1>8 DEF ServerInv

\* A request that is read joins the queue once, with nothing done for it.
LEMMA ReceiveKeepsInv ==
  ASSUME ServerInv, NEW c \in Connections, NEW r \in Request, Receive(c, r)
  PROVE  ServerInv'
<1>1. TypeOK'
  BY DEF ServerInv, TypeOK, Receive, SameTables, UnhandledLeavesNoTrace, Phase, Request, Mutation, LogRequest, OtherRequest
<1>2. QueueHoldsTheQueued'
  BY DEF ServerInv, TypeOK, QueueHoldsTheQueued, Receive, SameTables
<1>3. UnhandledLeavesNoTrace'
  BY DEF ServerInv, TypeOK, UnhandledLeavesNoTrace, Receive, SameTables
<1>4. ReadMeansRequest'
  BY DEF ServerInv, TypeOK, ReadMeansRequest, Receive, SameTables
<1>5. WorkUnderWay'
  BY DEF ServerInv, TypeOK, WorkUnderWay, Receive, SameTables, Complete
<1>6. AuditFollowsChange'
  BY LogShape DEF ServerInv, TypeOK, UnhandledLeavesNoTrace, AuditFollowsChange, Receive, SameTables, Complete
<1>7. AnswersAreTrue'
  BY DEF ServerInv, TypeOK, UnhandledLeavesNoTrace, AnswersAreTrue, Receive, SameTables, Complete
<1>8. LogNamesAccounts'
  BY DEF ServerInv, TypeOK, LogNamesAccounts, Receive, SameTables, Exists
<1> QED
  BY <1>1, <1>2, <1>3, <1>4, <1>5, <1>6, <1>7, <1>8 DEF ServerInv

\* The thread does not work for a connection that is read or answered.
LEMMA HangUpKeepsInv ==
  ASSUME ServerInv, NEW c \in Connections, HangUp(c)
  PROVE  ServerInv'
<1>1. TypeOK'
  BY DEF ServerInv, TypeOK, HangUp, SameTables, Phase
<1>2. QueueHoldsTheQueued'
  BY DEF ServerInv, TypeOK, QueueHoldsTheQueued, HangUp, SameTables
<1>3. UnhandledLeavesNoTrace'
  BY DEF ServerInv, TypeOK, UnhandledLeavesNoTrace, HangUp, SameTables
<1>4. ReadMeansRequest'
  BY DEF ServerInv, TypeOK, ReadMeansRequest, HangUp, SameTables
<1>5. WorkUnderWay'
  BY DEF ServerInv, TypeOK, WorkUnderWay, HangUp, SameTables, Complete
<1>6. AuditFollowsChange'
  BY DEF ServerInv, TypeOK, AuditFollowsChange, HangUp, SameTables, Complete
<1>7. AnswersAreTrue'
  BY DEF ServerInv, TypeOK, AnswersAreTrue, HangUp, SameTables, Complete
<1>8. LogNamesAccounts'
  BY DEF ServerInv, TypeOK, LogNamesAccounts, HangUp, SameTables, Exists
<1> QED
  BY <1>1, <1>2, <1>3, <1>4, <1>5, <1>6, <1>7, <1>8 DEF ServerInv

\* Nor for one whose answer is being written.
LEMMA DeliverKeepsInv ==
  ASSUME ServerInv, NEW c \in Connections, Deliver(c)
  PROVE  ServerInv'
<1>1. TypeOK'
  BY DEF ServerInv, TypeOK, Deliver, SameTables, Phase
<1>2. QueueHoldsTheQueued'
  BY DEF ServerInv, TypeOK, QueueHoldsTheQueued, Deliver, SameTables
<1>3. UnhandledLeavesNoTrace'
  BY DEF ServerInv, TypeOK, UnhandledLeavesNoTrace, Deliver, SameTables
<1>4. ReadMeansRequest'
  BY DEF ServerInv, TypeOK, ReadMeansRequest, Deliver, SameTables
<1>5. WorkUnderWay'
  BY DEF ServerInv, TypeOK, WorkUnderWay, Deliver, SameTables, Complete
<1>6. AuditFollowsChange'
  BY DEF ServerInv, TypeOK, AuditFollowsChange, Deliver, SameTables, Complete
<1>7. AnswersAreTrue'
  BY DEF ServerInv, TypeOK, AnswersAreTrue, Deliver, SameTables, Complete
<1>8. LogNamesAccounts'
  BY DEF ServerInv, TypeOK, LogNamesAccounts, Deliver, SameTables, Exists
<1> QED
  BY <1>1, <1>2, <1>3, <1>4, <1>5, <1>6, <1>7, <1>8 DEF ServerInv

\* The request taken from the queue is in it once.
LEMMA HandleRequestKeepsInv ==
  ASSUME ServerInv, HandleRequest
  PROVE  ServerInv'
<1>0. /\ Head(ready) \in Connections /\ link[Head(ready)] = "queued"
      /\ Tail(ready) \in Seq(Connections) /\ Len(Tail(ready)) = Len(ready) - 1
      /\ \A i \in 1 .. Len(Tail(ready)) : Tail(ready)[i] = ready[i + 1] /\ Tail(ready)[i] # Head(ready)
  <2>1. ready \in Seq(Connections) /\ ready # <<>>
    BY DEF ServerInv, TypeOK, HandleRequest
  <2>2. /\ Head(ready) = ready[1] /\ Head(ready) \in Connections /\ 1 \in 1 .. Len(ready)
        /\ Tail(ready) \in Seq(Connections) /\ Len(Tail(ready)) = Len(ready) - 1
        /\ \A i \in 1 .. Len(Tail(ready)) : Tail(ready)[i] = ready[i + 1]
    BY <2>1, HeadTailProperties
  <2>3. \A i \in 1 .. Len(Tail(ready)) : i + 1 \in 1 .. Len(ready) /\ i + 1 # 1
    BY <2>1, <2>2
  <2> QED
    BY <2>2, <2>3 DEF ServerInv, QueueHoldsTheQueued
<1>1. TypeOK'
  <2>1. thread' \in Working \cup {Idle}
    BY <1>0 DEF ServerInv, TypeOK, HandleRequest, Working
  <2>2. link' \in [Connections -> Phase]
    BY <1>0 DEF ServerInv, TypeOK, HandleRequest, Phase
  <2> QED
    BY <1>0, <2>1, <2>2 DEF ServerInv, TypeOK, HandleRequest, SameTables
<1>2. QueueHoldsTheQueued'
  BY <1>0 DEF ServerInv, TypeOK, QueueHoldsTheQueued, HandleRequest, SameTables
<1>3. UnhandledLeavesNoTrace'
  BY DEF ServerInv, TypeOK, UnhandledLeavesNoTrace, HandleRequest, SameTables
<1>4. ReadMeansRequest'
  BY DEF ServerInv, TypeOK, ReadMeansRequest, HandleRequest, SameTables
<1>5. WorkUnderWay'
  BY <1>0, LogShape DEF ServerInv, TypeOK, UnhandledLeavesNoTrace, ReadMeansRequest, WorkUnderWay, HandleRequest, SameTables, Complete, Idle, Request, Mutation, LogRequest, OtherRequest
<1>6. AuditFollowsChange'
  BY DEF ServerInv, TypeOK, AuditFollowsChange, HandleRequest, SameTables, Complete
<1>7. AnswersAreTrue'
  BY DEF ServerInv, TypeOK, AnswersAreTrue, HandleRequest, SameTables, Complete
<1>8. LogNamesAccounts'
  BY DEF ServerInv, TypeOK, LogNamesAccounts, HandleRequest, SameTables, Exists
<1> QED
  BY <1>1, <1>2, <1>3, <1>4, <1>5, <1>6, <1>7, <1>8 DEF ServerInv

\* What a module's statement does to the log and the accounts.
LEMMA WriteChangesTables ==
  ASSUME ServerInv, Write
  PROVE  /\ thread \in Working /\ thread # Idle /\ thread.conn \in Connections
         /\ Current \in Request
         /\ log' \in Log /\ accounts' \subseteq accounts
         /\ Current.kind = "mutation" => log' = log
         /\ DOMAIN log' \subseteq DOMAIN log \cup {thread.conn}
         /\ \A c \in DOMAIN log' : log'[c] \in accounts' \cup {NoAccount}
<1>0. log \in Log
  BY DEF ServerInv, TypeOK
<1>1. thread \in Working /\ thread # Idle /\ thread.conn \in Connections /\ Current \in Request
  BY WorkIsNotIdle DEF ServerInv, TypeOK, WorkUnderWay, Working, Write, Current
<1>2. CASE Current.kind = "mutation"
  <2>1. log' = log
    BY <1>2 DEF Write, WriteLog
  <2>2. accounts' = accounts \ {Current.removes}
    BY <1>2 DEF Write, WriteLog
  <2>3. Current.removes # NoAccount => ~LoggedFor(Current.removes)
    BY <1>2 DEF Write, WriteLog
  <2> QED
    BY <1>1, <2>1, <2>2, <2>3 DEF ServerInv, TypeOK, LogNamesAccounts, Exists, LoggedFor
<1>3. CASE Current.kind # "mutation"
  <2>1. WriteLog /\ accounts' = accounts
    BY <1>3 DEF Write
  <2>2. CASE Current.kind = "addLog"
    <3>1. log' = Entry(thread.conn, Current.userId) /\ Exists(Current.userId) /\ Current.userId \in Named
      BY <1>1, <2>1, <2>2 DEF WriteLog, Exists, ServerInv, TypeOK, Named
    <3>2. /\ log' \in Log /\ DOMAIN log' = DOMAIN log \cup {thread.conn}
          /\ log'[thread.conn] = Current.userId
          /\ \A c \in DOMAIN log : c # thread.conn => log'[c] = log[c]
      BY <1>0, <1>1, <3>1, EntryLooks
    <3> QED
      BY <1>1, <1>3, <2>1, <3>1, <3>2 DEF ServerInv, TypeOK, LogNamesAccounts, Exists
  <2>3. CASE Current.kind = "editLog"
    <3>1. /\ log' = Entry(Current.entry, Current.userId) /\ Exists(Current.userId) /\ Current.userId \in Named
          /\ Current.entry \in DOMAIN log /\ Current.entry \in Connections
      BY <1>1, <2>1, <2>3, LogShape DEF WriteLog, Exists, ServerInv, TypeOK, Named
    <3>2. /\ log' \in Log /\ DOMAIN log' = DOMAIN log \cup {Current.entry}
          /\ log'[Current.entry] = Current.userId
          /\ \A c \in DOMAIN log : c # Current.entry => log'[c] = log[c]
      BY <1>0, <1>1, <3>1, EntryLooks
    <3> QED
      BY <1>1, <1>3, <2>1, <3>1, <3>2 DEF ServerInv, TypeOK, LogNamesAccounts, Exists
  <2>4. CASE Current.kind = "deleteLog"
    <3>1. log' = Without(Current.entry)
      BY <2>1, <2>4 DEF WriteLog
    <3> QED
      BY <1>1, <1>3, <2>1, <3>1, WithoutIsLog DEF ServerInv, TypeOK, LogNamesAccounts, Exists
  <2> QED
    BY <2>1, <2>2, <2>3, <2>4 DEF WriteLog
<1> QED
  BY <1>2, <1>3

\* A statement of the request in hand: its entry of the log comes later.
LEMMA WriteKeepsInv ==
  ASSUME ServerInv, Write
  PROVE  ServerInv'
<1>1. TypeOK'
  <2>1. Current.statements \in Nat
    BY WriteChangesTables DEF Request, Mutation, LogRequest, OtherRequest, ServerBoundAssumption
  <2> QED
    BY <2>1, WriteChangesTables DEF ServerInv, TypeOK, Write, Current
<1>2. QueueHoldsTheQueued' /\ ReadMeansRequest'
  BY DEF ServerInv, TypeOK, QueueHoldsTheQueued, ReadMeansRequest, Write
<1>3. UnhandledLeavesNoTrace'
  BY WriteChangesTables DEF ServerInv, TypeOK, UnhandledLeavesNoTrace, WorkUnderWay, Write
<1>4. WorkUnderWay'
  BY WriteChangesTables DEF ServerInv, TypeOK, WorkUnderWay, Write, Current
<1>5. AuditFollowsChange'
  BY WriteChangesTables DEF ServerInv, TypeOK, WorkUnderWay, AuditFollowsChange, Write, Current, Complete
<1>6. AnswersAreTrue'
  BY WriteChangesTables DEF ServerInv, TypeOK, WorkUnderWay, AnswersAreTrue, Write, Complete
<1>7. LogNamesAccounts'
  BY WriteChangesTables DEF LogNamesAccounts, Exists
<1> QED
  BY <1>1, <1>2, <1>3, <1>4, <1>5, <1>6, <1>7 DEF ServerInv

\* A module that throws has not written all it was to write.
LEMMA ModuleThrowsKeepsInv ==
  ASSUME ServerInv, ModuleThrows
  PROVE  ServerInv'
<1>0. /\ thread \in Working /\ thread # Idle /\ thread.conn \in Connections
      /\ thread' \in Working /\ thread' # Idle /\ thread'.conn = thread.conn
      /\ thread'.at = "callback" /\ thread'.outcome = "error"
  BY WorkIsNotIdle, GotoStaysAtWork DEF ServerInv, TypeOK, Working, ModuleThrows
<1>1. TypeOK'
  <2>1. faults' \in 0 .. MaxFaults
    BY ServerBoundAssumption DEF ServerInv, TypeOK, ModuleThrows, Fault
  <2> QED
    BY <1>0, <2>1 DEF ServerInv, TypeOK, ModuleThrows, SameTables
<1>2. QueueHoldsTheQueued'
  BY DEF ServerInv, TypeOK, QueueHoldsTheQueued, ModuleThrows, SameTables
<1>3. UnhandledLeavesNoTrace'
  BY DEF ServerInv, TypeOK, UnhandledLeavesNoTrace, ModuleThrows, SameTables
<1>4. ReadMeansRequest'
  BY DEF ServerInv, TypeOK, ReadMeansRequest, ModuleThrows, SameTables
<1>5. WorkUnderWay'
  BY <1>0 DEF ServerInv, TypeOK, WorkUnderWay, ModuleThrows, SameTables, Current, Complete
<1>6. AuditFollowsChange'
  BY DEF ServerInv, TypeOK, AuditFollowsChange, ModuleThrows, SameTables, Complete
<1>7. AnswersAreTrue'
  BY DEF ServerInv, TypeOK, AnswersAreTrue, ModuleThrows, SameTables, Complete
<1>8. LogNamesAccounts'
  BY DEF ServerInv, TypeOK, LogNamesAccounts, ModuleThrows, SameTables, Exists
<1> QED
  BY <1>1, <1>2, <1>3, <1>4, <1>5, <1>6, <1>7, <1>8 DEF ServerInv

\* A module that returns has.
LEMMA ModuleReturnsKeepsInv ==
  ASSUME ServerInv, ModuleReturns
  PROVE  ServerInv'
<1>0. /\ thread \in Working /\ thread # Idle /\ thread.conn \in Connections
      /\ thread' \in Working /\ thread' # Idle /\ thread'.conn = thread.conn
      /\ thread'.at = (IF Current.kind = "mutation" THEN "audit" ELSE "callback") /\ thread'.outcome = "ok"
  BY WorkIsNotIdle, GotoStaysAtWork DEF ServerInv, TypeOK, Working, ModuleReturns
<1>1. TypeOK'
  BY <1>0 DEF ServerInv, TypeOK, ModuleReturns, SameTables
<1>2. QueueHoldsTheQueued'
  BY DEF ServerInv, TypeOK, QueueHoldsTheQueued, ModuleReturns, SameTables
<1>3. UnhandledLeavesNoTrace'
  BY DEF ServerInv, TypeOK, UnhandledLeavesNoTrace, ModuleReturns, SameTables
<1>4. ReadMeansRequest'
  BY DEF ServerInv, TypeOK, ReadMeansRequest, ModuleReturns, SameTables
<1>5. WorkUnderWay'
  BY <1>0 DEF ServerInv, TypeOK, WorkUnderWay, ModuleReturns, SameTables, Current, Complete
<1>6. AuditFollowsChange'
  BY DEF ServerInv, TypeOK, AuditFollowsChange, ModuleReturns, SameTables, Complete
<1>7. AnswersAreTrue'
  BY DEF ServerInv, TypeOK, AnswersAreTrue, ModuleReturns, SameTables, Complete
<1>8. LogNamesAccounts'
  BY DEF ServerInv, TypeOK, LogNamesAccounts, ModuleReturns, SameTables, Exists
<1> QED
  BY <1>1, <1>2, <1>3, <1>4, <1>5, <1>6, <1>7, <1>8 DEF ServerInv

\* The entry is written for a request that is complete.
LEMMA AuditKeepsInv ==
  ASSUME ServerInv, Audit
  PROVE  ServerInv'
<1>0. /\ thread \in Working /\ thread # Idle /\ thread.conn \in Connections
      /\ thread' \in Working /\ thread' # Idle /\ thread'.conn = thread.conn
      /\ thread'.at = "callback" /\ thread'.outcome = "ok"
  BY WorkIsNotIdle, GotoStaysAtWork DEF ServerInv, TypeOK, Working, Audit
<1>1. log' = Entry(thread.conn, Current.userId) /\ Exists(Current.userId) /\ Current.userId \in Named
  BY DEF Audit, Exists, ServerInv, TypeOK, Named
<1>1a. /\ log' \in Log /\ DOMAIN log' = DOMAIN log \cup {thread.conn}
       /\ log'[thread.conn] = Current.userId
       /\ \A c \in DOMAIN log : c # thread.conn => log'[c] = log[c]
  <2>1. log \in Log
    BY DEF ServerInv, TypeOK
  <2> QED
    BY <1>0, <1>1, <2>1, EntryLooks
<1>1b. thread.at = "audit" /\ accounts' = accounts /\ UNCHANGED <<link, request, written, answer>>
  BY DEF Audit
<1>2. TypeOK'
  BY <1>0, <1>1a DEF ServerInv, TypeOK, Audit
<1>3. QueueHoldsTheQueued' /\ ReadMeansRequest'
  BY DEF ServerInv, TypeOK, QueueHoldsTheQueued, ReadMeansRequest, Audit
<1>4. UnhandledLeavesNoTrace'
  BY <1>0, <1>1a, <1>1b DEF ServerInv, UnhandledLeavesNoTrace, WorkUnderWay
<1>5. WorkUnderWay'
  BY <1>0, <1>1b DEF ServerInv, WorkUnderWay, Complete
<1>6. AuditFollowsChange'
  BY <1>0, <1>1a, <1>1b DEF ServerInv, WorkUnderWay, AuditFollowsChange, Complete
<1>7. AnswersAreTrue'
  BY DEF ServerInv, TypeOK, AnswersAreTrue, Audit, Complete
<1>8. LogNamesAccounts'
  BY <1>1, <1>1a, <1>1b DEF ServerInv, LogNamesAccounts, Exists
<1> QED
  BY <1>1, <1>2, <1>3, <1>4, <1>5, <1>6, <1>7, <1>8 DEF ServerInv

\* Without the entry the answer is the same.
LEMMA AuditFailsKeepsInv ==
  ASSUME ServerInv, AuditFails
  PROVE  ServerInv'
<1>0. /\ thread \in Working /\ thread # Idle /\ thread.conn \in Connections
      /\ thread' \in Working /\ thread' # Idle /\ thread'.conn = thread.conn
      /\ thread'.at = "callback" /\ thread'.outcome = "ok"
  BY WorkIsNotIdle, GotoStaysAtWork DEF ServerInv, TypeOK, Working, AuditFails
<1>1. TypeOK'
  <2>1. faults' \in 0 .. MaxFaults
    BY ServerBoundAssumption DEF ServerInv, TypeOK, AuditFails, Fault
  <2> QED
    BY <1>0, <2>1 DEF ServerInv, TypeOK, AuditFails, SameTables
<1>2. QueueHoldsTheQueued'
  BY DEF ServerInv, TypeOK, QueueHoldsTheQueued, AuditFails, SameTables
<1>3. UnhandledLeavesNoTrace'
  BY DEF ServerInv, TypeOK, UnhandledLeavesNoTrace, AuditFails, SameTables
<1>4. ReadMeansRequest'
  BY DEF ServerInv, TypeOK, ReadMeansRequest, AuditFails, SameTables
<1>5. WorkUnderWay'
  BY <1>0 DEF ServerInv, TypeOK, WorkUnderWay, AuditFails, SameTables, Complete
<1>6. AuditFollowsChange'
  BY DEF ServerInv, TypeOK, AuditFollowsChange, AuditFails, SameTables, Complete
<1>7. AnswersAreTrue'
  BY DEF ServerInv, TypeOK, AnswersAreTrue, AuditFails, SameTables, Complete
<1>8. LogNamesAccounts'
  BY DEF ServerInv, TypeOK, LogNamesAccounts, AuditFails, SameTables, Exists
<1> QED
  BY <1>1, <1>2, <1>3, <1>4, <1>5, <1>6, <1>7, <1>8 DEF ServerInv

\* The answer says what became of the request.
LEMMA CallbackKeepsInv ==
  ASSUME ServerInv, Callback
  PROVE  ServerInv'
<1>0. thread \in Working /\ thread # Idle /\ thread.conn \in Connections
  BY WorkIsNotIdle DEF ServerInv, TypeOK, Working, Callback
<1>1. TypeOK'
  BY <1>0 DEF ServerInv, TypeOK, Callback, SameTables, Phase, Working
<1>2. QueueHoldsTheQueued'
  BY <1>0 DEF ServerInv, TypeOK, QueueHoldsTheQueued, WorkUnderWay, Callback
<1>3. UnhandledLeavesNoTrace'
  BY <1>0 DEF ServerInv, TypeOK, UnhandledLeavesNoTrace, Callback, SameTables
<1>4. ReadMeansRequest'
  BY DEF ServerInv, TypeOK, ReadMeansRequest, Callback, SameTables
<1>5. WorkUnderWay'
  BY DEF WorkUnderWay, Callback
<1>6. AuditFollowsChange'
  BY <1>0, LogShape DEF ServerInv, TypeOK, WorkUnderWay, AuditFollowsChange, Callback, SameTables, Complete, Working
<1>7. AnswersAreTrue'
  BY <1>0 DEF ServerInv, TypeOK, WorkUnderWay, AnswersAreTrue, Callback, SameTables, Complete, Working
<1>8. LogNamesAccounts'
  BY DEF ServerInv, TypeOK, LogNamesAccounts, Callback, SameTables, Exists
<1> QED
  BY <1>1, <1>2, <1>3, <1>4, <1>5, <1>6, <1>7, <1>8 DEF ServerInv

\* A crash leaves what is written and what was answered.
LEMMA CrashKeepsInv ==
  ASSUME ServerInv, Crash
  PROVE  ServerInv'
<1>1. TypeOK'
  <2>1. faults' \in 0 .. MaxFaults
    BY ServerBoundAssumption DEF ServerInv, TypeOK, Crash, Fault
  <2>2. link' \in [Connections -> Phase]
    BY DEF ServerInv, TypeOK, Crash, Phase
  <2>3. ready' \in Seq(Connections) /\ thread' \in Working \cup {Idle}
    BY DEF Crash
  <2> QED
    BY <2>1, <2>2, <2>3 DEF ServerInv, TypeOK, Crash, SameTables
<1>2. QueueHoldsTheQueued'
  BY DEF ServerInv, TypeOK, QueueHoldsTheQueued, Crash, SameTables
<1>3. UnhandledLeavesNoTrace'
  BY DEF ServerInv, TypeOK, UnhandledLeavesNoTrace, Crash, SameTables
<1>4. ReadMeansRequest'
  BY DEF ServerInv, TypeOK, ReadMeansRequest, Crash, SameTables
<1>5. WorkUnderWay'
  BY DEF WorkUnderWay, Crash
<1>6. AuditFollowsChange'
  BY DEF ServerInv, TypeOK, AuditFollowsChange, Crash, SameTables, Complete
<1>7. AnswersAreTrue'
  BY DEF ServerInv, TypeOK, AnswersAreTrue, Crash, SameTables, Complete
<1>8. LogNamesAccounts'
  BY DEF ServerInv, TypeOK, LogNamesAccounts, Crash, SameTables, Exists
<1> QED
  BY <1>1, <1>2, <1>3, <1>4, <1>5, <1>6, <1>7, <1>8 DEF ServerInv

-----------------------------------------------------------------------------
\* The server's invariant: every answer and every audit entry is backed by what
\* was written, and what is still to be done has left no trace.
THEOREM ServerInvariance == Spec => []ServerInv
<1>1. Init => ServerInv
  <2> SUFFICES ASSUME Init
               PROVE  ServerInv
    OBVIOUS
  <2>1. log \in Log /\ DOMAIN log = {}
    <3>1. log \in [{} -> Named] /\ {} \in SUBSET Connections
      BY DEF Init
    <3> QED
      BY <3>1 DEF Log
  <2>2. ready \in Seq(Connections) /\ Len(ready) = 0
    BY DEF Init
  <2>3. \A c \in Connections :
          link[c] = "new" /\ request[c] = NotRead /\ written[c] = 0 /\ answer[c] = "none"
    BY DEF Init
  <2>4. NotRead.statements = 0
    BY DEF NotRead
  <2>5. link \in [Connections -> Phase] /\ answer \in [Connections -> {"none", "ok", "error"}]
    BY DEF Init, Phase
  <2>6. request \in [Connections -> Request \cup {NotRead}] /\ written \in [Connections -> Nat]
    BY DEF Init
  <2>7. faults \in 0 .. MaxFaults
    BY ServerBoundAssumption DEF Init
  <2>8. TypeOK
    BY <2>1, <2>2, <2>3, <2>4, <2>5, <2>6, <2>7 DEF TypeOK, Init
  <2>9. QueueHoldsTheQueued /\ ReadMeansRequest /\ WorkUnderWay
    BY <2>2, <2>3 DEF QueueHoldsTheQueued, ReadMeansRequest, WorkUnderWay, Init
  <2> QED
    BY <2>1, <2>3, <2>8, <2>9
       DEF ServerInv, UnhandledLeavesNoTrace, AuditFollowsChange, AnswersAreTrue, LogNamesAccounts
<1>2. ServerInv /\ [Next]_vars => ServerInv'
  <2> SUFFICES ASSUME ServerInv, [Next]_vars
               PROVE  ServerInv'
    OBVIOUS
  <2>1. CASE ServerStep
    BY <2>1, HandleRequestKeepsInv, WriteKeepsInv, ModuleThrowsKeepsInv, ModuleReturnsKeepsInv,
       AuditKeepsInv, AuditFailsKeepsInv, CallbackKeepsInv DEF ServerStep
  <2>2. CASE ClientStep
    BY <2>2, AcceptKeepsInv, ReceiveKeepsInv, HangUpKeepsInv DEF ClientStep
  <2>3. CASE \E c \in Connections : Deliver(c)
    BY <2>3, DeliverKeepsInv
  <2>4. CASE Crash
    BY <2>4, CrashKeepsInv
  <2>5. CASE UNCHANGED vars
    BY <2>5 DEF vars, ServerInv, TypeOK, QueueHoldsTheQueued, UnhandledLeavesNoTrace, ReadMeansRequest,
                WorkUnderWay, AuditFollowsChange, AnswersAreTrue, LogNamesAccounts, Complete, Exists
  <2> QED
    BY <2>1, <2>2, <2>3, <2>4, <2>5 DEF Next
<1> QED
  BY <1>1, <1>2, PTL DEF Spec

\* A connection keeps to its phases and no request commits more statements than
\* it has.
THEOREM ServerTypeCorrect == Spec => []TypeOK
<1>1. ServerInv => TypeOK
  BY DEF ServerInv
<1> QED
  BY <1>1, ServerInvariance, PTL

\* An audit entry never speaks of a change that was refused or broke off.
THEOREM EntriesFollowChanges == Spec => []AuditFollowsChange
<1>1. ServerInv => AuditFollowsChange
  BY DEF ServerInv
<1> QED
  BY <1>1, ServerInvariance, PTL

\* "ok" means done and an error means not done, whatever fails or crashes.
THEOREM AnswersStayTrue == Spec => []AnswersAreTrue
<1>1. ServerInv => AnswersAreTrue
  BY DEF ServerInv
<1> QED
  BY <1>1, ServerInvariance, PTL

\* No entry of the log outlives the account it names.
THEOREM EntriesNameAccounts == Spec => []LogNamesAccounts
<1>1. ServerInv => LogNamesAccounts
  BY DEF ServerInv
<1> QED
  BY <1>1, ServerInvariance, PTL

-----------------------------------------------------------------------------
(* Audit entries that are missing.                                          *)

\* A set that gains at most one element.
LEMMA OneMoreAtMost ==
  ASSUME NEW S, IsFiniteSet(S), NEW T, NEW x, T \subseteq S \cup {x}
  PROVE  /\ IsFiniteSet(T)
         /\ Cardinality(T) \in Nat /\ Cardinality(S) \in Nat
         /\ Cardinality(T) <= Cardinality(S) + 1
<1>1. /\ IsFiniteSet(S \cup {x})
      /\ Cardinality(S \cup {x}) <= Cardinality(S) + 1
      /\ Cardinality(S) \in Nat
  BY FS_AddElement, FS_CardinalityType
<1>2. /\ IsFiniteSet(T)
      /\ Cardinality(T) <= Cardinality(S \cup {x})
  BY <1>1, FS_Subset
<1>3. Cardinality(T) \in Nat /\ Cardinality(S \cup {x}) \in Nat
  BY <1>1, <1>2, FS_CardinalityType
<1> QED
  BY <1>1, <1>2, <1>3

\* Deleting an entry is one statement.
LEMMA DeletionsAreOneStatement ==
  ASSUME ServerInv, NEW c \in Connections, request[c].kind = "deleteLog"
  PROVE  request[c].statements = 1
<1>1. request[c] \in Request \cup {NotRead}
  BY DEF ServerInv, TypeOK
<1>2. request[c] \in LogRequest
  BY <1>1 DEF Request, Mutation, OtherRequest, NotRead
<1> QED
  BY <1>2 DEF LogRequest

\* What is counted has been begun with.
LEMMA CountedAreBegun ==
  ASSUME ServerInv
  PROVE  Unexplained \subseteq Begun /\ Removals \subseteq Begun /\ Unaudited \subseteq Begun
<1>1. ASSUME NEW c \in Connections, c \notin Begun, Complete(c)
      PROVE  request[c].statements = 0
  BY <1>1 DEF ServerInv, UnhandledLeavesNoTrace, Begun, Complete
<1> QED
  BY <1>1, DeletionsAreOneStatement DEF Unexplained, Removals, Unaudited, Begun

\* A step that leaves the two sides of the count as they are, or better.
LEMMA CountIsKept ==
  ASSUME ServerInv, ServerInv', EntriesAreAccountedFor,
         NEW b, Begun' \subseteq Begun \cup {b},
         Unexplained' \subseteq Unexplained, Removals \subseteq Removals', faults' >= faults
  PROVE  EntriesAreAccountedFor'
<1>1. IsFiniteSet(Begun) /\ IsFiniteSet(Begun')
  BY OneMoreAtMost DEF EntriesAreAccountedFor
<1>2. IsFiniteSet(Unexplained) /\ IsFiniteSet(Removals')
  <2>1. (Removals \subseteq Begun)'
    BY CountedAreBegun, PTL
  <2> QED
    BY <1>1, <2>1, CountedAreBegun, FS_Subset
<1>3. /\ Cardinality(Unexplained') <= Cardinality(Unexplained)
      /\ Cardinality(Removals) <= Cardinality(Removals')
  BY <1>2, FS_Subset
<1>4. /\ Cardinality(Unexplained) \in Nat /\ Cardinality(Unexplained') \in Nat
      /\ Cardinality(Removals) \in Nat /\ Cardinality(Removals') \in Nat
  BY <1>2, FS_Subset, FS_CardinalityType
<1>5. faults \in Nat /\ faults' \in Nat
  BY ServerBoundAssumption DEF ServerInv, TypeOK
<1> QED
  BY <1>1, <1>3, <1>4, <1>5 DEF EntriesAreAccountedFor

\* A fault may cost one entry.
LEMMA CountAfterFault ==
  ASSUME ServerInv, ServerInv', EntriesAreAccountedFor,
         Begun' \subseteq Begun, NEW x,
         Unexplained' \subseteq Unexplained \cup {x}, Removals' = Removals, faults' = faults + 1
  PROVE  EntriesAreAccountedFor'
<1>1. IsFiniteSet(Begun) /\ IsFiniteSet(Begun')
  BY FS_Subset DEF EntriesAreAccountedFor
<1>2. IsFiniteSet(Unexplained) /\ IsFiniteSet(Removals)
  BY <1>1, CountedAreBegun, FS_Subset
<1>3. /\ Cardinality(Unexplained') <= Cardinality(Unexplained) + 1
      /\ Cardinality(Unexplained) \in Nat /\ Cardinality(Unexplained') \in Nat
  BY <1>2, OneMoreAtMost
<1>4. Cardinality(Removals) \in Nat /\ faults \in Nat
  BY <1>2, FS_CardinalityType, ServerBoundAssumption DEF ServerInv, TypeOK
<1> QED
  BY <1>1, <1>3, <1>4 DEF EntriesAreAccountedFor

\* So may a request that deletes one.
LEMMA CountAfterRemoval ==
  ASSUME ServerInv, ServerInv', EntriesAreAccountedFor,
         Begun' \subseteq Begun, NEW x, NEW c, c \notin Removals,
         Unexplained' \subseteq Unexplained \cup {x}, Removals' = Removals \cup {c},
         faults' = faults
  PROVE  EntriesAreAccountedFor'
<1>1. IsFiniteSet(Begun) /\ IsFiniteSet(Begun')
  BY FS_Subset DEF EntriesAreAccountedFor
<1>2. IsFiniteSet(Unexplained) /\ IsFiniteSet(Removals)
  BY <1>1, CountedAreBegun, FS_Subset
<1>3. /\ Cardinality(Unexplained') <= Cardinality(Unexplained) + 1
      /\ Cardinality(Unexplained) \in Nat /\ Cardinality(Unexplained') \in Nat
  BY <1>2, OneMoreAtMost
<1>4. Cardinality(Removals') = Cardinality(Removals) + 1
  BY <1>2, FS_AddElement
<1>5. Cardinality(Removals) \in Nat /\ faults \in Nat
  BY <1>2, FS_CardinalityType, ServerBoundAssumption DEF ServerInv, TypeOK
<1> QED
  BY <1>1, <1>3, <1>4, <1>5 DEF EntriesAreAccountedFor

\* A statement: a change of accounts explains more entries, a deleted entry is paid for.
LEMMA WriteKeepsCount ==
  ASSUME ServerInv, ServerInv', EntriesAreAccountedFor, Write
  PROVE  EntriesAreAccountedFor'
<1> DEFINE c == thread.conn
<1>1. /\ thread \in Working /\ thread # Idle /\ c \in Connections /\ Current \in Request
      /\ accounts' \subseteq accounts /\ thread.at = "module" /\ written[c] < Current.statements
      /\ written' = [written EXCEPT ![c] = @ + 1]
      /\ UNCHANGED <<link, request, ready, thread, answer, faults>>
  BY WriteChangesTables DEF Write
<1>2. /\ \A x \in Connections \ {c} : Complete(x)' = Complete(x)
      /\ ~Complete(c)
  BY <1>1 DEF ServerInv, TypeOK, Complete, Current, Request, Mutation, LogRequest, OtherRequest
<1>3. Begun' = Begun
  BY <1>1 DEF Begun
<1>4. Removals \subseteq Removals' /\ Removals' \subseteq Removals \cup {c} /\ faults' >= faults
  <2>1. faults' >= faults
    BY <1>1, ServerBoundAssumption DEF ServerInv, TypeOK
  <2>2. request' = request
    BY <1>1
  <2> HIDE DEF c
  <2>3. Removals \subseteq Removals' /\ Removals' \subseteq Removals \cup {c}
    BY <1>2, <2>2 DEF Removals
  <2> QED
    BY <2>1, <2>3
<1>5. ASSUME DOMAIN log \subseteq DOMAIN log'
      PROVE  EntriesAreAccountedFor'
  <2>1. Unexplained' \subseteq Unexplained
    BY <1>1, <1>2, <1>5 DEF Unexplained, Exists
  <2> QED
    BY <1>3, <1>4, <2>1, CountIsKept
<1>6. ASSUME Current.kind = "deleteLog", log' = Without(Current.entry)
      PROVE  EntriesAreAccountedFor'
  <2>1. DOMAIN log' = DOMAIN log \ {Current.entry}
    BY <1>6 DEF Without
  <2>2. Unexplained' \subseteq Unexplained \cup {Current.entry}
    BY <1>1, <1>2, <2>1 DEF Unexplained, Exists
  <2>3. Complete(c)'
    BY <1>1, <1>6, DeletionsAreOneStatement DEF ServerInv, TypeOK, Complete, Current
  <2>4. c \notin Removals /\ Removals' = Removals \cup {c}
    BY <1>1, <1>2, <1>4, <1>6, <2>3 DEF Removals, Current
  <2> QED
    BY <1>1, <1>3, <2>2, <2>4, CountAfterRemoval
<1>7. DOMAIN log \subseteq DOMAIN log' \/ (Current.kind = "deleteLog" /\ log' = Without(Current.entry))
  BY DEF Write, WriteLog, Entry
<1> QED
  BY <1>5, <1>6, <1>7

\* Every step keeps the account: faults and deleted entries pay for what goes
\* missing, and the log keeps what else it has.
LEMMA EntriesStayAccountedFor ==
  ASSUME ServerInv, ServerInv', EntriesAreAccountedFor, [Next]_vars
  PROVE  EntriesAreAccountedFor'
<1>1. ASSUME NEW c \in Connections, Accept(c)
      PROVE  EntriesAreAccountedFor'
  <2>1. Begun' \subseteq Begun \cup {c}
    BY <1>1 DEF Begun, Accept, ServerInv, TypeOK
  <2>2. Unexplained' \subseteq Unexplained /\ Removals \subseteq Removals' /\ faults' >= faults
    BY <1>1, ServerBoundAssumption
       DEF Unexplained, Removals, Accept, SameTables, Complete, Exists, ServerInv, TypeOK
  <2> QED
    BY <2>1, <2>2, CountIsKept
<1>2. ASSUME NEW c \in Connections, NEW r \in Request, Receive(c, r)
      PROVE  EntriesAreAccountedFor'
  <2>1. Begun' \subseteq Begun \cup {c}
    BY <1>2 DEF Begun, Receive, ServerInv, TypeOK
  <2>2. written[c] = 0 /\ (Complete(c)' <=> r.statements = 0) /\ request'[c] = r
    BY <1>2 DEF Receive, SameTables, Complete, ServerInv, TypeOK, UnhandledLeavesNoTrace
  <2>3. \A x \in Connections \ {c} : request'[x] = request[x] /\ (Complete(x)' <=> Complete(x))
    BY <1>2 DEF Receive, SameTables, Complete, ServerInv, TypeOK
  <2>4. Unexplained' \subseteq Unexplained
    <3>1. r.statements > 0 => r.statements # 0
      OBVIOUS
    <3>2. UNCHANGED <<thread, accounts, log>>
      BY <1>2 DEF Receive, SameTables
    <3> QED
      BY <2>2, <2>3, <3>1, <3>2 DEF Unexplained, Exists
  <2>5. c \notin Removals
    <3>1. Removals \subseteq Begun /\ (request[c].kind = "deleteLog" => request[c].statements = 1)
      BY CountedAreBegun, DeletionsAreOneStatement
    <3> QED
      BY <2>2, <3>1 DEF Removals, Complete
  <2>6. Removals \subseteq Removals' /\ faults' >= faults
    BY <1>2, <2>3, <2>5, ServerBoundAssumption DEF Removals, Receive, ServerInv, TypeOK
  <2> QED
    BY <2>1, <2>4, <2>6, CountIsKept
<1>3. ASSUME NEW c \in Connections, HangUp(c) \/ Deliver(c)
      PROVE  EntriesAreAccountedFor'
  <2>1. Begun' \subseteq Begun \cup {c}
    BY <1>3 DEF Begun, HangUp, Deliver, ServerInv, TypeOK
  <2>2. Unexplained' \subseteq Unexplained /\ Removals \subseteq Removals' /\ faults' >= faults
    BY <1>3, ServerBoundAssumption
       DEF Unexplained, Removals, HangUp, Deliver, SameTables, Complete, Exists, ServerInv, TypeOK
  <2> QED
    BY <2>1, <2>2, CountIsKept
<1>4. CASE HandleRequest
  <2>1. Begun' \subseteq Begun \cup {Head(ready)}
    BY <1>4 DEF Begun, HandleRequest, ServerInv, TypeOK
  <2>2. Unexplained' \subseteq Unexplained /\ Removals \subseteq Removals' /\ faults' >= faults
    BY <1>4, ServerBoundAssumption
       DEF Unexplained, Removals, HandleRequest, SameTables, Complete, Exists, Idle, ServerInv, TypeOK
  <2> QED
    BY <2>1, <2>2, CountIsKept
<1>5. CASE Write
  BY <1>5, WriteKeepsCount
<1>6. CASE ModuleThrows \/ ModuleReturns
  <2>1. /\ thread \in Working /\ thread # Idle /\ thread.conn \in Connections
        /\ thread' \in Working /\ thread' # Idle /\ thread'.conn = thread.conn
    BY <1>6, WorkIsNotIdle, GotoStaysAtWork DEF ServerInv, TypeOK, Working, ModuleThrows, ModuleReturns
  <2>2. Begun' \subseteq Begun \cup {thread.conn} /\ Removals \subseteq Removals' /\ faults' >= faults
    BY <1>6, ServerBoundAssumption
       DEF Begun, Removals, ModuleThrows, ModuleReturns, SameTables, Complete, Fault, ServerInv, TypeOK
  <2>3. ~(request[thread.conn].kind = "mutation" /\ request[thread.conn].statements > 0
            /\ Complete(thread.conn) /\ thread'.at = "callback")
    <3>1. CASE ModuleThrows
      BY <3>1, <2>1 DEF ModuleThrows, Current, Complete, ServerInv, TypeOK
    <3>2. CASE ModuleReturns
      BY <3>2, <2>1, WorkIsNotIdle, GotoStaysAtWork DEF ModuleReturns, Current, ServerInv, TypeOK
    <3> QED
      BY <1>6, <3>1, <3>2
  <2>4. Unexplained' \subseteq Unexplained
    BY <1>6, <2>1, <2>3
       DEF Unexplained, ModuleThrows, ModuleReturns, SameTables, Complete, Exists, ServerInv, TypeOK
  <2> QED
    BY <2>2, <2>4, CountIsKept
<1>7. CASE Audit
  <2>1. /\ thread \in Working /\ thread # Idle /\ thread.conn \in Connections
        /\ thread' \in Working /\ thread' # Idle /\ thread'.conn = thread.conn
    BY <1>7, WorkIsNotIdle, GotoStaysAtWork DEF ServerInv, TypeOK, Working, Audit
  <2>2. DOMAIN log' = DOMAIN log \cup {thread.conn}
    BY <1>7 DEF Audit, Entry
  <2>3. Begun' \subseteq Begun \cup {thread.conn} /\ Removals \subseteq Removals' /\ faults' >= faults
    BY <1>7, ServerBoundAssumption DEF Begun, Removals, Audit, Complete, ServerInv, TypeOK
  <2>4. Unexplained' \subseteq Unexplained
    BY <1>7, <2>1, <2>2 DEF Unexplained, Audit, Complete, Exists
  <2> QED
    BY <2>3, <2>4, CountIsKept
<1>8. CASE AuditFails
  <2>1. /\ thread \in Working /\ thread # Idle /\ thread.conn \in Connections
        /\ thread' \in Working /\ thread' # Idle /\ thread'.conn = thread.conn
    BY <1>8, WorkIsNotIdle, GotoStaysAtWork DEF ServerInv, TypeOK, Working, AuditFails
  <2>2. Begun' = Begun /\ Removals' = Removals
    BY <1>8 DEF Begun, Removals, AuditFails, SameTables, Complete
  <2>3. Unexplained' \subseteq Unexplained \cup {thread.conn}
    BY <1>8, <2>1 DEF Unexplained, AuditFails, SameTables, Complete, Exists
  <2>4. CASE Exists(Current.userId)
    BY <1>8, <2>2, <2>3, <2>4, CountAfterFault DEF AuditFails, Fault
  <2>5. CASE ~Exists(Current.userId)
    <3>1. Unexplained' \subseteq Unexplained
      BY <1>8, <2>1, <2>3, <2>5 DEF Unexplained, AuditFails, SameTables, Exists, Current
    <3>2. faults' >= faults
      BY <1>8, <2>5, ServerBoundAssumption DEF AuditFails, ServerInv, TypeOK
    <3> QED
      BY <2>2, <3>1, <3>2, CountIsKept
  <2> QED
    BY <2>4, <2>5
<1>9. CASE Callback
  <2>1. Begun' \subseteq Begun \cup {thread.conn} /\ Removals \subseteq Removals' /\ faults' >= faults
    BY <1>9, ServerBoundAssumption
       DEF Begun, Removals, Callback, SameTables, Complete, ServerInv, TypeOK
  <2>2. Unexplained' \subseteq Unexplained
    BY <1>9 DEF Unexplained, Callback, SameTables, Complete, Exists
  <2> QED
    BY <2>1, <2>2, CountIsKept
<1>10. CASE Crash
  <2>1. Begun' \subseteq Begun /\ Removals' = Removals /\ faults' = faults + 1
    BY <1>10 DEF Begun, Removals, Crash, SameTables, Complete, Fault, ServerInv, TypeOK
  <2>2. Unexplained' \subseteq Unexplained \cup {thread.conn}
    BY <1>10 DEF Unexplained, Crash, SameTables, Complete, Exists
  <2> QED
    BY <2>1, <2>2, CountAfterFault
<1>11. CASE UNCHANGED vars
  BY <1>11 DEF vars, EntriesAreAccountedFor, Begun, Unexplained, Removals, Complete, Exists
<1> QED
  BY <1>1, <1>2, <1>3, <1>4, <1>5, <1>6, <1>7, <1>8, <1>9, <1>10, <1>11
     DEF Next, ServerStep, ClientStep

\* Each missing audit entry has a cause of its own.
THEOREM MissingEntriesStayExplained == Spec => []MissingEntriesHaveCauses
<1>1. Init => EntriesAreAccountedFor
  <2> SUFFICES ASSUME Init
               PROVE  EntriesAreAccountedFor
    OBVIOUS
  <2>1. Begun = {} /\ Unexplained = {} /\ Removals = {} /\ faults = 0
    BY DEF Init, Begun, Unexplained, Removals, NotRead
  <2> QED
    BY <2>1, FS_EmptySet DEF EntriesAreAccountedFor
<1>2. ServerInv /\ EntriesAreAccountedFor => MissingEntriesHaveCauses
  <2> SUFFICES ASSUME ServerInv, EntriesAreAccountedFor
               PROVE  MissingEntriesHaveCauses
    OBVIOUS
  <2> DEFINE Nameless == {c \in Unaudited : ~Exists(request[c].userId)}
             Named_ == Unaudited \ Nameless
  <2>1. IsFiniteSet(Unaudited) /\ IsFiniteSet(Unexplained)
    BY CountedAreBegun, FS_Subset DEF EntriesAreAccountedFor
  <2>2. /\ IsFiniteSet(Nameless) /\ IsFiniteSet(Named_)
        /\ Cardinality(Named_) = Cardinality(Unaudited) - Cardinality(Nameless)
    <3>1. Nameless \subseteq Unaudited /\ Unaudited \cap Nameless = Nameless
      OBVIOUS
    <3>2. IsFiniteSet(Nameless)
      BY <2>1, <3>1, FS_Subset
    <3> QED
      BY <2>1, <3>1, <3>2, FS_Difference
  <2>3. Named_ \subseteq Unexplained
    BY DEF Unaudited, Unexplained
  <2>4. Cardinality(Named_) <= Cardinality(Unexplained)
    BY <2>1, <2>3, FS_Subset
  <2>5. /\ Cardinality(Unaudited) \in Nat /\ Cardinality(Nameless) \in Nat
        /\ Cardinality(Named_) \in Nat /\ Cardinality(Unexplained) \in Nat
    BY <2>1, <2>2, FS_CardinalityType
  <2>6. Cardinality(Removals) \in Nat /\ faults \in Nat
    BY CountedAreBegun, FS_Subset, FS_CardinalityType, ServerBoundAssumption
       DEF EntriesAreAccountedFor, ServerInv, TypeOK
  <2> HIDE DEF Nameless, Named_
  <2>7. Cardinality(Unaudited) <= faults + Cardinality(Nameless) + Cardinality(Removals)
    BY <2>2, <2>4, <2>5, <2>6 DEF EntriesAreAccountedFor
  <2> QED
    BY <2>7 DEF MissingEntriesHaveCauses, Nameless, Removals
<1> QED
  BY <1>1, <1>2, EntriesStayAccountedFor, ServerInvariance, PTL DEF Spec

-----------------------------------------------------------------------------
(* The server is a queue of requests.                                       *)

\* One who was taken from the front of a sequence and is put back.
LEMMA AtTheFront ==
  ASSUME NEW S, NEW c \in S, NEW s \in Seq(S)
  PROVE  /\ <<c>> \o s \in Seq(S) /\ <<c>> \o s # <<>>
         /\ Head(<<c>> \o s) = c /\ Tail(<<c>> \o s) = s
         /\ \A d \in S : Append(<<c>> \o s, d) = <<c>> \o Append(s, d)
<1> DEFINE q == <<c>> \o s
<1>1. <<c>> \in Seq(S) /\ Len(<<c>>) = 1 /\ <<c>>[1] = c
  OBVIOUS
<1>2. /\ q \in Seq(S) /\ Len(q) = 1 + Len(s)
      /\ \A i \in 1 .. 1 + Len(s) : q[i] = IF i <= 1 THEN c ELSE s[i - 1]
  BY <1>1, ConcatProperties
<1>3. \A d \in S : Append(q, d) = <<c>> \o Append(s, d)
  <2> TAKE d \in S
  <2>1. Append(q, d) = q \o <<d>> /\ Append(s, d) = s \o <<d>> /\ <<d>> \in Seq(S)
    BY <1>2, AppendIsConcat
  <2> QED
    BY <1>1, <2>1, ConcatAssociative
<1> HIDE DEF q
<1>4. q # <<>> /\ Head(q) = c
  BY <1>2
<1>5. /\ Tail(q) \in Seq(S) /\ Len(Tail(q)) = Len(s)
      /\ \A i \in 1 .. Len(s) : Tail(q)[i] = s[i]
  <2>1. /\ Tail(q) \in Seq(S) /\ Len(Tail(q)) = Len(q) - 1
        /\ \A i \in 1 .. Len(Tail(q)) : Tail(q)[i] = q[i + 1]
    BY <1>2, <1>4, HeadTailProperties
  <2>2. Len(s) \in Nat /\ Len(Tail(q)) = Len(s)
    BY <1>2, <2>1
  <2>3. ASSUME NEW i \in 1 .. Len(s) PROVE Tail(q)[i] = s[i]
    <3>1. i + 1 \in 1 .. 1 + Len(s) /\ ~(i + 1 <= 1) /\ (i + 1) - 1 = i
      BY <2>2
    <3> QED
      BY <1>2, <2>1, <2>2, <3>1
  <2> QED
    BY <2>1, <2>2, <2>3
<1>6. Tail(q) = s
  BY <1>5, SeqEqual
<1> QED
  BY <1>2, <1>3, <1>4, <1>6 DEF q

\* The abstract queue: what is read and not done, the request in hand in front.
LEMMA WaitingIsQueue ==
  ASSUME ServerInv
  PROVE  /\ thread = Idle => Waiting = ready
         /\ thread # Idle =>
              /\ thread.conn \in Connections /\ Waiting # <<>>
              /\ Head(Waiting) = thread.conn /\ Tail(Waiting) = ready
         /\ \A c \in Connections : Append(Waiting, c) =
              IF thread = Idle THEN Append(ready, c) ELSE <<thread.conn>> \o Append(ready, c)
         /\ Waiting # <<>> =>
              /\ Head(Waiting) \in Connections /\ request[Head(Waiting)] \in Request
              /\ answer[Head(Waiting)] = "none" /\ Effect[Head(Waiting)] = 0
<1>1. ready \in Seq(Connections) /\ thread \in Working \cup {Idle}
  BY DEF ServerInv, TypeOK
<1>2. CASE thread = Idle
  <2>1. Waiting = ready
    BY <1>2 DEF Waiting
  <2>2. ASSUME ready # <<>>
        PROVE  /\ Head(ready) \in Connections /\ request[Head(ready)] \in Request
               /\ answer[Head(ready)] = "none" /\ Effect[Head(ready)] = 0
    <3>1. Head(ready) \in Connections /\ Head(ready) = ready[1] /\ 1 \in 1 .. Len(ready)
      BY <1>1, <2>2, HeadTailProperties
    <3>2. link[Head(ready)] = "queued"
      BY <3>1 DEF ServerInv, QueueHoldsTheQueued
    <3> QED
      BY <1>2, <3>1, <3>2 DEF ServerInv, ReadMeansRequest, UnhandledLeavesNoTrace, Effect
  <2> QED
    BY <1>2, <2>1, <2>2
<1>3. CASE thread # Idle
  <2>1. thread.conn \in Connections
    BY <1>1, <1>3 DEF Working
  <2>2. Waiting = <<thread.conn>> \o ready
    BY <1>3 DEF Waiting
  <2>3. /\ Waiting # <<>> /\ Head(Waiting) = thread.conn /\ Tail(Waiting) = ready
        /\ \A c \in Connections : Append(Waiting, c) = <<thread.conn>> \o Append(ready, c)
    BY <1>1, <2>1, <2>2, AtTheFront
  <2>4. request[thread.conn] \in Request /\ answer[thread.conn] = "none"
    BY <1>3 DEF ServerInv, WorkUnderWay
  <2>5. Effect[thread.conn] = 0
    BY <1>3, <2>1 DEF Effect
  <2> QED
    BY <1>3, <2>1, <2>3, <2>4, <2>5
<1> QED
  BY <1>2, <1>3

\* Where the thread is in executeTask, and what is written there, is not seen.
LEMMA WorkIsUnseen ==
  ASSUME ServerInv, thread # Idle, thread' # Idle, thread'.conn = thread.conn,
         UNCHANGED <<request, ready, answer>>,
         \A c \in Connections : c # thread.conn => written'[c] = written[c]
  PROVE  UNCHANGED Queue!vars
<1>1. Waiting' = Waiting
  BY DEF Waiting
<1>2. Effect' = Effect
  BY DEF Effect
<1> QED
  BY <1>1, <1>2 DEF Queue!vars

LEMMA ReceiveAsks ==
  ASSUME ServerInv, NEW c \in Connections, NEW r \in Request, Receive(c, r)
  PROVE  Queue!Next
<1>1. /\ request[c] = NotRead /\ request' = [request EXCEPT ![c] = r]
      /\ ready' = Append(ready, c) /\ UNCHANGED <<thread, answer, written>>
  BY DEF ServerInv, ReadMeansRequest, Receive, SameTables
<1>2. Waiting' = Append(Waiting, c)
  <2>1. CASE thread = Idle
    BY <1>1, <2>1 DEF Waiting
  <2>2. CASE thread # Idle
    BY <1>1, <2>2, WaitingIsQueue DEF Waiting
  <2> QED
    BY <2>1, <2>2
<1>3. Effect' = Effect
  BY <1>1 DEF Effect
<1>4. Queue!Ask(c, r)
  BY <1>1, <1>2, <1>3 DEF Queue!Ask
<1> QED
  BY <1>4 DEF Queue!Next

\* A request that is handed to executeTask stays in front of the queue; one that
\* is dropped is done.
LEMMA HandleRequestTakesTheFirst ==
  ASSUME ServerInv, HandleRequest
  PROVE  Queue!Next \/ UNCHANGED Queue!vars
<1> DEFINE c == Head(ready)
<1>1. /\ thread = Idle /\ ready # <<>> /\ ready' = Tail(ready)
      /\ UNCHANGED <<request, answer, written>>
      /\ \/ request[c].kind = "badPath" /\ UNCHANGED thread
         \/ thread' = [at |-> "callback", conn |-> c, outcome |-> "error"]
         \/ thread' = [at |-> "module", conn |-> c, outcome |-> "ok"]
  BY DEF HandleRequest, SameTables
<1>2. /\ Waiting = ready /\ c \in Connections /\ request[c] \in Request
      /\ answer[c] = "none" /\ Effect[c] = 0
  BY <1>1, WaitingIsQueue
<1>3. /\ answer \in [Connections -> {"none", "ok", "error"}] /\ Effect \in [Connections -> Nat]
      /\ ready \in Seq(Connections)
  BY DEF ServerInv, TypeOK, Effect
<1>4. Effect[c] = written[c]
  BY <1>1, <1>2 DEF Effect
<1>5. CASE request[c].kind = "badPath" /\ UNCHANGED thread
  <2>1. Waiting' = Tail(Waiting) /\ Effect' = Effect
    BY <1>1, <1>2, <1>5 DEF Waiting, Effect
  <2>2. request[c].statements \in Nat
    BY <1>2, ServerBoundAssumption DEF Request, Mutation, LogRequest, OtherRequest
  <2>3. Effect' = [Effect EXCEPT ![c] = 0] /\ answer' = [answer EXCEPT ![c] = "none"]
    BY <1>1, <1>2, <1>3, <2>1
  <2>4. Queue!Leave(0, "none")
    <3>1. Head(Waiting) = c /\ 0 \in 0 .. request[c].statements /\ request' = request
      BY <1>1, <1>2, <2>2
    <3> QED
      BY <2>3, <3>1, Zenon DEF Queue!Leave
  <2>5. Queue!Do
    BY <1>1, <1>2, <2>1, <2>4 DEF Queue!Do
  <2> QED
    BY <2>5 DEF Queue!Next
<1>6. CASE \/ thread' = [at |-> "callback", conn |-> c, outcome |-> "error"]
           \/ thread' = [at |-> "module", conn |-> c, outcome |-> "ok"]
  <2>1. thread' # Idle /\ thread'.conn = c
    BY <1>6 DEF Idle
  <2>2. Waiting' = Waiting
    <3>1. Waiting' = <<c>> \o Tail(ready)
      BY <1>1, <2>1 DEF Waiting
    <3>2. ready = <<c>> \o Tail(ready)
      BY <1>1, <1>3
    <3> QED
      BY <1>2, <3>1, <3>2
  <2>3. Effect' = Effect
    BY <1>1, <1>2, <1>4, <2>1 DEF Effect
  <2> QED
    BY <1>1, <2>2, <2>3 DEF Queue!vars
<1> QED
  BY <1>1, <1>5, <1>6

\* do_response is the moment at which a request is done.
LEMMA CallbackDoes ==
  ASSUME ServerInv, Callback
  PROVE  Queue!Next
<1> DEFINE c == thread.conn
           all == request[c].statements
<1>1. /\ thread.at = "callback" /\ thread' = Idle
      /\ answer' = [answer EXCEPT ![c] = thread.outcome]
      /\ UNCHANGED <<request, ready, written>>
  BY DEF Callback, SameTables
<1>2. thread # Idle /\ thread \in Working
  BY <1>1, WorkIsNotIdle DEF ServerInv, TypeOK
<1>3. c \in Connections /\ Waiting # <<>> /\ Head(Waiting) = c /\ Tail(Waiting) = ready
  BY <1>2, WaitingIsQueue
<1>4. /\ written \in [Connections -> Nat] /\ written[c] <= all
      /\ IF thread.outcome = "ok" THEN written[c] = all ELSE all > 0 => written[c] # all
  BY <1>1, <1>2, <1>3 DEF ServerInv, TypeOK, WorkUnderWay, Complete
<1>5. all \in Nat
  BY <1>2, ServerBoundAssumption
     DEF ServerInv, WorkUnderWay, Request, Mutation, LogRequest, OtherRequest
<1>6. Effect' = [Effect EXCEPT ![c] = written[c]]
  BY <1>1, <1>2, <1>3 DEF Effect
<1>7. Waiting' = Tail(Waiting)
  BY <1>1, <1>3 DEF Waiting
<1>8. thread.outcome \in {"ok", "error"}
  BY <1>2 DEF Working
<1>9. Queue!Leave(written[c], thread.outcome)
  <2>1. written[c] \in 0 .. all /\ request' = request
    BY <1>1, <1>3, <1>4, <1>5
  <2> QED
    BY <1>1, <1>3, <1>6, <2>1, Zenon DEF Queue!Leave
<1>10. Queue!Do
  <2>1. CASE thread.outcome = "ok"
    BY <1>3, <1>4, <1>7, <1>9, <2>1 DEF Queue!Do
  <2>2. CASE thread.outcome = "error"
    <3>1. written[c] \in 0 .. all /\ (written[c] < all \/ all = 0)
      BY <1>3, <1>4, <1>5, <2>2
    <3> QED
      BY <1>3, <1>7, <1>9, <2>2, <3>1 DEF Queue!Do
  <2> QED
    BY <1>8, <2>1, <2>2
<1> QED
  BY <1>10 DEF Queue!Next

\* A crash leaves what the request in hand has written, and nothing of the others.
LEMMA CrashStops ==
  ASSUME ServerInv, Crash
  PROVE  Queue!Next \/ UNCHANGED Queue!vars
<1>1. ready' = <<>> /\ thread' = Idle /\ UNCHANGED <<request, answer, written>>
  BY DEF Crash, SameTables
<1>2. Waiting' = <<>>
  BY <1>1 DEF Waiting
<1>3. Effect' = written /\ written \in [Connections -> Nat] /\ Effect \in [Connections -> Nat]
      /\ answer \in [Connections -> {"none", "ok", "error"}]
  BY <1>1 DEF Effect, ServerInv, TypeOK
<1>4. CASE Waiting = <<>>
  <2>1. thread = Idle
    BY <1>4, WaitingIsQueue
  <2>2. Effect' = Effect
    BY <1>1, <2>1 DEF Effect
  <2> QED
    BY <1>1, <1>2, <1>4, <2>2 DEF Queue!vars
<1>5. CASE Waiting # <<>>
  <2> DEFINE c == Head(Waiting)
  <2>1. c \in Connections /\ request[c] \in Request /\ answer[c] = "none" /\ Effect[c] = 0
    BY <1>5, WaitingIsQueue
  <2>2. \A x \in Connections : x # c => Effect[x] = written[x]
    BY WaitingIsQueue DEF Effect
  <2>3. Effect' = [Effect EXCEPT ![c] = written[c]] /\ answer' = [answer EXCEPT ![c] = "none"]
    BY <1>1, <1>3, <2>1, <2>2
  <2>4. written[c] \in 0 .. request[c].statements
    <3>1. request[c].statements \in Nat
      BY <2>1, ServerBoundAssumption DEF Request, Mutation, LogRequest, OtherRequest
    <3>2. written[c] <= request[c].statements
      BY <2>1 DEF ServerInv, TypeOK
    <3> QED
      BY <1>3, <2>1, <3>1, <3>2
  <2>5. Queue!Leave(written[c], "none")
    BY <1>1, <2>3, <2>4 DEF Queue!Leave
  <2>6. Queue!Stop
    BY <1>2, <1>5, <2>4, <2>5 DEF Queue!Stop
  <2> QED
    BY <2>6 DEF Queue!Next
<1> QED
  BY <1>4, <1>5

LEMMA NextIsQueueNext ==
  ASSUME ServerInv, [Next]_vars
  PROVE  [Queue!Next]_(Queue!vars)
<1>1. CASE HandleRequest
  BY <1>1, HandleRequestTakesTheFirst
<1>2. CASE Callback
  BY <1>2, CallbackDoes
<1>3. CASE Crash
  BY <1>3, CrashStops
<1>4. ASSUME NEW c \in Connections, NEW r \in Request, Receive(c, r)
      PROVE  Queue!Next
  BY <1>4, ReceiveAsks
<1>5. ASSUME NEW c \in Connections, Accept(c) \/ HangUp(c) \/ Deliver(c)
      PROVE  UNCHANGED Queue!vars
  BY <1>5 DEF Accept, HangUp, Deliver, SameTables, Queue!vars, Waiting, Effect
<1>6. CASE Write
  <2>1. /\ thread # Idle /\ thread' = thread /\ UNCHANGED <<request, ready, answer>>
        /\ written' = [written EXCEPT ![thread.conn] = @ + 1]
    BY <1>6, WorkIsNotIdle DEF Write, ServerInv, TypeOK
  <2> QED
    BY <2>1, WorkIsUnseen DEF ServerInv, TypeOK
<1>7. CASE ModuleThrows \/ ModuleReturns \/ Audit \/ AuditFails
  <2>1. thread.at \in {"module", "audit", "callback"} /\ UNCHANGED <<request, ready, answer, written>>
    BY <1>7 DEF ModuleThrows, ModuleReturns, Audit, AuditFails, SameTables
  <2>2. PICK at \in {"module", "audit", "callback"}, outcome \in {"ok", "error"} : Goto(at, outcome)
    BY <1>7 DEF ModuleThrows, ModuleReturns, Audit, AuditFails
  <2>3. thread # Idle /\ thread \in Working \cup {Idle}
    BY <2>1, WorkIsNotIdle DEF ServerInv, TypeOK
  <2>4. thread' # Idle /\ thread'.conn = thread.conn
    BY <2>2, <2>3, GotoStaysAtWork
  <2> QED
    BY <2>1, <2>3, <2>4, WorkIsUnseen
<1>8. CASE UNCHANGED vars
  BY <1>8 DEF vars, Queue!vars, Waiting, Effect
<1> QED
  BY <1>1, <1>2, <1>3, <1>4, <1>5, <1>6, <1>7, <1>8 DEF Next, ServerStep, ClientStep

\* The server implements the queue: requests are done one at a time in the order
\* handle_request is called, each once, and "ok" means to the end.
THEOREM QueueImplemented == Spec => ImplementsQueue
<1>1. Init => Queue!Init
  BY DEF Init, Queue!Init, Waiting, Effect
<1>2. ServerInv /\ [Next]_vars => [Queue!Next]_(Queue!vars)
  BY NextIsQueueNext
<1> QED
  BY <1>1, <1>2, ServerInvariance, PTL DEF Spec, ImplementsQueue, Queue!Spec
-----------------------------------------------------------------------------
(* What RequestsEnd rests on.                                               *)

\* The thread at one of its steps: where it was and where it goes.
LEMMA WorkSteps ==
  ASSUME ServerInv, ServerStep, ~HandleRequest
  PROVE  /\ thread \in Working /\ thread # Idle /\ thread.conn \in Connections
         /\ UNCHANGED <<request, ready>>
         /\ \/ Write /\ thread' = thread /\ UNCHANGED link
            \/ /\ ModuleThrows \/ ModuleReturns \/ Audit \/ AuditFails
               /\ thread' \in Working /\ thread' # Idle /\ thread'.conn = thread.conn
               /\ UNCHANGED <<link, written>>
            \/ Callback /\ thread' = Idle /\ link' = [link EXCEPT ![thread.conn] = "sending"]
<1>0. thread \in Working \cup {Idle}
  BY DEF ServerInv, TypeOK
<1>1. thread.at \in {"module", "audit", "callback"}
  BY DEF ServerStep, Write, ModuleThrows, ModuleReturns, Audit, AuditFails, Callback
<1>2. thread \in Working /\ thread # Idle /\ thread.conn \in Connections
  BY <1>0, <1>1, WorkIsNotIdle DEF Working
<1>3. CASE Write
  BY <1>2, <1>3 DEF Write
<1>4. CASE ModuleThrows \/ ModuleReturns \/ Audit \/ AuditFails
  <2>1. UNCHANGED <<request, ready, link, written>>
    BY <1>4 DEF ModuleThrows, ModuleReturns, Audit, AuditFails, SameTables
  <2>2. PICK at \in {"module", "audit", "callback"}, outcome \in {"ok", "error"} : Goto(at, outcome)
    BY <1>4 DEF ModuleThrows, ModuleReturns, Audit, AuditFails
  <2>3. thread' \in Working /\ thread' # Idle /\ thread'.conn = thread.conn
    BY <1>0, <1>2, <2>2, GotoStaysAtWork
  <2> QED
    BY <1>2, <1>4, <2>1, <2>3
<1>5. CASE Callback
  BY <1>2, <1>5 DEF Callback
<1> QED
  BY <1>3, <1>4, <1>5 DEF ServerStep

\* One who waits in a sequence keeps his place when another joins it, and is one
\* place nearer when another is taken from its front.
LEMMA PlacesMoveUp ==
  ASSUME NEW S, NEW s \in Seq(S), NEW i \in 1 .. Len(s)
  PROVE  /\ \A d \in S : i \in 1 .. Len(Append(s, d)) /\ Append(s, d)[i] = s[i]
         /\ s # <<>>
         /\ s[i] # Head(s) => i - 1 \in 1 .. Len(Tail(s)) /\ Tail(s)[i - 1] = s[i]
<1>1. \A d \in S : i \in 1 .. Len(Append(s, d)) /\ Append(s, d)[i] = s[i]
  BY AppendProperties
<1>2. s # <<>> /\ Head(s) = s[1] /\ Len(Tail(s)) = Len(s) - 1
      /\ \A j \in 1 .. Len(Tail(s)) : Tail(s)[j] = s[j + 1]
  <2>1. s # <<>>
    BY EmptySeq
  <2> QED
    BY <2>1, HeadTailProperties
<1>3. ASSUME s[i] # Head(s)
      PROVE  i - 1 \in 1 .. Len(Tail(s)) /\ Tail(s)[i - 1] = s[i]
  <2>1. i # 1
    BY <1>2, <1>3
  <2>2. i - 1 \in 1 .. Len(Tail(s)) /\ (i - 1) + 1 = i
    BY <1>2, <2>1
  <2> QED
    BY <1>2, <2>2
<1> QED
  BY <1>1, <1>2, <1>3

\* Who joins a queue stands in it.
LEMMA LastIsIn ==
  ASSUME NEW S, NEW s \in Seq(S), NEW d \in S
  PROVE  Len(s) + 1 \in 1 .. Len(Append(s, d)) /\ Append(s, d)[Len(s) + 1] = d
BY AppendProperties

LEMMA NothingGetsLost ==
  ASSUME ServerInv, NothingIsLost, [Next]_vars
  PROVE  NothingIsLost'
<1>0. ready \in Seq(Connections)
  BY DEF ServerInv, TypeOK
<1>1. CASE HandleRequest
  <2>1. /\ thread = Idle /\ ready # <<>> /\ ready' = Tail(ready)
        /\ thread' = Idle \/ thread'.conn = Head(ready)
    BY <1>1 DEF HandleRequest
  <2>2. \/ link' = [link EXCEPT ![Head(ready)] = "closed"]
        \/ link' = [link EXCEPT ![Head(ready)] = "handled"] /\ thread' # Idle
    BY <1>1 DEF HandleRequest, Idle
  <2>3. Head(ready) \in Connections
    BY <1>0, <2>1, HeadTailProperties
  <2>4. ASSUME NEW c \in Connections, link'[c] = "queued"
        PROVE  \E i \in 1 .. Len(ready') : ready'[i] = c
    <3>1. c # Head(ready) /\ link[c] = "queued"
      BY <2>2, <2>3, <2>4 DEF ServerInv, TypeOK
    <3>2. PICK i \in 1 .. Len(ready) : ready[i] = c
      BY <3>1 DEF NothingIsLost
    <3>3. i - 1 \in 1 .. Len(Tail(ready)) /\ Tail(ready)[i - 1] = c
      BY <1>0, <3>1, <3>2, PlacesMoveUp
    <3> QED
      BY <2>1, <3>3
  <2>5. ASSUME NEW c \in Connections, link'[c] = "handled"
        PROVE  thread' # Idle /\ thread'.conn = c
    <3>1. link[c] # "handled"
      BY <2>1 DEF NothingIsLost
    <3>2. c = Head(ready) /\ thread' # Idle
      BY <2>2, <2>3, <2>5, <3>1 DEF ServerInv, TypeOK
    <3> QED
      BY <2>1, <3>2
  <2> QED
    BY <2>4, <2>5 DEF NothingIsLost
<1>2. CASE ServerStep /\ ~HandleRequest
  BY <1>2, WorkSteps DEF ServerInv, TypeOK, NothingIsLost
<1>3. ASSUME NEW c \in Connections, NEW r \in Request, Receive(c, r)
      PROVE  NothingIsLost'
  <2>1. /\ ready' = Append(ready, c) /\ UNCHANGED thread
        /\ link' = [link EXCEPT ![c] = "queued"] /\ link \in [Connections -> Phase]
    BY <1>3 DEF Receive, ServerInv, TypeOK
  <2>2. ASSUME NEW d \in Connections, link'[d] = "queued"
        PROVE  \E i \in 1 .. Len(ready') : ready'[i] = d
    <3>1. CASE d = c
      BY <1>0, <2>1, <3>1, LastIsIn
    <3>2. CASE d # c
      <4>1. PICK i \in 1 .. Len(ready) : ready[i] = d
        BY <2>1, <2>2, <3>2 DEF NothingIsLost
      <4> QED
        BY <1>0, <2>1, <4>1, PlacesMoveUp
    <3> QED
      BY <3>1, <3>2
  <2>3. ASSUME NEW d \in Connections, link'[d] = "handled"
        PROVE  thread' # Idle /\ thread'.conn = d
    BY <2>1, <2>3 DEF NothingIsLost
  <2> QED
    BY <2>2, <2>3 DEF NothingIsLost
<1>4. ASSUME NEW c \in Connections, Accept(c) \/ HangUp(c) \/ Deliver(c)
      PROVE  NothingIsLost'
  BY <1>4 DEF Accept, HangUp, Deliver, ServerInv, TypeOK, NothingIsLost
<1>5. CASE Crash
  BY <1>5 DEF Crash, NothingIsLost
<1>6. CASE UNCHANGED vars
  BY <1>6 DEF vars, NothingIsLost
<1> QED
  BY <1>1, <1>2, <1>3, <1>4, <1>5, <1>6 DEF Next, ServerStep, ClientStep

\* A request that was read is in the queue or in the thread's hands until it is
\* answered or its connection is closed.
THEOREM NoRequestIsLost == Spec => []NothingIsLost
<1>1. Init => NothingIsLost
  BY DEF Init, NothingIsLost
<1>2. ServerInv /\ NothingIsLost /\ [Next]_vars => NothingIsLost'
  BY NothingGetsLost
<1> QED
  BY <1>1, <1>2, ServerInvariance, PTL DEF Spec

LEMMA WorkLeftCounts ==
  ASSUME ServerInv, thread # Idle
  PROVE  /\ Current.statements - written[thread.conn] \in Nat
         /\ Current.statements \in Nat /\ written[thread.conn] \in Nat
         /\ WorkLeft \in Nat /\ 1 <= WorkLeft
<1>1. /\ thread.conn \in Connections /\ Current \in Request
      /\ written[thread.conn] \in Nat /\ written[thread.conn] <= Current.statements
  BY WorkIsNotIdle DEF ServerInv, TypeOK, WorkUnderWay, Working, Current
<1>2. Current.statements \in Nat
  BY <1>1, ServerBoundAssumption DEF Request, Mutation, LogRequest, OtherRequest
<1>3. Current.statements - written[thread.conn] \in Nat
  BY <1>1, <1>2
<1> QED
  BY <1>1, <1>2, <1>3 DEF WorkLeft

LEMMA WorkGetsLess ==
  ASSUME ServerInv, thread # Idle, ServerStep
  PROVE  WorkLeft' < WorkLeft
<1> DEFINE left == Current.statements - written[thread.conn]
<1>0. ~HandleRequest
  BY DEF HandleRequest
<1>1. left \in Nat /\ thread \in Working /\ thread.conn \in Connections
  BY <1>0, WorkSteps, WorkLeftCounts
<1>2. CASE Write
  <2>1. /\ thread' = thread /\ request' = request /\ thread.at = "module"
        /\ written'[thread.conn] = written[thread.conn] + 1
    BY <1>1, <1>2 DEF Write, ServerInv, TypeOK
  <2>2. WorkLeft' = (Current.statements - (written[thread.conn] + 1)) + 3
    BY <2>1 DEF WorkLeft, Current
  <2>3. WorkLeft = (Current.statements - written[thread.conn]) + 3
    BY <2>1 DEF WorkLeft
  <2> QED
    BY <2>2, <2>3, WorkLeftCounts
<1>3. CASE ModuleThrows
  <2>1. thread.at = "module" /\ thread'.at = "callback" /\ thread' # Idle
    BY <1>1, <1>3, GotoStaysAtWork DEF ModuleThrows
  <2>2. WorkLeft = left + 3 /\ WorkLeft' = 1
    BY <2>1 DEF WorkLeft
  <2> QED
    BY <1>1, <2>2
<1>4. CASE ModuleReturns
  <2>1. thread.at = "module" /\ thread'.at \in {"audit", "callback"} /\ thread' # Idle
    BY <1>1, <1>4, GotoStaysAtWork DEF ModuleReturns
  <2>2. WorkLeft = left + 3 /\ WorkLeft' \in {1, 2}
    BY <2>1 DEF WorkLeft
  <2> QED
    BY <1>1, <2>2
<1>5. CASE Audit \/ AuditFails
  <2>1. thread.at = "audit" /\ thread'.at = "callback" /\ thread' # Idle
    BY <1>1, <1>5, GotoStaysAtWork DEF Audit, AuditFails
  <2>2. WorkLeft = 2 /\ WorkLeft' = 1
    BY <2>1 DEF WorkLeft
  <2> QED
    BY <2>2
<1>6. CASE Callback
  <2>1. WorkLeft' = 0
    BY <1>6 DEF Callback, WorkLeft
  <2> QED
    BY <2>1, WorkLeftCounts
<1> QED
  BY <1>0, <1>2, <1>3, <1>4, <1>5, <1>6 DEF ServerStep

\* Nobody but the thread has to do with the request in its hands.
LEMMA WorkIsUndisturbed ==
  ASSUME ServerInv, thread # Idle, ~ServerStep, [Next]_vars
  PROVE  WorkLeft' = WorkLeft \/ WorkLeft' = 0
<1>1. thread.conn \in Connections /\ link[thread.conn] = "handled"
  BY WorkIsNotIdle DEF ServerInv, TypeOK, WorkUnderWay, Working
<1>2. ASSUME NEW c \in Connections, NEW r \in Request, Receive(c, r)
      PROVE  WorkLeft' = WorkLeft
  <2>1. c # thread.conn
    BY <1>1, <1>2 DEF Receive
  <2>2. UNCHANGED <<thread, written>> /\ request'[thread.conn] = request[thread.conn]
    BY <1>1, <1>2, <2>1 DEF Receive, SameTables, ServerInv, TypeOK
  <2> QED
    BY <2>2 DEF WorkLeft, Current
<1>3. ASSUME NEW c \in Connections, Accept(c) \/ HangUp(c) \/ Deliver(c)
      PROVE  WorkLeft' = WorkLeft
  BY <1>3 DEF Accept, HangUp, Deliver, SameTables, WorkLeft, Current
<1>4. CASE Crash
  BY <1>4 DEF Crash, WorkLeft
<1>5. CASE UNCHANGED vars
  BY <1>5 DEF vars, WorkLeft, Current
<1> QED
  BY <1>2, <1>3, <1>4, <1>5 DEF Next, ClientStep

\* executeTask comes to its callback: each step of the thread brings it nearer,
\* and no client sets it back.
THEOREM WorkComesToAnEnd == Spec => WorkDescends
<1> DEFINE Descend ==
      thread # Idle => (ServerStep => WorkLeft' < WorkLeft) /\ WorkLeft' <= WorkLeft
<1>1. ServerInv /\ ServerInv' /\ [Next]_vars => [Descend]_vars
  <2> SUFFICES ASSUME ServerInv, ServerInv', [Next]_vars, thread # Idle
               PROVE  (ServerStep => WorkLeft' < WorkLeft) /\ WorkLeft' <= WorkLeft
    OBVIOUS
  <2>1. WorkLeft \in Nat /\ 1 <= WorkLeft
    BY WorkLeftCounts
  <2>2. CASE ServerStep
    <3>1. WorkLeft' < WorkLeft
      BY <2>2, WorkGetsLess
    <3>2. WorkLeft' \in Nat
      <4>1. CASE thread' = Idle
        BY <4>1 DEF WorkLeft
      <4>2. CASE thread' # Idle
        <5>1. /\ thread'.conn \in Connections /\ request'[thread'.conn] \in Request
              /\ written'[thread'.conn] \in Nat
              /\ written'[thread'.conn] <= request'[thread'.conn].statements
          BY <4>2 DEF ServerInv, TypeOK, WorkUnderWay, Working
        <5>2. request'[thread'.conn].statements \in Nat
          BY <5>1, ServerBoundAssumption DEF Request, Mutation, LogRequest, OtherRequest
        <5>3. request'[thread'.conn].statements - written'[thread'.conn] \in Nat
          BY <5>1, <5>2
        <5> QED
          BY <4>2, <5>3 DEF WorkLeft, Current
      <4> QED
        BY <4>1, <4>2
    <3> QED
      BY <2>1, <3>1, <3>2
  <2>3. CASE ~ServerStep
    BY <2>1, <2>3, WorkIsUndisturbed
  <2> QED
    BY <2>2, <2>3
<1> HIDE DEF Descend
<1>2. Spec => [][Descend]_vars
  BY <1>1, ServerInvariance, PTL DEF Spec
<1> QED
  BY <1>2 DEF Descend, WorkDescends

\* In a sequence that holds everyone once there is one place to be found at.
LEMMA OnlyPlace ==
  ASSUME NEW s, NEW i \in 1 .. Len(s), \A j, k \in 1 .. Len(s) : s[j] = s[k] => j = k
  PROVE  (CHOOSE j \in 1 .. Len(s) : s[j] = s[i]) = i
OBVIOUS

\* A request that waits keeps its place whoever comes, and each handler that is
\* called brings it one place nearer: nobody overtakes it.
THEOREM NobodyIsOvertaken == Spec => QueueMovesUp
<1> DEFINE MovesUp ==
      \A c \in Connections :
        link[c] = "queued" /\ link'[c] = "queued" =>
          Place(c)' = IF HandleRequest THEN Place(c) - 1 ELSE Place(c)
<1>1. ServerInv /\ NothingIsLost /\ ServerInv' /\ [Next]_vars => [MovesUp]_vars
  <2> SUFFICES ASSUME ServerInv, NothingIsLost, ServerInv', [Next]_vars, NEW c \in Connections,
                      link[c] = "queued", link'[c] = "queued"
               PROVE  Place(c)' = IF HandleRequest THEN Place(c) - 1 ELSE Place(c)
    OBVIOUS
  <2>1. ready \in Seq(Connections)
    BY DEF ServerInv, TypeOK
  <2>2. PICK i \in 1 .. Len(ready) : ready[i] = c
    BY DEF NothingIsLost
  <2>3. Place(c) = i
    BY <2>2, OnlyPlace DEF Place, ServerInv, QueueHoldsTheQueued
  <2>4. ASSUME NEW k \in 1 .. Len(ready'), ready'[k] = c
        PROVE  Place(c)' = k
    BY <2>4, OnlyPlace DEF Place, ServerInv, QueueHoldsTheQueued
  <2>5. CASE HandleRequest
    <3>1. Head(ready) \in Connections
      BY <2>1, <2>5, HeadTailProperties DEF HandleRequest
    <3>2. c # Head(ready) /\ ready' = Tail(ready)
      BY <2>5, <3>1 DEF HandleRequest, ServerInv, TypeOK
    <3>3. i - 1 \in 1 .. Len(ready') /\ ready'[i - 1] = c
      BY <2>1, <2>2, <3>2, PlacesMoveUp
    <3> QED
      BY <2>3, <2>4, <2>5, <3>3
  <2>6. CASE ~HandleRequest
    <3>1. CASE ready' = ready
      BY <2>2, <2>3, <2>4, <2>6, <3>1
    <3>2. ASSUME NEW d \in Connections, NEW r \in Request, Receive(d, r)
          PROVE  Place(c)' = i
      <4>1. ready' = Append(ready, d)
        BY <3>2 DEF Receive
      <4>2. i \in 1 .. Len(ready') /\ ready'[i] = c
        BY <2>1, <2>2, <4>1, PlacesMoveUp
      <4> QED
        BY <2>4, <4>2
    <3>3. ~Crash
      BY DEF Crash
    <3>4. CASE ServerStep
      BY <2>6, <3>1, <3>4, WorkSteps
    <3>5. ASSUME NEW d \in Connections, Accept(d) \/ HangUp(d) \/ Deliver(d)
          PROVE  ready' = ready
      BY <3>5 DEF Accept, HangUp, Deliver
    <3>6. CASE UNCHANGED vars
      BY <3>1, <3>6 DEF vars
    <3> QED
      BY <2>3, <2>6, <3>1, <3>2, <3>3, <3>4, <3>5, <3>6 DEF Next, ClientStep
  <2> QED
    BY <2>5, <2>6
<1> HIDE DEF MovesUp
<1>2. Spec => [][MovesUp]_vars
  BY <1>1, ServerInvariance, NoRequestIsLost, PTL DEF Spec
<1> QED
  BY <1>2 DEF MovesUp, QueueMovesUp
=============================================================================
