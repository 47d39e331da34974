-------------------------- MODULE DatabaseStartup --------------------------
(***************************************************************************)
(* How server processes come up on one database file: main builds the      *)
(* RepositoryManager, which opens the file and, if there was none before,  *)
(* runs scripts/create_db.sql, and then binds its port and serves.  What   *)
(* open() returns is not looked at.                                        *)
(*                                                                         *)
(* The script is run by one sqlite3_exec, outside a transaction: each of   *)
(* its statements commits by itself, another process may come in between,  *)
(* and the first that fails ends it.  Nothing keeps two processes from     *)
(* being started on one file.                                              *)
(***************************************************************************)
EXTENDS Naturals, FiniteSets

CONSTANTS
  Servers,    \* server processes that may be started
  Ports,      \* ports they may be told to use
  Tables,     \* the script's first statements create this many tables
  Seeds,      \* the rest insert this many default rows
  Found,      \* how many of its statements there may be in the file it is read from
  MaxStarts,  \* bound: starts of all processes together
  MaxFaults   \* bound: failing SQLite calls

ASSUME ScriptAssumption ==
  Tables \in Nat \ {0} /\ Seeds \in Nat /\ Found \subseteq 0 .. (Tables + Seeds)
ASSUME StartBoundAssumption == MaxStarts \in Nat /\ MaxFaults \in Nat

VARIABLES
  exists,   \* the database file is there
  applied,  \* how often each statement of the script has taken effect on it
  pc,       \* how far each process has come
  existed,  \* fileExists of open(), by process
  read,     \* sqlCommands: how many statements of the script each process read
  step,     \* the statement of the script a process is at; 0 before the first
  opened,   \* what open() returned, by process
  port,     \* the port a serving process listens on
  starts, faults

vars == <<exists, applied, pc, existed, read, step, opened, port, starts, faults>>

Script == 1 .. (Tables + Seeds)

Complete == \A k \in Script : applied[k] > 0

Init ==
  /\ exists = FALSE
  /\ applied = [k \in Script |-> 0]
  /\ pc = [p \in Servers |-> "down"]
  /\ existed = [p \in Servers |-> FALSE]
  /\ read = [p \in Servers |-> 0]
  /\ step = [p \in Servers |-> 0]
  /\ opened = [p \in Servers |-> FALSE]
  /\ port \in [Servers -> Ports]
  /\ starts = 0
  /\ faults = 0

Fault == faults < MaxFaults /\ faults' = faults + 1

-----------------------------------------------------------------------------
(* open().                                                                  *)

\* open() is left with its result, and main goes on.
OpenReturns(p, result) ==
  /\ pc' = [pc EXCEPT ![p] = "binding"]
  /\ opened' = [opened EXCEPT ![p] = result]
  /\ step' = [step EXCEPT ![p] = 0]

\* Mutant: a start that looks for the tables, not for the file.
ProbeTables(p) ==
  /\ pc[p] = "down" /\ starts < MaxStarts
  /\ existed' = [existed EXCEPT ![p] = Complete]
  /\ pc' = [pc EXCEPT ![p] = "probed"]
  /\ starts' = starts + 1
  /\ UNCHANGED <<exists, applied, read, step, opened, port, faults>>

\* A process is started; std::filesystem::exists.
Probe(p) ==
  /\ pc[p] = "down" /\ starts < MaxStarts
  /\ existed' = [existed EXCEPT ![p] = exists]
  /\ pc' = [pc EXCEPT ![p] = "probed"]
  /\ starts' = starts + 1
  /\ UNCHANGED <<exists, applied, read, step, opened, port, faults>>

\* sqlite3_open creates the file if it is not there.
OpenFile(p) ==
  /\ pc[p] = "probed"
  /\ \/ /\ exists' = TRUE
        /\ pc' = [pc EXCEPT ![p] = "opened"]
        /\ UNCHANGED <<step, opened, faults>>
     \/ Fault /\ OpenReturns(p, FALSE) /\ UNCHANGED exists
  /\ UNCHANGED <<applied, existed, read, port, starts>>

\* Mutant: the script is run on whatever file has no whole schema.
EnableForeignKeysAndComplete(p) ==
  /\ pc[p] = "opened"
  /\ \/ Complete /\ OpenReturns(p, TRUE) /\ UNCHANGED faults
     \/ /\ ~Complete
        /\ pc' = [pc EXCEPT ![p] = "script"]
        /\ UNCHANGED <<step, opened, faults>>
     \/ Fault /\ OpenReturns(p, FALSE)
  /\ UNCHANGED <<exists, applied, existed, read, port, starts>>

\* PRAGMA foreign_keys, and the decision whether the script is to be run.
EnableForeignKeys(p) ==
  /\ pc[p] = "opened"
  /\ \/ existed[p] /\ OpenReturns(p, TRUE) /\ UNCHANGED faults
     \/ /\ ~existed[p]
        /\ pc' = [pc EXCEPT ![p] = "script"]
        /\ UNCHANGED <<step, opened, faults>>
     \/ Fault /\ OpenReturns(p, FALSE)
  /\ UNCHANGED <<exists, applied, existed, read, port, starts>>

\* initializeDatabaseSchema: the script may not be where the environment says. If it
\* is there, whatever is read of it is run: nobody asks if the stream was opened or
\* read to its end, and running nothing at all succeeds.
FindScript(p) ==
  /\ pc[p] = "script" /\ step[p] = 0
  /\ \/ \E n \in Found :
          /\ read' = [read EXCEPT ![p] = n]
          /\ IF n = 0
               THEN OpenReturns(p, TRUE)
               ELSE step' = [step EXCEPT ![p] = 1] /\ UNCHANGED <<pc, opened>>
     \/ OpenReturns(p, FALSE) /\ UNCHANGED read
  /\ UNCHANGED <<exists, applied, existed, port, starts, faults>>

\* Mutant: CREATE TABLE IF NOT EXISTS.
RunsTolerantly(k) == k > Tables => \A t \in 1 .. Tables : applied[t] > 0

\* A table is created once; a row needs its table and those it refers to.
Runs(k) ==
  IF k <= Tables THEN applied[k] = 0
  ELSE \A t \in 1 .. Tables : applied[t] > 0

\* Mutant: a script that stops is only logged.
StatementIgnoresErrors(p) ==
  /\ pc[p] = "script" /\ step[p] \in Script
  /\ \/ Runs(step[p]) /\ applied' = [applied EXCEPT ![step[p]] = @ + 1] /\ UNCHANGED faults
     \/ ~Runs(step[p]) /\ UNCHANGED <<applied, faults>>
     \/ Fault /\ UNCHANGED applied
  /\ IF step[p] < read[p]
       THEN step' = [step EXCEPT ![p] = @ + 1] /\ UNCHANGED <<pc, opened>>
       ELSE OpenReturns(p, TRUE)
  /\ UNCHANGED <<exists, existed, read, port, starts>>

\* The next of the statements that were read: it takes effect, or it fails and the
\* rest is not run.
Statement(p) ==
  /\ pc[p] = "script" /\ step[p] \in Script
  /\ \/ /\ Runs(step[p])
        /\ applied' = [applied EXCEPT ![step[p]] = @ + 1]
        /\ IF step[p] < read[p]
             THEN step' = [step EXCEPT ![p] = @ + 1] /\ UNCHANGED <<pc, opened>>
             ELSE OpenReturns(p, TRUE)
        /\ UNCHANGED faults
     \/ /\ IF Runs(step[p]) THEN Fault ELSE UNCHANGED faults
        /\ OpenReturns(p, FALSE)
        /\ UNCHANGED applied
  /\ UNCHANGED <<exists, existed, read, port, starts>>

-----------------------------------------------------------------------------
(* main after open().                                                       *)

\* Mutant: a server that waits for its port to become free.
BindWaits(p) ==
  /\ pc[p] = "binding"
  /\ \A s \in Servers : pc[s] = "serving" => port[s] # port[p]
  /\ pc' = [pc EXCEPT ![p] = "serving"]
  /\ UNCHANGED <<exists, applied, existed, read, step, opened, port, starts, faults>>

\* The acceptor is made: it throws if the port is taken, and the process ends.
Bind(p) ==
  /\ pc[p] = "binding"
  /\ IF \E s \in Servers : pc[s] = "serving" /\ port[s] = port[p]
       THEN pc' = [pc EXCEPT ![p] = "down"] /\ read' = [read EXCEPT ![p] = 0]
       ELSE pc' = [pc EXCEPT ![p] = "serving"] /\ UNCHANGED read
  /\ UNCHANGED <<exists, applied, existed, step, opened, port, starts, faults>>

\* The process ends, wherever it is.
Die(p) ==
  /\ pc[p] # "down"
  /\ pc' = [pc EXCEPT ![p] = "down"]
  /\ step' = [step EXCEPT ![p] = 0]
  /\ read' = [read EXCEPT ![p] = 0]
  /\ UNCHANGED <<exists, applied, existed, opened, port, starts, faults>>

-----------------------------------------------------------------------------
ComeUp(p) == OpenFile(p) \/ EnableForeignKeys(p) \/ FindScript(p) \/ Statement(p) \/ Bind(p)

Next == \E p \in Servers : Probe(p) \/ ComeUp(p) \/ Die(p)

Spec == Init /\ [][Next]_vars

\* A process that was started goes on.
FairSpec == Spec /\ \A p \in Servers : WF_vars(ComeUp(p))

-----------------------------------------------------------------------------
(* Properties.                                                              *)

\* Statements of the script have run at most the times a process could have run
\* them, and a process is at a statement only inside the script.
TypeOK ==
  /\ exists \in BOOLEAN
  /\ applied \in [Script -> Nat]
  /\ pc \in [Servers -> {"down", "probed", "opened", "script", "binding", "serving"}]
  /\ existed \in [Servers -> BOOLEAN]
  /\ read \in [Servers -> 0 .. (Tables + Seeds)]
  /\ step \in [Servers -> {0} \cup Script]
  /\ \A p \in Servers : step[p] # 0 => pc[p] = "script"
  /\ opened \in [Servers -> BOOLEAN]
  /\ port \in [Servers -> Ports]
  /\ starts \in 0 .. MaxStarts
  /\ faults \in 0 .. MaxFaults

\* However many processes find no file and run the script at the same time, no
\* default row is inserted twice, and what is there is a beginning of the
\* script: CREATE TABLE of the first table lets one of them through.
AppliedOnce ==
  /\ \A k \in Script : applied[k] <= 1
  /\ \A j, k \in Script : j < k /\ applied[k] = 1 => applied[j] = 1

\* A process that found no file and whose open() succeeded has in the file all it
\* read of the script, however many others run it beside it: a whole schema if it
\* read a whole script, and none if the script was empty or could not be read.
OpenedMeansApplied ==
  \A p \in Servers :
    pc[p] \in {"binding", "serving"} /\ opened[p] /\ ~existed[p]
      => \A k \in 1 .. read[p] : applied[k] > 0

\* The file is there without a whole schema, and nobody who found it missing is
\* still on the way.
Stuck ==
  /\ exists /\ ~Complete
  /\ \A p \in Servers : pc[p] \in {"probed", "opened", "script"} => existed[p]

\* A script that broke off leaves a file that no later start mends: once the
\* schema is stuck half-way it stays there, whoever is started on it.
NeverMended == [][Stuck => Stuck']_vars

\* A process that was started serves or has ended, whoever holds its port.
StartsEnd == \A p \in Servers : pc[p] = "probed" ~> pc[p] \in {"serving", "down"}

\* How far a process is at most from serving or having ended.
StepsLeft(p) ==
  CASE pc[p] = "probed" -> Tables + Seeds + 4
    [] pc[p] = "opened" -> Tables + Seeds + 3
    [] pc[p] = "script" -> (Tables + Seeds + 2) - step[p]
    [] pc[p] = "binding" -> 1
    [] OTHER -> 0

\* What StartsEnd rests on: each step of a process that comes up brings it nearer
\* to that, and nothing any other process does sets it back.
StartsDescend ==
  [][\A p \in Servers :
       /\ ComeUp(p) => StepsLeft(p)' < StepsLeft(p)
       /\ pc[p] # "down" => StepsLeft(p)' <= StepsLeft(p)]_vars

\* A server that answers its readiness probe with "ready" has a database: the
\* file was opened, foreign keys are on, every table is there.
ReadyMeansDatabase == \A p \in Servers : pc[p] = "serving" => opened[p] /\ Complete

-----------------------------------------------------------------------------
(* The abstraction.                                                         *)

\* Processes that found no file and are not done with open().
Candidates == {p \in Servers : pc[p] \in {"probed", "opened", "script"} /\ ~existed[p]}

\* Processes that are past the first statement of the script.
Authors == {p \in Servers : step[p] > 1}

File ==
  INSTANCE SchemaFile WITH
    Processes <- Servers, Length <- Tables + Seeds,
    there <- exists, candidates <- Candidates, author <- Authors, effects <- applied

\* Whatever dies or fails and however the processes overlap, the schema has one
\* author, who writes it from front to back, and no successor to an author that
\* gave up.
ImplementsSchemaFile == File!Spec

-----------------------------------------------------------------------------
(* The inductive invariant.                                                 *)

\* A process that opened the file, or found it, is not mistaken.
FileStays ==
  \A p \in Servers : existed[p] \/ pc[p] \in {"opened", "script"} => exists

\* One process at most is past the first statement, and the file holds exactly
\* what it has run.
OneInitialiser ==
  /\ \A p \in Servers : step[p] > 1 => \A k \in Script : applied[k] > 0 <=> k < step[p]
  /\ \A p, q \in Servers : step[p] > 1 /\ step[q] > 1 => p = q

\* Only a process that found no file runs the script.
OnlyNewRunScript == \A p \in Servers : pc[p] = "script" => ~existed[p]

StartupInv ==
  TypeOK /\ AppliedOnce /\ OneInitialiser /\ OnlyNewRunScript /\ OpenedMeansApplied
=============================================================================
