---------------------------- MODULE SchemaFile ----------------------------
(***************************************************************************)
(* What several processes make together of a database file that was not    *)
(* there: its schema has one author.  Every process that found no file may *)
(* become it, the first statement that takes effect decides which one does,*)
(* and only the author writes on, from the front of the script, to its end *)
(* or as far as it has the script.  An author that stops has no successor. *)
(***************************************************************************)
EXTENDS Naturals

CONSTANTS
  Processes,  \* may be started on the file
  Length      \* statements of the script

VARIABLES
  there,       \* there is a file
  candidates,  \* processes that found none and have not given up
  author,      \* the one that writes, once a statement has taken effect
  effects      \* how often each statement has taken effect

vars == <<there, candidates, author, effects>>

\* The first n statements have taken effect, each of them once.
FirstStatements(n) == [k \in 1 .. Length |-> IF k <= n THEN 1 ELSE 0]

Init ==
  /\ there = FALSE
  /\ candidates = {}
  /\ author = {}
  /\ effects = FirstStatements(0)

FindNoFile(p) ==
  /\ ~there
  /\ candidates' = candidates \cup {p}
  /\ UNCHANGED <<there, author, effects>>

Create ==
  /\ candidates # {}
  /\ there' = TRUE
  /\ UNCHANGED <<candidates, author, effects>>

\* The statement that follows the first n; it is the last the author writes when
\* the script ends there, or what the author has of it.
Write(p, n) ==
  /\ there /\ p \in candidates
  /\ effects = FirstStatements(n)
  /\ IF n = 0 THEN author = {} ELSE author = {p}
  /\ effects' = FirstStatements(n + 1)
  /\ \/ n + 1 < Length /\ author' = {p} /\ UNCHANGED candidates
     \/ author' = {} /\ candidates' = candidates \ {p}
  /\ UNCHANGED there

GiveUp(p) ==
  /\ p \in candidates
  /\ candidates' = candidates \ {p}
  /\ author' = author \ {p}
  /\ UNCHANGED <<there, effects>>

Next ==
  \/ Create
  \/ \E p \in Processes :
       FindNoFile(p) \/ GiveUp(p) \/ \E n \in 0 .. Length - 1 : Write(p, n)

Spec == Init /\ [][Next]_vars
=============================================================================
