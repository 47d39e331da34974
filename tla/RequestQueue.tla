---------------------------- MODULE RequestQueue ----------------------------
(***************************************************************************)
(* What the server promises about requests, with no thread, no connection  *)
(* and no module: they are done one at a time in the order they came, each *)
(* at one moment and never again; one that is answered "ok" is done to the *)
(* end. An error, or no answer, may leave a request done in part.          *)
(***************************************************************************)
EXTENDS Naturals, Sequences

CONSTANTS
  Client,   \* one request each
  Job,      \* what can be asked for, with the number of statements it takes
  NotRead   \* no request yet

VARIABLES
  request,  \* what each client asked for
  waiting,  \* the clients whose request is still to be done
  effect,   \* how many of its statements are done
  answer    \* what the client is told

vars == <<request, waiting, effect, answer>>

Init ==
  /\ request = [c \in Client |-> NotRead]
  /\ waiting = <<>>
  /\ effect = [c \in Client |-> 0]
  /\ answer = [c \in Client |-> "none"]

Ask(c, r) ==
  /\ request[c] = NotRead
  /\ request' = [request EXCEPT ![c] = r]
  /\ waiting' = Append(waiting, c)
  /\ UNCHANGED <<effect, answer>>

\* The first of those who wait is told a, with n statements of its request done.
Leave(n, a) ==
  LET c == Head(waiting)
  IN  /\ n \in 0 .. request[c].statements
      /\ effect' = [effect EXCEPT ![c] = n]
      /\ answer' = [answer EXCEPT ![c] = a]
      /\ UNCHANGED request

\* A request is done: to the end if the answer says so, in part or not at all if
\* it says that it failed, and not at all if there is no answer.
Do ==
  /\ waiting # <<>>
  /\ LET all == request[Head(waiting)].statements
     IN  \/ Leave(all, "ok")
         \/ \E n \in 0 .. all : (n < all \/ all = 0) /\ Leave(n, "error")
         \/ Leave(0, "none")
  /\ waiting' = Tail(waiting)

\* Nobody who waits is answered any more; the first request may have been begun
\* with, or done, the others were not.
Stop ==
  /\ waiting # <<>>
  /\ \E n \in 0 .. request[Head(waiting)].statements : Leave(n, "none")
  /\ waiting' = <<>>

Next == (\E c \in Client, r \in Job : Ask(c, r)) \/ Do \/ Stop

Spec == Init /\ [][Next]_vars
=============================================================================
