--------------------------- MODULE ClientSession ---------------------------
(***************************************************************************)
(* The session of one client: DialogManager with its login, registration   *)
(* and message dialogs over the main window, the requests they send and    *)
(* what UsersModule answers.  The dialogs are application modal, so the    *)
(* one shown last has the input; answers arrive whatever is shown.         *)
(***************************************************************************)
EXTENDS Integers, Sequences, SequencesExt

CONSTANTS
  Name, Password,   \* what is typed into the dialogs
  Admin, Default,   \* the account there at first, and UsersView's password for a new one
  MaxSent           \* bound: requests the client sends, in all

ASSUME ClientSessionAssumption ==
  /\ Admin \in Name
  /\ Default \in Password
  /\ MaxSent \in Nat

\* A password's text, as it is or as its digest.
Plain(p) == [form |-> "plain", of |-> p]
Hash(p) == [form |-> "sha256", of |-> p]
NoRole == "0"       \* the role RegistrationDialog sends; ids start at 1
Role == "1"
Dialog == {"login", "registration", "message"}

VARIABLES
  running,        \* the event loop runs
  authenticated,  \* m_isAuthenticated
  modal,          \* the modal dialogs shown, the one with the input last
  accounts,       \* the server's accounts: name -> the password's text as stored
  requests,       \* on their way to the server
  answers,        \* on their way back
  sent

vars == <<running, authenticated, modal, accounts, requests, answers, sent>>

Shown(d) == d \in ToSet(modal)
HasInput(d) == running /\ modal # <<>> /\ Last(modal) = d

\* A dialog is shown once: showing it again leaves it where it is.
Hide(s, d) == IF d \in ToSet(s) THEN RemoveAt(s, CHOOSE i \in DOMAIN s : s[i] = d) ELSE s
Show(s, d) == IF d \in ToSet(s) THEN s ELSE Append(s, d)

\* One message box: a second message takes the place of the one that is open.
showMessage(s) == Show(s, "message")

Init ==
  /\ running = TRUE /\ authenticated = FALSE
  /\ modal = <<"login">>
  /\ accounts \in [{Admin} -> {Hash(p) : p \in Password}]
  /\ requests = {} /\ answers = {} /\ sent = 0

Send(task, name, text, role) ==
  /\ sent < MaxSent
  /\ sent' = sent + 1
  /\ requests' = requests \cup
       {[id |-> sent, task |-> task, name |-> name, text |-> text, role |-> role]}

-----------------------------------------------------------------------------
(* What the user does.                                                      *)

\* The button stays enabled while a login is on its way.
Login(name, p) ==
  /\ HasInput("login")
  /\ Send("login", name, Hash(p), NoRole)
  /\ UNCHANGED <<running, authenticated, modal, accounts, answers>>

showRegistrationDialog ==
  /\ HasInput("login")
  /\ modal' = Show(Hide(modal, "login"), "registration")
  /\ UNCHANGED <<running, authenticated, accounts, requests, answers, sent>>

LoginRequested ==
  /\ HasInput("registration")
  /\ modal' = Show(Hide(modal, "registration"), "login")
  /\ UNCHANGED <<running, authenticated, accounts, requests, answers, sent>>

Register(name, p, confirmed) ==
  /\ HasInput("registration")
  /\ \/ /\ p = confirmed
        /\ Send("addUser", name, Hash(p), NoRole)
        /\ UNCHANGED modal
     \/ /\ p # confirmed
        /\ modal' = showMessage(modal)
        /\ UNCHANGED <<requests, sent>>
  /\ UNCHANGED <<running, authenticated, accounts, answers>>

\* Mutant: a cancelled login dialog ends the client, logged in or not.
LoginRejectedAlwaysQuits ==
  /\ HasInput("login")
  /\ modal' = Hide(modal, "login")
  /\ running' = FALSE
  /\ UNCHANGED <<authenticated, accounts, requests, answers, sent>>

\* loginCancelled is the application's quit.
LoginRejected ==
  /\ HasInput("login")
  /\ modal' = Hide(modal, "login")
  /\ running' = authenticated
  /\ UNCHANGED <<authenticated, accounts, requests, answers, sent>>

\* Mutant: a cancelled registration only closes its dialog.
RegistrationRejectedOnly ==
  /\ HasInput("registration")
  /\ modal' = Hide(modal, "registration")
  /\ UNCHANGED <<running, authenticated, accounts, requests, answers, sent>>

RegistrationRejected ==
  /\ HasInput("registration")
  /\ LET left == Hide(modal, "registration")
     IN  modal' = IF authenticated THEN left ELSE Show(left, "login")
  /\ UNCHANGED <<running, authenticated, accounts, requests, answers, sent>>

MessageClosed ==
  /\ HasInput("message")
  /\ modal' = Hide(modal, "message")
  /\ UNCHANGED <<running, authenticated, accounts, requests, answers, sent>>

\* UsersView's Add button: no dialog, a made-up name, a role of the list, and
\* the password's text as it is.
AddInUsersView(name) ==
  /\ running /\ modal = <<>>
  /\ Send("addUser", name, Plain(Default), Role)
  /\ UNCHANGED <<running, authenticated, modal, accounts, answers>>

-----------------------------------------------------------------------------
(* The server and the network.                                              *)

CanLogin(r) == r.name \in DOMAIN accounts /\ accounts[r.name] = r.text

\* Mutant: the role of a new account is not looked at.
CanBeAddedWithAnyRole(r) == r.name \notin DOMAIN accounts

\* The name must be free and the role one of the table's.
CanBeAdded(r) == r.name \notin DOMAIN accounts /\ r.role = Role

With(name, text) ==
  [n \in DOMAIN accounts \cup {name} |-> IF n = name THEN text ELSE accounts[n]]

Serve(r) ==
  LET added == r.task = "addUser" /\ CanBeAdded(r)
  IN  /\ requests' = requests \ {r}
      /\ accounts' = IF added THEN With(r.name, r.text) ELSE accounts
      /\ answers' = answers \cup
           {[id |-> r.id, task |-> r.task,
             ok |-> IF r.task = "login" THEN CanLogin(r) ELSE added]}
      /\ UNCHANGED <<running, authenticated, modal, sent>>

\* A request that fails on the way there or back is only logged.
Lose ==
  /\ \/ \E r \in requests : requests' = requests \ {r} /\ UNCHANGED answers
     \/ \E a \in answers : answers' = answers \ {a} /\ UNCHANGED requests
  /\ UNCHANGED <<running, authenticated, modal, accounts, sent>>

Take(a) ==
  /\ running
  /\ answers' = answers \ {a}
  /\ UNCHANGED <<running, accounts, requests, sent>>

onLoginSuccess(a) ==
  /\ a.task = "login" /\ a.ok
  /\ Take(a)
  /\ authenticated' = TRUE
  /\ modal' = showMessage(Hide(Hide(modal, "login"), "registration"))

\* userAdded goes to the dialogs whoever sent the request: the login dialog
\* comes back, over the main window too.
onUserAdded(a) ==
  /\ a.task = "addUser" /\ a.ok
  /\ Take(a)
  /\ modal' = showMessage(Show(Hide(modal, "registration"), "login"))
  /\ UNCHANGED authenticated

showErrorDialog(a) ==
  /\ ~a.ok
  /\ Take(a)
  /\ modal' = showMessage(modal)
  /\ UNCHANGED authenticated

-----------------------------------------------------------------------------
User ==
  \/ \E name \in Name, p \in Password : Login(name, p)
  \/ \E name \in Name, p, q \in Password : Register(name, p, q)
  \/ \E name \in Name \ {Admin} : AddInUsersView(name)
  \/ showRegistrationDialog
  \/ LoginRequested
  \/ LoginRejected
  \/ RegistrationRejected
  \/ MessageClosed

Next ==
  \/ User
  \/ \E r \in requests : Serve(r)
  \/ Lose
  \/ \E a \in answers : onLoginSuccess(a) \/ onUserAdded(a) \/ showErrorDialog(a)

Spec == Init /\ [][Next]_vars

-----------------------------------------------------------------------------
(* Properties.                                                              *)

Text == [form : {"plain", "sha256"}, of : Password]

ClientRequest ==
  [id : Nat, task : {"login", "addUser"}, name : Name, text : Text, role : {NoRole, Role}]

ServerAnswer == [id : Nat, task : {"login", "addUser"}, ok : BOOLEAN]

\* A dialog is shown once at a time, the account there at first stays, and what
\* is sent are logins and new accounts.
TypeOK ==
  /\ running \in BOOLEAN /\ authenticated \in BOOLEAN
  /\ modal \in Seq(Dialog) /\ \A i, j \in DOMAIN modal : modal[i] = modal[j] => i = j
  /\ Admin \in DOMAIN accounts /\ DOMAIN accounts \subseteq Name
  /\ accounts \in [DOMAIN accounts -> Text]
  /\ requests \subseteq ClientRequest /\ answers \subseteq ServerAnswer
  /\ sent \in 0 .. MaxSent

\* Nobody gets past the dialogs without having logged in, nor is left without
\* one: whatever answers arrive in whatever order, exactly one of the two is
\* there until a login succeeded (DialogManager).
Gate ==
  running /\ ~authenticated => Shown("login") # Shown("registration")

\* An account appears only when somebody is logged in: the server asks nobody who
\* they are, and what keeps registrations out is that the role they name does not
\* exist (RegistrationDialog.cpp:127). RegistrationsAreAccepted is what they are
\* expected to do.
OnlyTheLoggedInAddAccounts == [][accounts' # accounts => authenticated]_vars

\* A registration under a free name is answered with userAdded, as
\* testRegistrationRoutine expects of the dialog.
RegistrationsAreAccepted ==
  [][\A r \in requests :
       r.task = "addUser" /\ r.name \notin DOMAIN accounts /\ Serve(r)
         => \E a \in answers' : a.id = r.id /\ a.ok]_vars

\* Cancelling the login dialog that an added account brings back, or any other
\* step, does not end the client of somebody who is logged in
\* (onLoginDialogRejected).
CancelKeepsTheSession == [][authenticated => running' /\ authenticated']_vars

-----------------------------------------------------------------------------
(* The inductive invariant.                                                 *)

\* The only request for a new account with a role is UsersView's, which nobody
\* reaches before a login.
RolesComeFromTheLoggedIn ==
  \A r \in requests : r.task = "addUser" /\ r.role = Role => authenticated

SessionInv ==
  /\ TypeOK /\ Gate
  /\ authenticated => running
  /\ RolesComeFromTheLoggedIn
=============================================================================
