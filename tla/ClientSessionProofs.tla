------------------------ MODULE ClientSessionProofs ------------------------
(***************************************************************************)
(* Who gets past the dialogs of a client: proofs for any names, passwords  *)
(* and number of requests.                                                 *)
(***************************************************************************)
EXTENDS ClientSession, SequenceTheorems, TLAPS

-----------------------------------------------------------------------------
(* Stacks of dialogs.                                                       *)

\* What TypeOK says of the dialogs shown.
Stack(s) == s \in Seq(Dialog) /\ \A i, j \in DOMAIN s : s[i] = s[j] => i = j

\* A dialog that is hidden is the only one that goes.
LEMMA HideRemoves ==
  ASSUME NEW s, Stack(s), NEW d
  PROVE  Stack(Hide(s, d)) /\ ToSet(Hide(s, d)) = ToSet(s) \ {d}
<1>1. CASE d \notin ToSet(s)
  BY <1>1 DEF Hide
<1>2. CASE d \in ToSet(s)
  <2> DEFINE k == CHOOSE i \in DOMAIN s : s[i] = d
             h == RemoveAt(s, k)
  <2>1. k \in DOMAIN s /\ s[k] = d
    BY <1>2 DEF ToSet
  <2>2. s \in Seq(Dialog) /\ Len(s) \in Nat /\ k \in 1 .. Len(s)
    BY <2>1 DEF Stack
  <2> HIDE DEF k
  <2>3. /\ SubSeq(s, 1, k - 1) \in Seq(Dialog) /\ Len(SubSeq(s, 1, k - 1)) = k - 1
        /\ \A i \in 1 .. (k - 1) : SubSeq(s, 1, k - 1)[i] = s[i]
    BY <2>2, SubSeqProperties
  <2>4. /\ SubSeq(s, k + 1, Len(s)) \in Seq(Dialog) /\ Len(SubSeq(s, k + 1, Len(s))) = Len(s) - k
        /\ \A i \in 1 .. (Len(s) - k) : SubSeq(s, k + 1, Len(s))[i] = s[i + k]
    BY <2>2, SubSeqProperties
  <2>5. /\ h \in Seq(Dialog) /\ Len(h) = Len(s) - 1
        /\ \A i \in 1 .. (Len(s) - 1) : h[i] = IF i < k THEN s[i] ELSE s[i + 1]
    <3> DEFINE u == SubSeq(s, 1, k - 1)
               v == SubSeq(s, k + 1, Len(s))
    <3>1. h = u \o v
      BY DEF RemoveAt
    <3> HIDE DEF u, v, h
    <3>2. /\ u \in Seq(Dialog) /\ Len(u) = k - 1 /\ \A i \in 1 .. (k - 1) : u[i] = s[i]
          /\ v \in Seq(Dialog) /\ Len(v) = Len(s) - k
          /\ \A i \in 1 .. (Len(s) - k) : v[i] = s[i + k]
      BY <2>3, <2>4 DEF u, v
    <3>3. /\ h \in Seq(Dialog) /\ Len(h) = Len(u) + Len(v)
          /\ \A i \in 1 .. Len(u) + Len(v) :
               h[i] = IF i <= Len(u) THEN u[i] ELSE v[i - Len(u)]
      BY <3>1, <3>2, ConcatProperties
    <3>4. Len(h) = Len(s) - 1
      BY <2>2, <3>2, <3>3
    <3>5. ASSUME NEW i \in 1 .. (Len(s) - 1)
          PROVE  h[i] = IF i < k THEN s[i] ELSE s[i + 1]
      <4>1. CASE i < k
        <5>1. i \in 1 .. (k - 1) /\ i <= Len(u) /\ i \in 1 .. Len(u) + Len(v)
          BY <2>2, <3>2, <4>1
        <5>2. h[i] = u[i]
          BY <3>3, <5>1
        <5> QED
          BY <3>2, <4>1, <5>1, <5>2
      <4>2. CASE ~(i < k)
        <5>1. i - (k - 1) \in 1 .. (Len(s) - k) /\ (i - (k - 1)) + k = i + 1
          BY <2>2, <4>2
        <5>2. i \in 1 .. Len(u) + Len(v) /\ ~(i <= Len(u)) /\ i - Len(u) = i - (k - 1)
          BY <2>2, <3>2, <4>2
        <5>3. h[i] = v[i - (k - 1)]
          BY <3>3, <5>2
        <5> QED
          BY <3>2, <4>2, <5>1, <5>3
      <4> QED
        BY <4>1, <4>2
    <3> QED
      BY <3>3, <3>4, <3>5
  <2>6. DOMAIN h = 1 .. (Len(s) - 1) /\ DOMAIN s = 1 .. Len(s)
    BY <2>2, <2>5
  <2> HIDE DEF h
  <2>7. Stack(h)
    <3> SUFFICES ASSUME NEW i \in DOMAIN h, NEW j \in DOMAIN h, h[i] = h[j]
                 PROVE  i = j
      BY <2>5 DEF Stack
    <3> DEFINE At(x) == IF x < k THEN x ELSE x + 1
    <3>1. At(i) \in DOMAIN s /\ At(j) \in DOMAIN s
      BY <2>2, <2>6
    <3>2. s[At(i)] = s[At(j)]
      BY <2>5, <2>6
    <3>3. At(i) = At(j)
      BY <3>1, <3>2 DEF Stack
    <3> QED
      BY <2>2, <2>6, <3>3
  <2>8. ToSet(h) \subseteq ToSet(s) \ {d}
    <3> SUFFICES ASSUME NEW i \in DOMAIN h
                 PROVE  h[i] \in ToSet(s) /\ h[i] # d
      BY DEF ToSet
    <3>1. PICK j \in DOMAIN s : h[i] = s[j] /\ j # k
      BY <2>2, <2>5, <2>6
    <3>2. s[j] # s[k]
      BY <2>1, <3>1 DEF Stack
    <3> QED
      BY <2>1, <3>1, <3>2 DEF ToSet
  <2>9. ToSet(s) \ {d} \subseteq ToSet(h)
    <3> SUFFICES ASSUME NEW i \in DOMAIN s, s[i] # d
                 PROVE  \E j \in DOMAIN h : h[j] = s[i]
      BY DEF ToSet
    <3>1. i # k /\ i \in 1 .. Len(s)
      BY <2>1, <2>6
    <3>2. CASE i < k
      BY <2>2, <2>5, <2>6, <3>1, <3>2
    <3>3. CASE i > k
      <4>1. i - 1 \in DOMAIN h /\ ~(i - 1 < k)
        BY <2>2, <2>6, <3>1, <3>3
      <4>2. h[i - 1] = s[i]
        BY <2>2, <2>5, <2>6, <3>1, <4>1
      <4> QED
        BY <4>1, <4>2
    <3> QED
      BY <2>2, <3>1, <3>2, <3>3
  <2>10. Hide(s, d) = h
    BY <1>2 DEF Hide, h, k
  <2> QED
    BY <2>7, <2>8, <2>9, <2>10
<1> QED
  BY <1>1, <1>2

\* A dialog that is shown is the only one that comes.
LEMMA ShowAdds ==
  ASSUME NEW s, Stack(s), NEW d \in Dialog
  PROVE  Stack(Show(s, d)) /\ ToSet(Show(s, d)) = ToSet(s) \cup {d}
<1>1. CASE d \in ToSet(s)
  BY <1>1 DEF Show
<1>2. CASE d \notin ToSet(s)
  <2>1. s \in Seq(Dialog) /\ DOMAIN s = 1 .. Len(s) /\ Len(s) \in Nat
    BY DEF Stack
  <2>2. /\ Append(s, d) \in Seq(Dialog) /\ DOMAIN Append(s, d) = 1 .. (Len(s) + 1)
        /\ Append(s, d)[Len(s) + 1] = d
        /\ \A i \in 1 .. Len(s) : Append(s, d)[i] = s[i]
    BY <2>1, AppendProperties
  <2>3. \A i \in DOMAIN s : s[i] # d
    BY <1>2 DEF ToSet
  <2>4. Stack(Append(s, d))
    BY <2>1, <2>2, <2>3 DEF Stack
  <2>5. ToSet(Append(s, d)) = ToSet(s) \cup {d}
    BY <2>1, <2>2 DEF ToSet
  <2> QED
    BY <1>2, <2>4, <2>5 DEF Show
<1> QED
  BY <1>1, <1>2

\* The dialog that has the input is shown.
LEMMA InputIsShown ==
  ASSUME Stack(modal), NEW d, HasInput(d)
  PROVE  running /\ Shown(d)
<1>1. modal \in Seq(Dialog) /\ Len(modal) \in Nat /\ Len(modal) # 0 /\ DOMAIN modal = 1 .. Len(modal)
  BY DEF HasInput, Stack
<1>2. Len(modal) \in DOMAIN modal
  BY <1>1
<1> QED
  BY <1>2 DEF HasInput, Shown, ToSet, Last

\* What a message box adds to the stack, and which dialogs are two.
LEMMA MessageIsADialog ==
  ASSUME NEW s, Stack(s)
  PROVE  Stack(showMessage(s)) /\ ToSet(showMessage(s)) = ToSet(s) \cup {"message"}
BY ShowAdds DEF showMessage, Dialog

-----------------------------------------------------------------------------
(* One step.                                                                *)

LEMMA InitEstablishesSessionInv == Init => SessionInv
<1> SUFFICES ASSUME Init PROVE SessionInv
  OBVIOUS
<1> USE ClientSessionAssumption DEF Init
<1>1. accounts \in [{Admin} -> Text]
  BY DEF Text, Hash
<1>2. DOMAIN accounts = {Admin}
  OBVIOUS
<1>3. modal \in Seq(Dialog) /\ DOMAIN modal = {1}
  BY DEF Dialog
<1>4. TypeOK
  <2>1. accounts \in [DOMAIN accounts -> Text]
    BY <1>1, <1>2
  <2>2. DOMAIN accounts \subseteq Name /\ Admin \in DOMAIN accounts
    BY <1>2
  <2>3. sent \in 0 .. MaxSent
    OBVIOUS
  <2>4. \A i, j \in DOMAIN modal : modal[i] = modal[j] => i = j
    BY <1>3
  <2> QED
    BY <1>3, <2>1, <2>2, <2>3, <2>4 DEF TypeOK
<1>5. Shown("login") /\ ~Shown("registration")
  BY <1>3 DEF Shown, ToSet
<1> QED
  BY <1>4, <1>5 DEF SessionInv, Gate, RolesComeFromTheLoggedIn

\* A request that is sent is one of the client's and carries a role only for
\* somebody who is logged in.
LEMMA SendKeepsTypes ==
  ASSUME SessionInv, NEW task \in {"login", "addUser"}, NEW name \in Name,
         NEW text \in Text, NEW role \in {NoRole, Role}, Send(task, name, text, role),
         role = Role => authenticated, authenticated' = authenticated
  PROVE  requests' \subseteq ClientRequest /\ sent' \in 0 .. MaxSent /\ RolesComeFromTheLoggedIn'
<1> DEFINE r == [id |-> sent, task |-> task, name |-> name, text |-> text, role |-> role]
<1>1. r \in ClientRequest /\ r.role = role
  BY DEF SessionInv, TypeOK, ClientRequest
<1>2. requests' = requests \cup {r} /\ sent' = sent + 1 /\ sent < MaxSent
  BY DEF Send
<1>3. requests \subseteq ClientRequest /\ sent \in 0 .. MaxSent
  BY DEF SessionInv, TypeOK
<1> HIDE DEF r
<1> QED
  BY <1>1, <1>2, <1>3, ClientSessionAssumption DEF SessionInv, RolesComeFromTheLoggedIn

\* A step that only changes the dialogs keeps the invariant if they stay a
\* stack and the gate stays shut.
LEMMA DialogsOnly ==
  ASSUME SessionInv, Stack(modal'), Gate',
         UNCHANGED <<accounts, requests, sent>>, answers' \subseteq answers,
         running' \in BOOLEAN, authenticated' \in BOOLEAN,
         authenticated => authenticated', authenticated' => running'
  PROVE  SessionInv'
<1>1. TypeOK'
  BY DEF SessionInv, TypeOK, Stack
<1>2. RolesComeFromTheLoggedIn'
  BY DEF SessionInv, RolesComeFromTheLoggedIn
<1> QED
  BY <1>1, <1>2 DEF SessionInv

LEMMA LoginKeeps ==
  ASSUME SessionInv, NEW name \in Name, NEW p \in Password, Login(name, p)
  PROVE  SessionInv'
<1>1. Hash(p) \in Text
  BY DEF Hash, Text
<1>2. Send("login", name, Hash(p), NoRole) /\ UNCHANGED <<running, authenticated, modal, accounts, answers>>
  BY DEF Login
<1>3. requests' \subseteq ClientRequest /\ sent' \in 0 .. MaxSent /\ RolesComeFromTheLoggedIn'
  <2>1. NoRole # Role
    BY DEF NoRole, Role
  <2> QED
    BY <1>1, <1>2, <2>1, SendKeepsTypes
<1> QED
  BY <1>2, <1>3 DEF SessionInv, TypeOK, Gate, Shown

LEMMA RegisterKeeps ==
  ASSUME SessionInv, NEW name \in Name, NEW p \in Password, NEW q \in Password,
         Register(name, p, q)
  PROVE  SessionInv'
<1>1. UNCHANGED <<running, authenticated, accounts, answers>>
  BY DEF Register
<1>2. CASE Send("addUser", name, Hash(p), NoRole) /\ UNCHANGED modal
  <2>1. Hash(p) \in Text
    BY DEF Hash, Text
  <2>2. requests' \subseteq ClientRequest /\ sent' \in 0 .. MaxSent /\ RolesComeFromTheLoggedIn'
    <3>1. NoRole # Role
      BY DEF NoRole, Role
    <3> QED
      BY <1>1, <1>2, <2>1, <3>1, SendKeepsTypes
  <2> QED
    BY <1>1, <1>2, <2>2 DEF SessionInv, TypeOK, Gate, Shown
<1>3. CASE modal' = showMessage(modal) /\ UNCHANGED <<requests, sent>>
  <2>1. Stack(modal)
    BY DEF SessionInv, TypeOK, Stack
  <2>2. Stack(modal') /\ ToSet(modal') = ToSet(modal) \cup {"message"}
    BY <1>3, <2>1, MessageIsADialog
  <2>3. Gate'
    BY <1>1, <2>2 DEF SessionInv, Gate, Shown
  <2> QED
    BY <1>1, <1>3, <2>2, <2>3, DialogsOnly DEF SessionInv, TypeOK
<1> QED
  BY <1>2, <1>3 DEF Register

\* Without a dialog there is neither of the two the gate asks for.
LEMMA AddInUsersViewKeeps ==
  ASSUME SessionInv, NEW name \in Name, AddInUsersView(name)
  PROVE  SessionInv'
<1>1. Plain(Default) \in Text
  BY ClientSessionAssumption DEF Plain, Text
<1>2. authenticated
  BY DEF AddInUsersView, SessionInv, Gate, Shown, ToSet
<1>3. Send("addUser", name, Plain(Default), Role) /\ UNCHANGED <<running, authenticated, modal, accounts, answers>>
  BY DEF AddInUsersView
<1>4. requests' \subseteq ClientRequest /\ sent' \in 0 .. MaxSent /\ RolesComeFromTheLoggedIn'
  BY <1>1, <1>2, <1>3, SendKeepsTypes
<1> QED
  BY <1>3, <1>4 DEF SessionInv, TypeOK, Gate, Shown

\* Every button of a dialog leaves one of the two dialogs, or ends the client.
LEMMA ButtonsKeep ==
  ASSUME SessionInv,
         \/ showRegistrationDialog \/ LoginRequested \/ LoginRejected
         \/ RegistrationRejected \/ MessageClosed
  PROVE  SessionInv'
<1> DEFINE hidden(d) == Hide(modal, d)
<1>1. Stack(modal) /\ running \in BOOLEAN /\ authenticated \in BOOLEAN /\ Gate
      /\ (authenticated => running)
  BY DEF SessionInv, TypeOK, Stack
<1>2. \A d \in Dialog : Stack(hidden(d)) /\ ToSet(hidden(d)) = ToSet(modal) \ {d}
  BY <1>1, HideRemoves
<1>3. \A d, e \in Dialog : /\ Stack(Show(hidden(d), e))
                           /\ ToSet(Show(hidden(d), e)) = (ToSet(modal) \ {d}) \cup {e}
  BY <1>2, ShowAdds
<1>4. {"login", "registration", "message"} = Dialog
  BY DEF Dialog
<1>5. \A d \in Dialog : HasInput(d) => running /\ d \in ToSet(modal)
  BY <1>1, InputIsShown DEF Shown
<1> HIDE DEF hidden
<1>6. CASE showRegistrationDialog
  <2>1. modal' = Show(hidden("login"), "registration")
    BY <1>6 DEF showRegistrationDialog, hidden
  <2>2. Stack(modal') /\ ToSet(modal') = (ToSet(modal) \ {"login"}) \cup {"registration"}
    BY <1>3, <1>4, <2>1
  <2>3. Gate'
    BY <2>2 DEF Gate, Shown
  <2> QED
    BY <1>1, <1>6, <2>2, <2>3, DialogsOnly DEF showRegistrationDialog
<1>7. CASE LoginRequested
  <2>1. modal' = Show(hidden("registration"), "login")
    BY <1>7 DEF LoginRequested, hidden
  <2>2. Stack(modal') /\ ToSet(modal') = (ToSet(modal) \ {"registration"}) \cup {"login"}
    BY <1>3, <1>4, <2>1
  <2>3. Gate'
    BY <2>2 DEF Gate, Shown
  <2> QED
    BY <1>1, <1>7, <2>2, <2>3, DialogsOnly DEF LoginRequested
<1>8. CASE LoginRejected
  <2>1. modal' = hidden("login") /\ running' = authenticated
        /\ UNCHANGED <<authenticated, accounts, requests, answers, sent>>
    BY <1>8 DEF LoginRejected, hidden
  <2>2. Gate'
    BY <2>1 DEF Gate
  <2> QED
    BY <1>1, <1>2, <1>4, <2>1, <2>2, DialogsOnly
<1>9. CASE RegistrationRejected
  <2>1. modal' = IF authenticated THEN hidden("registration") ELSE Show(hidden("registration"), "login")
    BY <1>9 DEF RegistrationRejected, hidden
  <2>2. UNCHANGED <<running, authenticated, accounts, requests, answers, sent>>
    BY <1>9 DEF RegistrationRejected
  <2>3. Stack(modal')
    BY <1>2, <1>3, <1>4, <2>1
  <2>4. ~authenticated => ToSet(modal') = (ToSet(modal) \ {"registration"}) \cup {"login"}
    BY <1>3, <1>4, <2>1
  <2>5. Gate'
    BY <2>2, <2>4 DEF Gate, Shown
  <2> QED
    BY <1>1, <2>2, <2>3, <2>5, DialogsOnly
<1>10. CASE MessageClosed
  <2>1. modal' = hidden("message") /\ UNCHANGED <<running, authenticated, accounts, requests, answers, sent>>
    BY <1>10 DEF MessageClosed, hidden
  <2>2. Stack(modal') /\ ToSet(modal') = ToSet(modal) \ {"message"}
    BY <1>2, <1>4, <2>1
  <2>3. Gate'
    BY <1>1, <2>1, <2>2 DEF Gate, Shown
  <2> QED
    BY <1>1, <2>1, <2>2, <2>3, DialogsOnly
<1> QED
  BY <1>6, <1>7, <1>8, <1>9, <1>10

LEMMA ServeKeeps ==
  ASSUME SessionInv, NEW r \in requests, Serve(r)
  PROVE  SessionInv' /\ (accounts' # accounts => authenticated)
<1>1. r \in ClientRequest /\ TypeOK
  BY DEF SessionInv, TypeOK
<1>2. requests' = requests \ {r} /\ UNCHANGED <<running, authenticated, modal, sent>>
  BY DEF Serve
<1>3. answers' \subseteq ServerAnswer
  <2> DEFINE added == r.task = "addUser" /\ CanBeAdded(r)
             a == [id |-> r.id, task |-> r.task,
                   ok |-> IF r.task = "login" THEN CanLogin(r) ELSE added]
  <2>1. CanLogin(r) \in BOOLEAN /\ added \in BOOLEAN
    BY DEF CanLogin, CanBeAdded
  <2>2. (IF r.task = "login" THEN CanLogin(r) ELSE added) \in BOOLEAN
    BY <2>1
  <2>3. a \in ServerAnswer
    BY <1>1, <2>2 DEF ServerAnswer, ClientRequest
  <2>4. answers' = answers \cup {a}
    BY DEF Serve
  <2> QED
    BY <1>1, <2>3, <2>4 DEF TypeOK
<1>4. \/ accounts' = accounts
      \/ accounts' = With(r.name, r.text) /\ r.task = "addUser" /\ r.role = Role
  BY DEF Serve, CanBeAdded
<1>5. accounts' # accounts => authenticated
  BY <1>4 DEF SessionInv, RolesComeFromTheLoggedIn
<1>6. /\ Admin \in DOMAIN accounts' /\ DOMAIN accounts' \subseteq Name
      /\ accounts' \in [DOMAIN accounts' -> Text]
  <2>1. CASE accounts' = accounts
    BY <1>1, <2>1 DEF TypeOK
  <2>2. CASE accounts' = With(r.name, r.text)
    <3>1. r.name \in Name /\ r.text \in Text
      BY <1>1 DEF ClientRequest
    <3>2. DOMAIN accounts' = DOMAIN accounts \cup {r.name}
      BY <2>2 DEF With
    <3>3. accounts' \in [DOMAIN accounts \cup {r.name} -> Text]
      BY <1>1, <2>2, <3>1 DEF With, TypeOK
    <3> QED
      BY <1>1, <3>1, <3>2, <3>3 DEF TypeOK
  <2> QED
    BY <1>4, <2>1, <2>2
<1>7. TypeOK'
  BY <1>1, <1>2, <1>3, <1>6 DEF TypeOK
<1>8. Gate' /\ RolesComeFromTheLoggedIn' /\ (authenticated' => running')
  BY <1>2 DEF SessionInv, Gate, Shown, RolesComeFromTheLoggedIn
<1> QED
  BY <1>5, <1>7, <1>8 DEF SessionInv

LEMMA LoseKeeps ==
  ASSUME SessionInv, Lose
  PROVE  SessionInv'
<1>1. requests' \subseteq requests /\ answers' \subseteq answers
      /\ UNCHANGED <<running, authenticated, modal, accounts, sent>>
  BY DEF Lose
<1> QED
  BY <1>1 DEF SessionInv, TypeOK, Gate, Shown, RolesComeFromTheLoggedIn

\* A login shows the main window, and every other answer leaves the gate as it
\* is: an added account is answered by the login dialog alone.
LEMMA AnswersKeep ==
  ASSUME SessionInv, NEW a, onLoginSuccess(a) \/ onUserAdded(a) \/ showErrorDialog(a)
  PROVE  SessionInv'
<1>1. Stack(modal) /\ running \in BOOLEAN /\ authenticated \in BOOLEAN /\ Gate
      /\ (authenticated => running)
  BY DEF SessionInv, TypeOK, Stack
<1>2. "login" \in Dialog /\ "registration" \in Dialog /\ "message" \in Dialog
  BY DEF Dialog
<1>3. running /\ UNCHANGED <<running, accounts, requests, sent>> /\ answers' \subseteq answers
  BY DEF onLoginSuccess, onUserAdded, showErrorDialog, Take
<1>4. CASE onLoginSuccess(a)
  <2> DEFINE s == Hide(modal, "login")
             u == Hide(s, "registration")
  <2>1. modal' = showMessage(u) /\ authenticated' = TRUE
    BY <1>4 DEF onLoginSuccess
  <2>2. Stack(s)
    BY <1>1, HideRemoves
  <2> HIDE DEF s
  <2>3. Stack(u)
    BY <2>2, HideRemoves
  <2> HIDE DEF u
  <2>4. Stack(modal')
    BY <2>1, <2>3, MessageIsADialog
  <2>5. Gate'
    BY <2>1 DEF Gate
  <2> QED
    BY <1>3, <2>1, <2>4, <2>5, DialogsOnly
<1>5. CASE onUserAdded(a)
  <2> DEFINE s == Hide(modal, "registration")
             u == Show(s, "login")
  <2>1. modal' = showMessage(u) /\ authenticated' = authenticated
    BY <1>5 DEF onUserAdded
  <2>2. Stack(s) /\ ToSet(s) = ToSet(modal) \ {"registration"}
    BY <1>1, HideRemoves
  <2> HIDE DEF s
  <2>3. Stack(u) /\ ToSet(u) = ToSet(s) \cup {"login"}
    BY <1>2, <2>2, ShowAdds
  <2> HIDE DEF u
  <2>4. Stack(modal') /\ ToSet(modal') = ToSet(u) \cup {"message"}
    BY <2>1, <2>3, MessageIsADialog
  <2>5. Gate'
    BY <2>2, <2>3, <2>4 DEF Gate, Shown
  <2> QED
    BY <1>1, <1>3, <2>1, <2>4, <2>5, DialogsOnly
<1>6. CASE showErrorDialog(a)
  <2>1. modal' = showMessage(modal) /\ authenticated' = authenticated
    BY <1>6 DEF showErrorDialog
  <2>2. Stack(modal') /\ ToSet(modal') = ToSet(modal) \cup {"message"}
    BY <1>1, <2>1, MessageIsADialog
  <2>3. Gate'
    BY <1>1, <1>3, <2>1, <2>2 DEF Gate, Shown
  <2> QED
    BY <1>1, <1>3, <2>1, <2>2, <2>3, DialogsOnly
<1> QED
  BY <1>4, <1>5, <1>6

LEMMA NextKeepsSessionInv ==
  ASSUME SessionInv, [Next]_vars
  PROVE  /\ SessionInv'
         /\ accounts' # accounts => authenticated
         /\ authenticated => running' /\ authenticated'
<1>1. CASE \E name \in Name, p \in Password : Login(name, p)
  BY <1>1, LoginKeeps DEF Login, SessionInv
<1>2. CASE \E name \in Name, p, q \in Password : Register(name, p, q)
  BY <1>2, RegisterKeeps DEF Register, SessionInv
<1>3. CASE \E name \in Name \ {Admin} : AddInUsersView(name)
  BY <1>3, AddInUsersViewKeeps DEF AddInUsersView, SessionInv
<1>4. CASE \/ showRegistrationDialog \/ LoginRequested \/ LoginRejected
           \/ RegistrationRejected \/ MessageClosed
  <2>1. SessionInv'
    BY <1>4, ButtonsKeep
  <2>2. accounts' = accounts /\ authenticated' = authenticated
    BY <1>4 DEF showRegistrationDialog, LoginRequested, LoginRejected, RegistrationRejected, MessageClosed
  <2> QED
    BY <2>1, <2>2 DEF SessionInv
<1>5. CASE \E r \in requests : Serve(r)
  <2>1. PICK r \in requests : Serve(r)
    BY <1>5
  <2>2. SessionInv' /\ (accounts' # accounts => authenticated)
    BY <2>1, ServeKeeps
  <2>3. running' = running /\ authenticated' = authenticated
    BY <2>1 DEF Serve
  <2> QED
    BY <2>2, <2>3 DEF SessionInv
<1>6. CASE Lose
  BY <1>6, LoseKeeps DEF Lose, SessionInv
<1>7. CASE \E a \in answers : onLoginSuccess(a) \/ onUserAdded(a) \/ showErrorDialog(a)
  <2>1. PICK a \in answers : onLoginSuccess(a) \/ onUserAdded(a) \/ showErrorDialog(a)
    BY <1>7
  <2>2. SessionInv'
    BY <2>1, AnswersKeep
  <2>3. accounts' = accounts /\ (authenticated => authenticated')
    BY <2>1 DEF onLoginSuccess, onUserAdded, showErrorDialog, Take
  <2> QED
    BY <2>2, <2>3 DEF SessionInv
<1>8. CASE UNCHANGED vars
  BY <1>8 DEF vars, SessionInv, TypeOK, Gate, Shown, RolesComeFromTheLoggedIn
<1> QED
  BY <1>1, <1>2, <1>3, <1>4, <1>5, <1>6, <1>7, <1>8 DEF Next, User

-----------------------------------------------------------------------------
(* Theorems.                                                                *)

LEMMA SessionInvHolds == Spec => []SessionInv
<1>1. SessionInv /\ [Next]_vars => SessionInv'
  BY NextKeepsSessionInv
<1> QED
  BY InitEstablishesSessionInv, <1>1, PTL DEF Spec

\* The dialogs shown are a stack without repetitions, and requests, answers and
\* accounts are of their types: the state of DialogManager and of the server's
\* users table.
THEOREM SessionTypeCorrect == Spec => []TypeOK
<1>1. SessionInv => TypeOK
  BY DEF SessionInv
<1> QED
  BY SessionInvHolds, <1>1, PTL

\* Until a login succeeded exactly one of the login and the registration dialog
\* stands before the main window, whatever answers arrive in whatever order
\* (DialogManager).
THEOREM TheGateStaysShut == Spec => []Gate
<1>1. SessionInv => Gate
  BY DEF SessionInv
<1> QED
  BY SessionInvHolds, <1>1, PTL

\* No account is added by a client nobody has logged in to: the registration
\* dialog's requests are refused for their role.
THEOREM AccountsNeedALogin == Spec => OnlyTheLoggedInAddAccounts
<1>1. SessionInv /\ [Next]_vars => [accounts' # accounts => authenticated]_vars
  BY NextKeepsSessionInv
<1> QED
  BY SessionInvHolds, <1>1, PTL DEF Spec, OnlyTheLoggedInAddAccounts

\* Nothing ends the client, or the session, of somebody who is logged in
\* (onLoginDialogRejected, onRegistrationDialogRejected).
THEOREM SessionsAreKept == Spec => CancelKeepsTheSession
<1>1. SessionInv /\ [Next]_vars => [authenticated => running' /\ authenticated']_vars
  BY NextKeepsSessionInv
<1> QED
  BY SessionInvHolds, <1>1, PTL DEF Spec, CancelKeepsTheSession
=============================================================================
