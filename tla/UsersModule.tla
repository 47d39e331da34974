---------------------------- MODULE UsersModule ----------------------------
(***************************************************************************)
(* BusinessLogic/UsersModule.cpp: accounts and roles.                      *)
(***************************************************************************)
EXTENDS OfficeStore

DefaultRole == 1    \* User.roleId INTEGER DEFAULT 1
NoRole == -1        \* the request carries no role
NullId == 0         \* the role the registration dialog sends: no row has this id

\* The rows loginUser finds for a name; it takes the first of them.
Accounts(d, name) == {u \in DOMAIN d.User : d.User[u].username = name}

\* The lookup by name, the columns of the INSERT, and its foreign key.
AddUser(name, role) ==
  /\ task = Idle
  /\ Accounts(db, name) = {}
  /\ LET given == IF role = NoRole THEN DefaultRole ELSE role
     IN  /\ given \in DOMAIN db.Role
         /\ db' = Insert(db, "User", [username |-> name, roleId |-> given])
  /\ RoomFor("User")
  /\ UNCHANGED <<task, faults, renamed>>

\* Mutant: editUser in a schema without UNIQUE on username.
EditUserAnyName(u, name, role) ==
  /\ task = Idle
  /\ u \in DOMAIN db.User
  /\ role \in DOMAIN db.Role
  /\ db' = Update(db, "User", u, [username |-> name, roleId |-> role])
  /\ UNCHANGED <<task, faults, renamed>>

\* editUser does not look the name up; the schema refuses one that is taken.
EditUser(u, name, role) ==
  /\ task = Idle
  /\ u \in DOMAIN db.User
  /\ role \in DOMAIN db.Role
  /\ UsernameFree(db, u, name)
  /\ db' = Update(db, "User", u, [username |-> name, roleId |-> role])
  /\ UNCHANGED <<task, faults, renamed>>

DeleteUser(u) ==
  /\ task = Idle
  /\ u \in DOMAIN db.User
  /\ ~Referenced(db, "User", u)
  /\ db' = Delete(db, "User", u)
  /\ UNCHANGED <<task, faults, renamed>>

\* Mutant: addRole without the lookup by name.
AddAnyRole(name) ==
  /\ task = Idle
  /\ RoomFor("Role")
  /\ db' = Insert(db, "Role", name)
  /\ UNCHANGED <<task, faults, renamed>>

AddRole(name) ==
  /\ task = Idle
  /\ \A r \in DOMAIN db.Role : db.Role[r] # name
  /\ RoomFor("Role")
  /\ db' = Insert(db, "Role", name)
  /\ UNCHANGED <<task, faults, renamed>>

\* updateRole does not look for another role of the name, and Role.name is not
\* UNIQUE.
UpdateRole(r, name) ==
  /\ task = Idle
  /\ r \in DOMAIN db.Role
  /\ db' = Update(db, "Role", r, name)
  /\ renamed' = renamed \cup {r}
  /\ UNCHANGED <<task, faults>>

DeleteRole(r) ==
  /\ task = Idle
  /\ r \in DOMAIN db.Role
  /\ ~Referenced(db, "Role", r)
  /\ db' = Delete(db, "Role", r)
  /\ UNCHANGED <<task, faults, renamed>>

UsersRequest ==
  \/ \E name \in Names :
       \/ AddRole(name)
       \/ \E r \in Id("Role") : UpdateRole(r, name)
       \/ \E r \in Id("Role") \cup {NoRole, NullId} : AddUser(name, r)
       \/ \E u \in Id("User"), r \in Id("Role") : EditUser(u, name, r)
  \/ \E u \in Id("User") : DeleteUser(u)
  \/ \E r \in Id("Role") : DeleteRole(r)
=============================================================================
