---------------------------- MODULE AccessProofs ----------------------------
(***************************************************************************)
(* Proofs about Access for every number of accounts, changes and crashes:  *)
(* types, the migration ladder, the journal, and the snapshots of the      *)
(* signed-in account.                                                      *)
(***************************************************************************)
EXTENDS Access, TLAPS

-----------------------------------------------------------------------------
(* Types.                                                                  *)

LEMMA RowFacts ==
  ASSUME NEW row \in Rows
  PROVE  Summary(row) \in Summaries /\ row.role \in Roles /\ row.enabled \in BOOLEAN
         /\ row.avatar \in BOOLEAN
  <1>1. (row.name # "none") \in BOOLEAN
    OBVIOUS
  <1>2. row.role \in Roles /\ row.enabled \in BOOLEAN /\ row.avatar \in BOOLEAN
    BY DEF Rows
  <1>3. QED
    BY <1>1, <1>2, Zenon DEF Summary, Summaries

LEMMA NothingTyped ==
  /\ NoDialog \in Dialogs /\ NoDialog.kind = "none"
  /\ NoBadge \in Badges
  <1>1. Operator \in Roles
    BY DEF Operator, Roles
  <1>2. NoBadge \in Badges
    BY <1>1, Zenon DEF NoBadge, Badges
  <1>3. QED
    BY <1>2 DEF NoDialog, Dialogs, DialogKinds

LEMMA NoRowIsARow == NoRow \in Rows /\ NoSummary \in Summaries /\ NoUser \in Users
  <1>1. NoRow \in Rows
    BY DEF NoRow, Rows, Operator, Roles
  <1>2. QED
    BY <1>1, RowFacts DEF NoSummary, NoUser, Users

LEMMA NothingOwed == NoOwed \in OwedRows /\ NoOwed.id = 0 /\ NoOwed.account = FALSE
  <1>1. NoOwed.id = 0 /\ NoOwed.account = FALSE
    BY DEF NoOwed
  <1>2. QED
    BY <1>1, NoRowIsARow, Zenon DEF NoOwed, OwedRows

\* A journal row, and the row that is owed after a change of the table.
LEMMA RecordTyped ==
  ASSUME StateOK, NEW id \in Ids, NEW s \in Summaries, record(s, id)
  PROVE  ledger' \in [Ids -> Summaries] /\ missed' \subseteq Ids
  BY DEF StateOK, record

LEMMA OwesTyped ==
  ASSUME StateOK, users' \in [Ids -> Rows], NEW id \in Ids, NEW account \in BOOLEAN,
         Owes(id, account)
  PROVE  /\ owed' \in OwedRows
         /\ ledger' \in [Ids -> Summaries] /\ missed' \subseteq Ids /\ listed' \subseteq Ids
  <1>1. PICK s \in Summaries : owed' = [id |-> id, summary |-> s, account |-> account]
    <2>1. Summary(users'[id]) \in Summaries /\ NoSummary \in Summaries
      BY RowFacts, NoRowIsARow
    <2>2. QED
      BY <2>1 DEF Owes
  <1>2. owed' \in OwedRows
    BY <1>1, Zenon DEF OwedRows
  <1>3. QED
    BY <1>2 DEF Owes, StateOK

LEMMA StoreTyped ==
  ASSUME StateOK, NEW id \in Ids, NEW row \in Rows, StoreRow(id, row)
  PROVE  users' \in [Ids -> Rows] /\ changes' \in 0..MaxChanges
  BY AccessAssumption DEF StateOK, StoreRow

LEMMA SetUserTyped ==
  ASSUME NEW id \in Ids, NEW row \in Rows, users' \in [Ids -> Rows],
         setUser([id |-> id, row |-> row])
  PROVE  /\ session' \in Users
         /\ badge' \in Badges
         /\ session' = [id |-> id, row |-> row]
         /\ badge' = [role |-> row.role, avatar |-> users'[id].avatar, on |-> TRUE]
  <1>1. [id |-> id, row |-> row] # NoUser
    BY DEF NoUser, Ids
  <1>2. users'[id].avatar \in BOOLEAN /\ row.role \in Roles
    BY RowFacts
  <1>3. QED
    BY <1>1, <1>2 DEF setUser, BadgeOf, getAvatar, Users, Badges

LEMMA RefreshOwnTyped ==
  ASSUME StateOK, NEW id \in Ids, users' \in [Ids -> Rows], RefreshOwn(id)
  PROVE  /\ session' \in Users /\ badge' \in Badges
  <1>1. CASE setUser([id |-> id, row |-> users'[id]]) /\ UNCHANGED stale
    BY <1>1, SetUserTyped DEF StateOK
  <1>2. CASE stale' = TRUE /\ UNCHANGED <<session, badge>>
    BY <1>2 DEF StateOK
  <1>3. QED
    BY <1>1, <1>2 DEF RefreshOwn

\* The variables a presenter call may change, well typed after it.
CallTyped ==
  /\ users' \in [Ids -> Rows] /\ ledger' \in [Ids -> Summaries] /\ nextId' \in 1..(MaxId + 1)
  /\ session' \in Users /\ badge' \in Badges
  /\ listed' \subseteq Ids /\ changes' \in 0..MaxChanges
  /\ missed' \subseteq Ids /\ owed' \in OwedRows

LEMMA RefusedTyped == StateOK /\ Refused => CallTyped
  BY DEF StateOK, Refused, CallTyped, KeepSession

\* The password, the role, the flags of a row are replaced.
LEMMA RowUpdated ==
  ASSUME NEW row \in Rows, NEW r \in Roles, NEW e \in BOOLEAN, NEW p \in Passwords,
         NEW a \in BOOLEAN
  PROVE  /\ [row EXCEPT !.role = r, !.enabled = e] \in Rows
         /\ [row EXCEPT !.pw = p] \in Rows
         /\ [row EXCEPT !.avatar = a] \in Rows
  BY DEF Rows

\* What a rewritten row keeps.
LEMMA PasswordWritten ==
  ASSUME NEW row \in Rows, NEW p \in Passwords
  PROVE  LET new == [row EXCEPT !.pw = p] IN
         /\ new \in Rows /\ Summary(new) = Summary(row)
         /\ new.role = row.role /\ new.enabled = row.enabled /\ new.avatar = row.avatar
  BY DEF Rows, Summary

LEMMA AvatarWritten ==
  ASSUME NEW row \in Rows, NEW a \in BOOLEAN
  PROVE  LET new == [row EXCEPT !.avatar = a] IN
         /\ new \in Rows /\ Summary(new) = Summary(row)
         /\ new.role = row.role /\ new.enabled = row.enabled /\ new.avatar = a
  BY DEF Rows, Summary

LEMMA CreateTyped ==
  ASSUME StateOK, NEW n \in Names, NEW r \in Roles, NEW p, create(n, r, p)
  PROVE  CallTyped
  <1> DEFINE row == [role |-> r, enabled |-> TRUE, name |-> n, pw |-> p, avatar |-> FALSE]
  <1>1. CASE ~Refused
    <2>1. row \in Rows
      BY <1>1 DEF create, isValidPassword, Rows
    <2>2. nextId \in Ids /\ StoreRow(nextId, row) /\ nextId' = nextId + 1
      BY <1>1 DEF create, InsertRow
    <2>3. Owes(nextId, TRUE) /\ KeepSession
      BY <1>1 DEF create
    <2>4. nextId' \in 1..(MaxId + 1)
      BY <2>2, AccessAssumption DEF Ids
    <2>5. users' \in [Ids -> Rows] /\ changes' \in 0..MaxChanges
      BY <2>1, <2>2, StoreTyped
    <2>6. QED
      BY <2>2, <2>3, <2>4, <2>5, OwesTyped DEF CallTyped, KeepSession, StateOK
  <1>2. QED
    BY <1>1, RefusedTyped

LEMMA UpdateTyped ==
  ASSUME StateOK, NEW id \in Ids, NEW r \in Roles, NEW e \in BOOLEAN, update(id, r, e)
  PROVE  CallTyped
  <1> DEFINE row == [users[id] EXCEPT !.role = r, !.enabled = e]
  <1>1. CASE ~Refused
    <2>1. users[id] \in Rows /\ row \in Rows
      BY RowUpdated DEF StateOK, Passwords
    <2>2. StoreRow(id, row) /\ UNCHANGED nextId
      BY <1>1 DEF update, UpdateRow
    <2>3. /\ Owes(id, TRUE)
          /\ IF id = session.id THEN RefreshOwn(id) ELSE KeepSession
      BY <1>1 DEF update
    <2>4. users' \in [Ids -> Rows] /\ changes' \in 0..MaxChanges
      BY <2>1, <2>2, StoreTyped
    <2>5. /\ session' \in Users /\ badge' \in Badges
      BY <2>3, <2>4, RefreshOwnTyped DEF KeepSession, StateOK
    <2>6. QED
      BY <2>2, <2>3, <2>4, <2>5, OwesTyped DEF CallTyped, StateOK
  <1>2. QED
    BY <1>1, RefusedTyped

LEMMA RemoveTyped ==
  ASSUME StateOK, NEW id \in Ids, remove(id)
  PROVE  CallTyped
  <1>1. CASE ~Refused
    <2>1. StoreRow(id, NoRow) /\ UNCHANGED nextId /\ Owes(id, TRUE) /\ KeepSession
      BY <1>1 DEF remove, DeleteRow
    <2>2. users' \in [Ids -> Rows] /\ changes' \in 0..MaxChanges
      BY <2>1, NoRowIsARow, StoreTyped
    <2>3. QED
      BY <2>1, <2>2, OwesTyped DEF CallTyped, KeepSession, StateOK
  <1>2. QED
    BY <1>1, RefusedTyped

LEMMA ResetTyped ==
  ASSUME StateOK, NEW id \in Ids, NEW p, resetPassword(id, p)
  PROVE  CallTyped
  <1> DEFINE row == [users[id] EXCEPT !.pw = p]
  <1>1. CASE ~Refused
    <2>1. p \in Passwords
      BY <1>1 DEF resetPassword, isValidPassword
    <2>2. users[id] \in Rows /\ row \in Rows
      BY <2>1, RowUpdated DEF StateOK, Roles
    <2>3. /\ StoreRow(id, row) /\ UNCHANGED nextId /\ Owes(id, FALSE) /\ KeepSession
      BY <1>1 DEF resetPassword, UpdateRow
    <2>4. users' \in [Ids -> Rows] /\ changes' \in 0..MaxChanges
      BY <2>2, <2>3, StoreTyped
    <2>5. QED
      BY <2>3, <2>4, OwesTyped DEF CallTyped, KeepSession, StateOK
  <1>2. QED
    BY <1>1, RefusedTyped

LEMMA ChangeOwnTyped ==
  ASSUME StateOK, session.id \in Ids, NEW o, NEW p, changeOwnPassword(o, p)
  PROVE  CallTyped
  <1> DEFINE id == session.id
  <1> DEFINE row == [users[id] EXCEPT !.pw = p]
  <1>1. CASE ~Refused
    <2>1. p \in Passwords
      BY <1>1 DEF changeOwnPassword, isValidPassword
    <2>2. users[id] \in Rows /\ row \in Rows
      BY <2>1, RowUpdated DEF StateOK, Roles
    <2>3. /\ StoreRow(id, row) /\ UNCHANGED nextId /\ Owes(id, FALSE) /\ KeepSession
      BY <1>1 DEF changeOwnPassword, UpdateRow
    <2>4. users' \in [Ids -> Rows] /\ changes' \in 0..MaxChanges
      BY <2>2, <2>3, StoreTyped
    <2>5. QED
      BY <2>3, <2>4, OwesTyped DEF CallTyped, KeepSession, StateOK
  <1>2. QED
    BY <1>1, RefusedTyped

\* Both avatar calls write the row back with another picture flag.
AvatarCall(a) ==
  /\ StoreRow(session.id, [users[session.id] EXCEPT !.avatar = a]) /\ UNCHANGED nextId
  /\ RefreshOwn(session.id) /\ Owes(session.id, FALSE)

LEMMA AvatarCalls ==
  /\ setOwnAvatar => Refused \/ AvatarCall(TRUE)
  /\ clearOwnAvatar => Refused \/ AvatarCall(FALSE)
  BY DEF setOwnAvatar, clearOwnAvatar, setAvatar, clearAvatar, UpdateRow, AvatarCall

LEMMA AvatarTyped ==
  ASSUME StateOK, session.id \in Ids, NEW a \in BOOLEAN, AvatarCall(a)
  PROVE  CallTyped
  <1> DEFINE id == session.id
  <1> DEFINE row == [users[id] EXCEPT !.avatar = a]
  <1>1. users[id] \in Rows /\ row \in Rows
    BY RowUpdated DEF StateOK, Roles, Passwords
  <1>2. /\ StoreRow(id, row) /\ UNCHANGED nextId /\ Owes(id, FALSE) /\ RefreshOwn(id)
    BY DEF AvatarCall
  <1>3. users' \in [Ids -> Rows] /\ changes' \in 0..MaxChanges
    BY <1>1, <1>2, StoreTyped
  <1>4. QED
    BY <1>2, <1>3, OwesTyped, RefreshOwnTyped DEF CallTyped, StateOK

LEMMA OwnAvatarTyped ==
  ASSUME StateOK, session.id \in Ids, setOwnAvatar \/ clearOwnAvatar
  PROVE  CallTyped
  BY AvatarCalls, AvatarTyped, RefusedTyped

\* The window only runs for somebody who signed in, and a form that works on a
\* row was opened for one; the seeder has an entry of kSeed left.
RowsInHand ==
  /\ phase \in {"off", "migrate"} => seeded = 0
  /\ phase = "seed" => seeded \in 0..2
  /\ phase = "run" => session.id \in Ids
  /\ dialog.kind \in {"edit", "reset", "delete"} => dialog.id \in Ids

LEMMA InitTyped == Init => StateOK /\ RowsInHand
  <1> SUFFICES ASSUME Init PROVE StateOK /\ RowsInHand
    OBVIOUS
  <1>1. version \in 0..2 /\ columns \in 0..4
    BY DEF Init
  <1>2. users \in [Ids -> Rows] /\ ledger \in [Ids -> Summaries] /\ session \in Users
    BY NoRowIsARow DEF Init
  <1>3. dialog \in Dialogs /\ badge \in Badges
    BY NothingTyped DEF Init
  <1>4. /\ phase \in {"off", "migrate", "seed", "login", "run", "noauth"}
        /\ front \in {"gtk", "qt"} /\ nextId \in 1..(MaxId + 1) /\ rung \in 0..5 /\ seeded \in 0..3
    BY AccessAssumption DEF Init
  <1>5. /\ pages \subseteq {"users", "audit"} /\ listed \subseteq Ids
        /\ picker \in {"none", "open", "orphan"}
        /\ changes \in 0..MaxChanges /\ crashes \in 0..MaxCrashes
        /\ missed \subseteq Ids /\ owed \in OwedRows
    BY AccessAssumption, NothingOwed DEF Init
  <1>6. StateOK
    BY <1>1, <1>2, <1>3, <1>4, <1>5 DEF StateOK
  <1>7. RowsInHand
    BY DEF Init, RowsInHand, NoDialog
  <1>8. QED
    BY <1>6, <1>7

\* A form was submitted, the presenter was called.
LEMMA SubmitTyped ==
  ASSUME StateOK, RowsInHand, NEW kind, Submit(kind), CallTyped, session'.id = session.id
  PROVE  StateOK' /\ RowsInHand'
  <1>1. dialog' \in Dialogs /\ dialog'.kind = "none"
    BY NothingTyped DEF Submit
  <1>2. QED
    BY <1>1 DEF StateOK, RowsInHand, Submit, KeepProcess, CallTyped

\* No presenter call signs anybody in or out.
LEMMA CallsKeepAccount ==
  ASSUME StateOK, session.id \in Ids,
         \/ \E n, r, p : create(n, r, p)
         \/ \E id, r, e : update(id, r, e)
         \/ \E id : remove(id)
         \/ \E id, p : resetPassword(id, p)
         \/ \E o, p : changeOwnPassword(o, p)
         \/ setOwnAvatar \/ clearOwnAvatar
  PROVE  session'.id = session.id
  <1>1. CASE KeepSession
    BY <1>1 DEF KeepSession
  <1>2. CASE RefreshOwn(session.id)
    BY <1>2 DEF RefreshOwn, setUser
  <1>3. KeepSession \/ RefreshOwn(session.id)
    BY Zenon DEF create, update, remove, resetPassword, changeOwnPassword, setOwnAvatar,
                 clearOwnAvatar, Refused
  <1>4. QED
    BY <1>1, <1>2, <1>3

\* Every step of the program keeps the types.
LEMMA StepTyped ==
  ASSUME StateOK, RowsInHand, [Next]_vars
  PROVE  StateOK' /\ RowsInHand'
  <1>1. CASE initialize \/ SeedNeeded
    <2>1. /\ phase = "migrate" \/ phase = "off"
          /\ phase' \in {"migrate", "noauth", "login", "seed"}
      BY <1>1 DEF initialize, SeedNeeded
    <2>2. UNCHANGED <<front, version, columns, users, nextId, ledger, missed, owed, rung, seeded,
                      session, pages, listed, badge, dialog, picker, changes, crashes>>
      BY <1>1 DEF initialize, SeedNeeded, disk, volatile
    <2>3. QED
      BY <2>1, <2>2 DEF StateOK, RowsInHand
  <1>2. CASE applyMigrations
    BY <1>2 DEF applyMigrations, LadderStep, StateOK, RowsInHand
  <1>3. CASE seedDefaultUsersIfEmpty
    <2> DEFINE entry == kSeed[seeded + 1]
    <2> DEFINE row == [role |-> entry.role, enabled |-> TRUE, name |-> entry.name,
                       pw |-> "seeded", avatar |-> FALSE]
    <2>1. seeded \in 0..2
      BY <1>3 DEF RowsInHand, seedDefaultUsersIfEmpty
    <2>2. entry.role \in Roles /\ entry.name \in Names
      BY <2>1 DEF kSeed, Names, Roles
    <2>3. row \in Rows /\ Summary(row) \in Summaries
      BY <2>2, RowFacts, Zenon DEF Rows, Passwords
    <2>4. CASE /\ nextId \in Ids
               /\ users'  = [users EXCEPT ![nextId] = row]
               /\ ledger' = [ledger EXCEPT ![nextId] = Summary(row)]
               /\ nextId' = nextId + 1
      <3>1. users' \in [Ids -> Rows] /\ ledger' \in [Ids -> Summaries]
        BY <2>3, <2>4 DEF StateOK
      <3>2. nextId' \in 1..(MaxId + 1)
        BY <2>4, AccessAssumption DEF Ids
      <3>3. QED
        BY <1>3, <2>1, <3>1, <3>2 DEF seedDefaultUsersIfEmpty, StateOK, RowsInHand
    <2>5. CASE UNCHANGED <<users, ledger, nextId>>
      BY <1>3, <2>1, <2>5 DEF seedDefaultUsersIfEmpty, StateOK, RowsInHand
    <2>6. QED
      BY <1>3, <2>4, <2>5 DEF seedDefaultUsersIfEmpty
  <1>4. ASSUME NEW n \in Names, NEW p \in Passwords, GtkLogin(n, p) \/ QtLogin(n, p)
        PROVE  StateOK' /\ RowsInHand'
    <2>1. PICK id \in Ids : /\ users[id].enabled /\ users[id].pw = p /\ UNCHANGED users
                            /\ setUser([id |-> id, row |-> users[id]])
      BY <1>4 DEF GtkLogin, QtLogin, login, findByUsername
    <2>2. users[id] \in Rows /\ users' \in [Ids -> Rows]
      BY <2>1 DEF StateOK
    <2>3. session' \in Users /\ session'.id = id
          /\ badge' \in Badges
      BY <2>1, <2>2, SetUserTyped
    <2>4. pages' \subseteq {"users", "audit"} /\ listed' \subseteq Ids /\ phase' = "run"
      BY <1>4 DEF GtkLogin, QtLogin, WindowFor, RolePages, QtRolePages, listAll
    <2>5. UNCHANGED <<front, version, columns, nextId, rung, seeded, dialog, picker, changes,
                      crashes, ledger, missed, owed>>
      BY <1>4 DEF GtkLogin, QtLogin, WindowFor, login
    <2>6. QED
      BY <2>2, <2>3, <2>4, <2>5 DEF StateOK, RowsInHand
  <1>5. ASSUME LeaveProcess, UNCHANGED changes, crashes' \in 0..MaxCrashes
        PROVE  StateOK' /\ RowsInHand'
    <2>1. /\ dialog' \in Dialogs /\ dialog'.kind = "none"
          /\ badge' \in Badges
      BY <1>5, NothingTyped DEF LeaveProcess
    <2>2. owed' \in OwedRows /\ missed' \subseteq Ids
      BY <1>5, NothingOwed DEF LeaveProcess, Unwritten, StateOK
    <2>3. QED
      BY <1>5, <2>1, <2>2, NoRowIsARow DEF LeaveProcess, StateOK, RowsInHand
  <1>6. CASE CancelLogin
    BY <1>5, <1>6 DEF CancelLogin, StateOK
  <1>7. CASE Crash
    BY <1>5, <1>7, AccessAssumption DEF Crash, StateOK
  <1>8. CASE GtkSignOut \/ QtSignOut
    <2>1. badge' \in Badges
      BY <1>8, NothingTyped DEF GtkSignOut, QtSignOut, logout
    <2>2. QED
      BY <1>8, <2>1, NoRowIsARow DEF GtkSignOut, QtSignOut, logout, disk, StateOK, RowsInHand
  <1>9. CASE GtkAuditRefresh \/ QtAuditRefresh
    BY <1>9 DEF GtkAuditRefresh, QtAuditRefresh, AuditRefresh, disk, StateOK, RowsInHand
  <1>10. CASE refresh \/ CancelDialog
    BY <1>10, NothingTyped DEF refresh, CancelDialog, KeepRest, disk, list, listAll, StateOK,
                               RowsInHand
  <1>11. ASSUME NEW kind \in DialogKinds, NEW id \in Ids \cup {0}, Open(kind, id),
                kind \in {"edit", "reset", "delete"} => id \in Ids
         PROVE  StateOK' /\ RowsInHand'
    <2>1. dialog' \in Dialogs
          /\ dialog'.kind = kind /\ dialog'.id = id
      BY <1>11 DEF Open, Dialogs
    <2>2. QED
      BY <1>11, <2>1 DEF Open, KeepRest, disk, StateOK, RowsInHand
  <1>12. CASE OpenAdd \/ OpenProfile
    BY <1>11, <1>12 DEF OpenAdd, OpenProfile, UserEditDialog, DialogKinds, RowsInHand
  <1>13. ASSUME NEW id \in Ids, GtkEdit(id) \/ QtEdit(id) \/ OpenReset(id) \/ OpenDelete(id)
         PROVE  StateOK' /\ RowsInHand'
    <2>1. CASE Open("edit", id) \/ Open("reset", id) \/ Open("delete", id)
      BY <1>11, <2>1 DEF DialogKinds
    <2>2. CASE listed' = list /\ UNCHANGED dialog /\ KeepRest
      BY <2>2 DEF KeepRest, disk, list, listAll, StateOK, RowsInHand
    <2>3. QED
      BY <1>13, <2>1, <2>2 DEF GtkEdit, QtEdit, OpenReset, OpenDelete, UserEditDialog
  <1>14. ASSUME NEW n \in Names, NEW r \in Roles, NEW p \in Typed, SubmitAdd(n, r, p)
         PROVE  StateOK' /\ RowsInHand'
    BY <1>14, CreateTyped, CallsKeepAccount, SubmitTyped DEF SubmitAdd, Submit, RowsInHand
  <1>15. ASSUME NEW r \in Roles, NEW e \in BOOLEAN, SubmitEdit(r, e)
         PROVE  StateOK' /\ RowsInHand'
    BY <1>15, UpdateTyped, CallsKeepAccount, SubmitTyped DEF SubmitEdit, Submit, RowsInHand
  <1>16. ASSUME NEW p \in Typed, SubmitReset(p)
         PROVE  StateOK' /\ RowsInHand'
    BY <1>16, ResetTyped, CallsKeepAccount, SubmitTyped DEF SubmitReset, Submit, RowsInHand
  <1>17. CASE ConfirmDelete
    BY <1>17, RemoveTyped, CallsKeepAccount, SubmitTyped DEF ConfirmDelete, Submit, RowsInHand
  <1>18. ASSUME NEW o \in Passwords, NEW p \in Typed,
                GtkChangePassword(o, p) \/ QtChangePassword(o, p)
         PROVE  StateOK' /\ RowsInHand'
    <2>1. CallTyped /\ session'.id = session.id
      BY <1>18, ChangeOwnTyped, CallsKeepAccount
      DEF GtkChangePassword, QtChangePassword, InProfile, RowsInHand
    <2>2. QED
      BY <1>18, <2>1, NothingTyped DEF GtkChangePassword, QtChangePassword, InProfile, KeepProcess,
                                       StateOK, RowsInHand, CallTyped
  <1>19. CASE onUploadClicked \/ onDoneClicked
    BY <1>19, NothingTyped DEF onUploadClicked, onDoneClicked, disk, StateOK, RowsInHand
  <1>20. ASSUME phase = "run", setOwnAvatar \/ clearOwnAvatar, KeepProcess,
                UNCHANGED <<dialog, pages>>, picker' \in {"none", "open", "orphan"}
         PROVE  StateOK' /\ RowsInHand'
    <2>1. CallTyped /\ session'.id = session.id
      BY <1>20, OwnAvatarTyped, CallsKeepAccount DEF RowsInHand
    <2>2. QED
      BY <1>20, <2>1 DEF KeepProcess, StateOK, RowsInHand, CallTyped
  <1>21. CASE PickerAnswers \/ onRemoveAvatarClicked
    BY <1>20, <1>21 DEF PickerAnswers, onRemoveAvatarClicked, InProfile, StateOK
  <1>22. CASE LatePicker
    <2>1. CASE LeaveProcess /\ UNCHANGED <<changes, crashes>>
      BY <1>5, <2>1 DEF StateOK
    <2>2. CASE /\ picker' = "none"
               /\ UNCHANGED <<phase, front, disk, rung, seeded, session, pages, listed,
                              badge, dialog, stale, auditShown, owed, changes, crashes>>
      BY <2>2 DEF disk, StateOK, RowsInHand
    <2>3. CASE /\ phase = "run" /\ picker' = "none"
               /\ UNCHANGED <<dialog, pages>> /\ KeepProcess /\ setOwnAvatar
      BY <1>20, <2>3
    <2>4. QED
      BY <1>22, <2>1, <2>2, <2>3 DEF LatePicker
  <1>23. CASE UNCHANGED vars
    BY <1>23 DEF vars, disk, volatile, StateOK, RowsInHand
  <1>24. CASE RecordOwed
    <2>1. ledger' \in [Ids -> Summaries] /\ missed' \subseteq Ids
      <3>1. owed.id \in Ids /\ owed.summary \in Summaries
        BY <1>24 DEF RecordOwed, Busy, StateOK, OwedRows
      <3>2. QED
        BY <1>24, <3>1, RecordTyped DEF RecordOwed, StateOK
    <2>2. listed' \subseteq Ids
      BY <1>24 DEF RecordOwed, list, listAll, StateOK
    <2>3. QED
      BY <1>24, <2>1, <2>2, NothingOwed
      DEF RecordOwed, KeepSession, KeepProcess, StateOK, RowsInHand
  <1>25. QED
    BY <1>1, <1>2, <1>3, <1>4, <1>6, <1>7, <1>8, <1>9, <1>10, <1>12, <1>13, <1>14, <1>15, <1>16,
       <1>17, <1>18, <1>19, <1>21, <1>22, <1>23, <1>24 DEF Next, Handler

\* The two flags are the only ones that are plain Booleans.
LEMMA CallFlags ==
  ASSUME FlagsOK,
         \/ \E n, r, p : create(n, r, p)
         \/ \E id, r, e : update(id, r, e)
         \/ \E id : remove(id)
         \/ \E id, p : resetPassword(id, p)
         \/ \E o, p : changeOwnPassword(o, p)
         \/ setOwnAvatar \/ clearOwnAvatar
  PROVE  FlagsOK'
  <1>1. CASE Refused
    BY <1>1, Zenon DEF Refused, KeepSession, FlagsOK
  <1>2. CASE (\E id, account : Owes(id, account)) /\ (KeepSession \/ \E id : RefreshOwn(id))
    <2>1. auditShown' \in BOOLEAN
      BY <1>2, Zenon DEF Owes, FlagsOK
    <2>2. stale' \in BOOLEAN
      BY <1>2, Zenon DEF KeepSession, RefreshOwn, FlagsOK
    <2>3. QED
      BY <2>1, <2>2 DEF FlagsOK
  <1>3. QED
    BY <1>1, <1>2, Zenon
    DEF create, update, remove, resetPassword, changeOwnPassword, setOwnAvatar, clearOwnAvatar

LEMMA StepFlags ==
  ASSUME FlagsOK, [Next]_vars
  PROVE  FlagsOK'
  <1> DEFINE Kept == UNCHANGED <<stale, auditShown>>
  <1>1. CASE Kept
    BY <1>1, Zenon DEF FlagsOK
  <1>2. initialize \/ applyMigrations \/ SeedNeeded \/ seedDefaultUsersIfEmpty => Kept
    BY DEF initialize, applyMigrations, SeedNeeded, seedDefaultUsersIfEmpty, disk, volatile
  <1>3. ASSUME NEW n \in Names, NEW p \in Passwords, GtkLogin(n, p) \/ QtLogin(n, p)
        PROVE  FlagsOK'
    <2>1. UNCHANGED stale
      BY <1>3 DEF GtkLogin, QtLogin, login, WindowFor
    <2>2. auditShown' \in BOOLEAN
      <3>1. PICK built : auditShown' = ("audit" \in built)
        BY <1>3, Zenon DEF GtkLogin, QtLogin, WindowFor
      <3>2. QED
        BY <3>1
    <2>3. QED
      BY <2>1, <2>2, Zenon DEF FlagsOK
  <1>4. CASE LeaveProcess
    BY <1>4, Zenon DEF LeaveProcess, FlagsOK
  <1>5. CASE GtkSignOut \/ QtSignOut
    BY <1>5, Zenon DEF GtkSignOut, QtSignOut, logout, disk, FlagsOK
  <1>6. CASE GtkAuditRefresh \/ QtAuditRefresh
    BY <1>6, Zenon DEF GtkAuditRefresh, QtAuditRefresh, AuditRefresh, disk, FlagsOK
  <1>7. KeepRest => Kept
    BY DEF KeepRest, disk
  <1>8. refresh \/ OpenAdd \/ CancelDialog \/ OpenProfile => Kept
    BY <1>7 DEF refresh, OpenAdd, CancelDialog, OpenProfile, Open, UserEditDialog
  <1>9. ASSUME NEW id \in Ids, GtkEdit(id) \/ QtEdit(id) \/ OpenReset(id) \/ OpenDelete(id)
        PROVE  Kept
    BY <1>7, <1>9 DEF GtkEdit, QtEdit, OpenReset, OpenDelete, Open, UserEditDialog
  <1>10. CASE \/ \E n \in Names, r \in Roles, p \in Typed : SubmitAdd(n, r, p)
              \/ \E r \in Roles, e \in BOOLEAN : SubmitEdit(r, e)
              \/ \E p \in Typed : SubmitReset(p)
              \/ ConfirmDelete
              \/ \E o \in Passwords, p \in Typed : GtkChangePassword(o, p) \/ QtChangePassword(o, p)
              \/ PickerAnswers \/ onRemoveAvatarClicked
    BY <1>10, CallFlags, Zenon
    DEF SubmitAdd, SubmitEdit, SubmitReset, ConfirmDelete, GtkChangePassword, QtChangePassword,
        PickerAnswers, onRemoveAvatarClicked
  <1>11. onUploadClicked \/ onDoneClicked => Kept
    BY DEF onUploadClicked, onDoneClicked, disk
  <1>12. CASE LatePicker
    <2>1. LeaveProcess \/ Kept \/ setOwnAvatar
      BY <1>12 DEF LatePicker, disk
    <2>2. QED
      BY <2>1, <1>1, <1>4, CallFlags, Zenon
  <1>13. UNCHANGED vars => Kept
    BY DEF vars, disk, volatile
  <1> HIDE DEF Kept
  <1>14. CASE CancelLogin \/ Crash
    BY <1>4, <1>14 DEF CancelLogin, Crash
  <1>15. CASE RecordOwed
    <2>1. UNCHANGED stale
      BY <1>15 DEF RecordOwed, KeepSession
    <2>2. auditShown' = auditShown \/ auditShown' = FALSE
      BY <1>15 DEF RecordOwed, record
    <2>3. QED
      BY <2>1, <2>2, Zenon DEF FlagsOK
  <1>16. QED
    BY <1>1, <1>2, <1>3, <1>5, <1>6, <1>8, <1>9, <1>10, <1>11, <1>12, <1>13, <1>14, <1>15, Zenon
    DEF Next, Handler

\* The types hold in every reachable state, and what is worked on is a row.
THEOREM TypeInvariant == Spec => [](TypeOK /\ RowsInHand)
  <1>1. Init => FlagsOK
    BY Zenon DEF Init, FlagsOK
  <1>2. QED
    BY <1>1, InitTyped, StepTyped, StepFlags, PTL DEF Spec, TypeOK

-----------------------------------------------------------------------------
(* The migration ladder.                                                   *)

\* The version stamp comes after the last column; a ladder that has begun in
\* this boot has added exactly the columns the table has.
MigrationInv ==
    /\ version = 2 => columns = 4
    /\ rung = 0 \/ columns = rung
    /\ phase = "off" => rung = 0
    /\ SignInMeansMigrated

\* Every step but those of process start leaves the schema alone, and none of
\* them ends the sign-in gate.
LEMMA SchemaKept ==
  ASSUME StateOK, [Next]_vars,
         ~initialize, ~applyMigrations, ~SeedNeeded, ~seedDefaultUsersIfEmpty
  PROVE  /\ UNCHANGED <<version, columns>>
         /\ \/ phase' = "off" /\ rung' = 0
            \/ UNCHANGED <<phase, rung>>
            \/ phase \in {"login", "run"} /\ phase' \in {"login", "run"} /\ UNCHANGED rung
  <1>1. KeepProcess => UNCHANGED <<version, columns, phase, rung>>
    BY DEF KeepProcess
  <1>2. KeepRest => UNCHANGED <<version, columns, phase, rung>>
    BY DEF KeepRest, disk
  <1>3. LeaveProcess => UNCHANGED <<version, columns>> /\ phase' = "off" /\ rung' = 0
    BY DEF LeaveProcess
  <1>4. ASSUME NEW n \in Names, NEW p \in Passwords, GtkLogin(n, p) \/ QtLogin(n, p)
        PROVE  phase = "login" /\ phase' = "run" /\ UNCHANGED <<version, columns, rung>>
    BY <1>4 DEF GtkLogin, QtLogin, OnLogin, WindowFor
  <1>5. GtkSignOut \/ QtSignOut =>
          phase = "run" /\ phase' = "login" /\ UNCHANGED <<version, columns, rung>>
    BY DEF GtkSignOut, QtSignOut, logout, disk
  <1>6. CASE \/ GtkAuditRefresh \/ QtAuditRefresh \/ onUploadClicked \/ onDoneClicked
             \/ UNCHANGED vars
    BY <1>6 DEF GtkAuditRefresh, QtAuditRefresh, AuditRefresh, onUploadClicked, onDoneClicked, vars,
                disk, volatile
  <1>7. CASE \/ refresh \/ OpenAdd \/ CancelDialog \/ OpenProfile
             \/ \E id \in Ids : GtkEdit(id) \/ QtEdit(id) \/ OpenReset(id) \/ OpenDelete(id)
    BY <1>2, <1>7 DEF refresh, OpenAdd, CancelDialog, OpenProfile, GtkEdit, QtEdit, OpenReset,
                      OpenDelete, Open, UserEditDialog
  <1>8. CASE \/ \E n \in Names, r \in Roles, p \in Typed : SubmitAdd(n, r, p)
             \/ \E r \in Roles, e \in BOOLEAN : SubmitEdit(r, e)
             \/ \E p \in Typed : SubmitReset(p)
             \/ ConfirmDelete
             \/ \E o \in Passwords, p \in Typed : GtkChangePassword(o, p) \/ QtChangePassword(o, p)
             \/ PickerAnswers \/ onRemoveAvatarClicked
    BY <1>1, <1>8 DEF SubmitAdd, SubmitEdit, SubmitReset, ConfirmDelete, Submit, GtkChangePassword,
                      QtChangePassword, PickerAnswers, onRemoveAvatarClicked, InProfile
  <1>9. CASE LatePicker
    BY <1>1, <1>3, <1>9 DEF LatePicker, disk
  <1>10. CASE CancelLogin \/ Crash
    BY <1>3, <1>10 DEF CancelLogin, Crash
  <1>11. CASE RecordOwed
    BY <1>1, <1>11 DEF RecordOwed
  <1>12. QED
    BY <1>4, <1>5, <1>6, <1>7, <1>8, <1>9, <1>10, <1>11 DEF Next, Handler

\* Crashes between any two statements of the ladder included, nobody signs in
\* to a table that lacks a column (SqliteUserRepository::applyMigrations).
THEOREM SignInIsMigrated == Spec => []SignInMeansMigrated
  <1>1. Init => MigrationInv
    BY DEF Init, MigrationInv, SignInMeansMigrated
  <1>2. ASSUME StateOK, MigrationInv, [Next]_vars
        PROVE  MigrationInv'
    <2>1. CASE initialize \/ SeedNeeded
      BY <1>2, <2>1
      DEF initialize, SeedNeeded, disk, volatile, MigrationInv, SignInMeansMigrated, StateOK
    <2>2. CASE applyMigrations
      BY <1>2, <2>2 DEF applyMigrations, LadderStep, MigrationInv, SignInMeansMigrated, StateOK
    <2>3. CASE seedDefaultUsersIfEmpty
      BY <1>2, <2>3 DEF seedDefaultUsersIfEmpty, MigrationInv, SignInMeansMigrated
    <2>4. CASE ~initialize /\ ~applyMigrations /\ ~SeedNeeded /\ ~seedDefaultUsersIfEmpty
      BY <1>2, <2>4, SchemaKept DEF MigrationInv, SignInMeansMigrated
    <2>5. QED
      BY <2>1, <2>2, <2>3, <2>4
  <1>3. QED
    BY <1>1, <1>2, TypeInvariant, PTL DEF Spec, TypeOK, MigrationInv

-----------------------------------------------------------------------------
(* The journal.                                                            *)

\* What a call leaves for the journal: the table has the row, the row that is
\* owed says what the table has, or nothing that the journal is about changed.
OwesChange ==
    \E id \in Ids, row \in Rows :
      /\ users' = [users EXCEPT ![id] = row]
      /\ owed'.id = id /\ owed'.account = TRUE /\ owed'.summary = Summary(row)
OwesName ==
    \E id \in Ids, row \in Rows :
      /\ users' = [users EXCEPT ![id] = row] /\ Summary(row) = Summary(users[id])
      /\ owed'.account = FALSE

\* What a handler does to the table and the journal: nothing, a call that owes
\* a row, a seeded account, or the end of the process.
Seeds ==
    \E id \in Ids, row \in Rows :
      /\ users' = [users EXCEPT ![id] = row]
      /\ ledger' = [ledger EXCEPT ![id] = Summary(row)]
Journalled ==
    \/ UNCHANGED <<users, ledger, missed, owed>>
    \/ UNCHANGED <<ledger, missed>> /\ (OwesChange \/ OwesName)
    \/ UNCHANGED <<missed, owed>> /\ Seeds
    \/ UNCHANGED <<users, ledger>> /\ owed' = NoOwed /\ missed' = missed \cup Unwritten

LEMMA ChangeOwed ==
  ASSUME StateOK, NEW id \in Ids, NEW row \in Rows, StoreRow(id, row), Owes(id, TRUE)
  PROVE  Journalled
  <1>1. users' = [users EXCEPT ![id] = row] /\ users'[id] = row
    BY DEF StoreRow, StateOK
  <1>2. owed' = [id |-> id, summary |-> Summary(row), account |-> TRUE]
    BY <1>1 DEF Owes
  <1>3. owed'.id = id /\ owed'.account = TRUE /\ owed'.summary = Summary(row)
    BY <1>2, Zenon
  <1>4. QED
    BY <1>1, <1>3, Zenon DEF Owes, Journalled, OwesChange

\* A new password or picture changes nothing the journal is about.
LEMMA NameOwed ==
  ASSUME StateOK, NEW id \in Ids, NEW row, StoreRow(id, row), Owes(id, FALSE),
         \/ \E p \in Passwords : row = [users[id] EXCEPT !.pw = p]
         \/ \E a \in BOOLEAN : row = [users[id] EXCEPT !.avatar = a]
  PROVE  Journalled
  <1>1. users[id] \in Rows
    BY DEF StateOK
  <1>2. row \in Rows /\ Summary(row) = Summary(users[id])
    BY <1>1, PasswordWritten, AvatarWritten
  <1>3. users' = [users EXCEPT ![id] = row]
    BY DEF StoreRow
  <1>4. owed'.account = FALSE
    BY DEF Owes
  <1>5. QED
    BY <1>2, <1>3, <1>4, Zenon DEF Owes, Journalled, OwesName

LEMMA RefusedJournalled ==
  ASSUME Refused
  PROVE  Journalled
  BY Zenon DEF Refused, Journalled

LEMMA CreateJournalled ==
  ASSUME StateOK, NEW name \in Names, NEW role \in Roles, NEW password \in Typed,
         create(name, role, password)
  PROVE  Journalled
  <1> DEFINE row == [role |-> role, enabled |-> TRUE, name |-> name, pw |-> password,
                     avatar |-> FALSE]
  <1>1. CASE /\ isValidPassword(password) /\ nextId \in Ids
             /\ StoreRow(nextId, row) /\ Owes(nextId, TRUE)
    <2>1. row \in Rows
      BY <1>1 DEF Rows, isValidPassword
    <2> HIDE DEF row
    <2>2. QED
      BY <1>1, <2>1, ChangeOwed
  <1>2. QED
    BY <1>1, RefusedJournalled DEF create, InsertRow

LEMMA UpdateJournalled ==
  ASSUME StateOK, NEW id \in Ids, NEW role \in Roles, NEW enabled \in BOOLEAN,
         update(id, role, enabled)
  PROVE  Journalled
  <1> DEFINE row == [users[id] EXCEPT !.role = role, !.enabled = enabled]
  <1>1. CASE StoreRow(id, row) /\ Owes(id, TRUE)
    <2>1. users[id] \in Rows
      BY DEF StateOK
    <2>2. row \in Rows
      BY <2>1 DEF Rows
    <2> HIDE DEF row
    <2>3. QED
      BY <1>1, <2>2, ChangeOwed
  <1>2. QED
    BY <1>1, RefusedJournalled DEF update, UpdateRow

LEMMA RemoveJournalled ==
  ASSUME StateOK, NEW id \in Ids, remove(id)
  PROVE  Journalled
  <1>1. CASE StoreRow(id, NoRow) /\ Owes(id, TRUE)
    BY <1>1, NoRowIsARow, ChangeOwed
  <1>2. QED
    BY <1>1, RefusedJournalled DEF remove, DeleteRow

LEMMA PasswordJournalled ==
  ASSUME StateOK, session.id \in Ids, NEW password \in Typed,
         \/ \E id \in Ids : resetPassword(id, password)
         \/ \E old : changeOwnPassword(old, password)
  PROVE  Journalled
  <1>1. CASE \E id \in Ids : /\ isValidPassword(password)
                             /\ StoreRow(id, [users[id] EXCEPT !.pw = password])
                             /\ Owes(id, FALSE)
    BY <1>1, NameOwed DEF isValidPassword
  <1>2. QED
    BY <1>1, RefusedJournalled DEF resetPassword, changeOwnPassword, UpdateRow

LEMMA AvatarJournalled ==
  ASSUME StateOK, session.id \in Ids, setOwnAvatar \/ clearOwnAvatar
  PROVE  Journalled
  <1>1. CASE \E a \in BOOLEAN : /\ StoreRow(session.id, [users[session.id] EXCEPT !.avatar = a])
                                /\ Owes(session.id, FALSE)
    BY <1>1, NameOwed
  <1>2. QED
    BY <1>1, RefusedJournalled DEF setOwnAvatar, clearOwnAvatar, setAvatar, clearAvatar, UpdateRow

LEMMA StepJournalled ==
  ASSUME StateOK, RowsInHand, [Next]_vars, ~RecordOwed
  PROVE  Journalled
  <1> DEFINE Kept == UNCHANGED <<users, ledger, missed, owed>>
  <1>1. Kept => Journalled
    BY Zenon DEF Journalled
  <1>2. initialize \/ applyMigrations \/ SeedNeeded => Kept
    BY DEF initialize, applyMigrations, SeedNeeded, disk, volatile
  <1>3. CASE seedDefaultUsersIfEmpty
    <2> DEFINE entry == kSeed[seeded + 1]
    <2> DEFINE row == [role |-> entry.role, enabled |-> TRUE, name |-> entry.name,
                       pw |-> "seeded", avatar |-> FALSE]
    <2>1. entry.role \in Roles /\ entry.name \in Names
      BY <1>3 DEF RowsInHand, seedDefaultUsersIfEmpty, kSeed, Names, Roles
    <2>2. row \in Rows
      BY <2>1, Zenon DEF Rows, Passwords
    <2>3. UNCHANGED <<missed, owed>>
      BY <1>3 DEF seedDefaultUsersIfEmpty
    <2> HIDE DEF entry
    <2>4. \/ UNCHANGED <<users, ledger>>
          \/ /\ nextId \in Ids /\ users' = [users EXCEPT ![nextId] = row]
             /\ ledger' = [ledger EXCEPT ![nextId] = Summary(row)]
      BY <1>3, Zenon DEF seedDefaultUsersIfEmpty, entry
    <2> HIDE DEF row
    <2>5. UNCHANGED <<users, ledger>> \/ Seeds
      BY <2>2, <2>4, Zenon DEF Seeds
    <2>6. QED
      BY <2>3, <2>5, Zenon DEF Journalled
  <1>4. ASSUME NEW n \in Names, NEW p \in Passwords, GtkLogin(n, p) \/ QtLogin(n, p)
        PROVE  Kept
    BY <1>4 DEF GtkLogin, QtLogin, login, WindowFor
  <1>5. LeaveProcess => Journalled
    BY Zenon DEF LeaveProcess, Journalled
  <1>6. GtkSignOut \/ QtSignOut \/ GtkAuditRefresh \/ QtAuditRefresh => Kept
    BY DEF GtkSignOut, QtSignOut, logout, GtkAuditRefresh, QtAuditRefresh, AuditRefresh, disk
  <1>7. KeepRest => Kept
    BY DEF KeepRest, disk
  <1>8. refresh \/ OpenAdd \/ CancelDialog \/ OpenProfile => Kept
    BY <1>7 DEF refresh, OpenAdd, CancelDialog, OpenProfile, Open, UserEditDialog
  <1>9. ASSUME NEW id \in Ids, GtkEdit(id) \/ QtEdit(id) \/ OpenReset(id) \/ OpenDelete(id)
        PROVE  Kept
    BY <1>7, <1>9 DEF GtkEdit, QtEdit, OpenReset, OpenDelete, Open, UserEditDialog
  <1>10. ASSUME NEW n \in Names, NEW r \in Roles, NEW p \in Typed, SubmitAdd(n, r, p)
         PROVE  Journalled
    BY <1>10, CreateJournalled DEF SubmitAdd
  <1>11. ASSUME NEW r \in Roles, NEW e \in BOOLEAN, SubmitEdit(r, e)
         PROVE  Journalled
    BY <1>11, UpdateJournalled DEF SubmitEdit, Submit, RowsInHand
  <1>12. ASSUME NEW p \in Typed, SubmitReset(p)
         PROVE  Journalled
    BY <1>12, PasswordJournalled DEF SubmitReset, Submit, RowsInHand
  <1>13. CASE ConfirmDelete
    BY <1>13, RemoveJournalled DEF ConfirmDelete, Submit, RowsInHand
  <1>14. ASSUME NEW o \in Passwords, NEW p \in Typed,
                GtkChangePassword(o, p) \/ QtChangePassword(o, p)
         PROVE  Journalled
    BY <1>14, PasswordJournalled DEF GtkChangePassword, QtChangePassword, InProfile, RowsInHand
  <1>15. CASE PickerAnswers \/ onRemoveAvatarClicked
    BY <1>15, AvatarJournalled DEF PickerAnswers, onRemoveAvatarClicked, InProfile, RowsInHand
  <1>16. onUploadClicked \/ onDoneClicked => Kept
    BY DEF onUploadClicked, onDoneClicked, disk
  <1>17. CASE LatePicker
    BY <1>1, <1>5, <1>17, AvatarJournalled DEF LatePicker, disk, RowsInHand
  <1>18. UNCHANGED vars => Kept
    BY DEF vars, disk, volatile
  <1>19. CancelLogin \/ Crash => Journalled
    BY <1>5 DEF CancelLogin, Crash
  <1> HIDE DEF Kept
  <1>20. QED
    BY <1>1, <1>2, <1>3, <1>4, <1>6, <1>8, <1>9, <1>10, <1>11, <1>12, <1>13, <1>14, <1>15, <1>16,
       <1>17, <1>18, <1>19 DEF Next, Handler

\* The row that is owed says what the table has.
OwedInv ==
    owed.account = TRUE => owed.id \in Ids /\ owed.summary = Summary(users[owed.id])

\* Only a row that is still owed is unwritten.
LEMMA UnwrittenIs ==
  ASSUME StateOK
  PROVE  /\ owed.account = FALSE => Unwritten = {}
         /\ owed.account = TRUE => Unwritten = {owed.id} \cap Ids
  BY DEF StateOK, OwedRows, Unwritten

\* A call starts from a journal that owes nothing.
LEMMA HandlerIdle ==
  ASSUME StateOK, OwedInv, [Next]_vars, ~RecordOwed, owed.account = TRUE
  PROVE  UNCHANGED <<users, ledger, missed, owed>> \/ LeaveProcess
  <1>1. Busy
    BY DEF OwedInv, Busy, Ids
  <1>2. QED
    BY <1>1 DEF Next, Crash, vars, disk, volatile

LEMMA JournalStep ==
  ASSUME StateOK, StateOK', RowsInHand, OwedInv, JournalTellsAccounts, [Next]_vars
  PROVE  OwedInv' /\ JournalTellsAccounts'
  <1> DEFINE Told(id) == ledger[id] = Summary(users[id])
  <1>0. owed.account \in BOOLEAN /\ owed'.account \in BOOLEAN
    BY DEF StateOK, OwedRows
  <1>1. CASE UNCHANGED <<users, ledger, missed, owed>>
    BY <1>1 DEF OwedInv, JournalTellsAccounts, Unwritten
  <1>2. CASE UNCHANGED <<users, ledger>> /\ owed' = NoOwed /\ missed' = missed \cup Unwritten
    <2>1. OwedInv'
      BY <1>2, NothingOwed DEF OwedInv
    <2>2. QED
      BY <1>2, <2>1 DEF JournalTellsAccounts
  <1>3. CASE RecordOwed
    <2>1. UNCHANGED users /\ owed' = NoOwed
      BY <1>3 DEF RecordOwed
    <2>2. OwedInv'
      BY <2>1, NothingOwed DEF OwedInv
    <2>3. CASE owed.account = TRUE
      <3>1. owed.id \in Ids /\ owed.summary = Summary(users[owed.id]) /\ record(owed.summary, owed.id)
        BY <1>3, <2>3 DEF RecordOwed, OwedInv
      <3>2. Unwritten = {owed.id}
        BY <2>3, <3>1, UnwrittenIs
      <3>3. ASSUME NEW id \in Ids, id \notin missed'
            PROVE  ledger'[id] = Summary(users'[id])
        <4>1. CASE ledger' = [ledger EXCEPT ![owed.id] = owed.summary] /\ missed' = missed \ {owed.id}
          <5>1. CASE id = owed.id
            BY <2>1, <3>1, <4>1, <5>1 DEF StateOK
          <5>2. CASE id # owed.id
            BY <2>1, <3>1, <3>2, <3>3, <4>1, <5>2 DEF StateOK, JournalTellsAccounts
          <5>3. QED
            BY <5>1, <5>2
        <4>2. CASE missed' = missed \cup {owed.id} /\ UNCHANGED ledger
          BY <2>1, <3>2, <3>3, <4>2 DEF JournalTellsAccounts
        <4>3. QED
          BY <3>1, <4>1, <4>2 DEF record
      <3>4. QED
        BY <2>2, <3>3 DEF JournalTellsAccounts
    <2>4. CASE owed.account = FALSE
      <3>1. UNCHANGED <<ledger, missed>>
        BY <1>3, <2>4 DEF RecordOwed
      <3>2. Unwritten = {}
        BY <2>4, UnwrittenIs
      <3>3. QED
        BY <2>1, <2>2, <3>1, <3>2 DEF JournalTellsAccounts
    <2>5. QED
      BY <1>0, <2>3, <2>4
  <1>4. CASE owed.account = FALSE /\ ~RecordOwed /\ Journalled
    <2>1. Unwritten = {}
      BY <1>4, UnwrittenIs
    <2>2. \A id \in Ids \ missed : Told(id)
      BY <2>1 DEF JournalTellsAccounts
    <2>3. CASE UNCHANGED <<ledger, missed>> /\ OwesChange
      <3>1. PICK id \in Ids, row \in Rows :
              /\ users' = [users EXCEPT ![id] = row]
              /\ owed'.id = id /\ owed'.account = TRUE /\ owed'.summary = Summary(row)
        BY <2>3, Zenon DEF OwesChange
      <3>2. users'[id] = row /\ \A k \in Ids : k # id => users'[k] = users[k]
        BY <3>1 DEF StateOK
      <3>3. OwedInv'
        BY <3>1, <3>2 DEF OwedInv
      <3>4. Unwritten' = {id}
        BY <3>1 DEF Unwritten
      <3>5. QED
        BY <2>2, <2>3, <3>2, <3>3, <3>4 DEF JournalTellsAccounts
    <2>4. CASE UNCHANGED <<ledger, missed>> /\ OwesName
      <3>1. PICK id \in Ids, row \in Rows :
              /\ users' = [users EXCEPT ![id] = row] /\ Summary(row) = Summary(users[id])
              /\ owed'.account = FALSE
        BY <2>4, Zenon DEF OwesName
      <3>2. users'[id] = row /\ \A k \in Ids : k # id => users'[k] = users[k]
        BY <3>1 DEF StateOK
      <3>3. \A k \in Ids : Summary(users'[k]) = Summary(users[k])
        BY <3>1, <3>2
      <3>4. OwedInv'
        BY <3>1 DEF OwedInv
      <3>5. QED
        BY <2>2, <2>4, <3>3, <3>4 DEF JournalTellsAccounts
    <2>5. CASE UNCHANGED <<missed, owed>> /\ Seeds
      <3>1. PICK id \in Ids, row \in Rows :
              /\ users' = [users EXCEPT ![id] = row]
              /\ ledger' = [ledger EXCEPT ![id] = Summary(row)]
        BY <2>5, Zenon DEF Seeds
      <3>2. \A k \in Ids \ missed : ledger'[k] = Summary(users'[k])
        BY <2>2, <3>1 DEF StateOK
      <3>3. OwedInv'
        BY <1>4, <2>5 DEF OwedInv
      <3>4. QED
        BY <2>5, <3>2, <3>3 DEF JournalTellsAccounts
    <2>6. QED
      BY <1>1, <1>2, <1>4, <2>3, <2>4, <2>5, Zenon DEF Journalled
  <1>5. CASE owed.account = TRUE /\ ~RecordOwed
    BY <1>1, <1>2, <1>5, HandlerIdle DEF LeaveProcess
  <1>6. QED
    BY <1>0, <1>3, <1>4, <1>5, StepJournalled

\* Replaying the journal gives the accounts but for those whose newest change
\* has no row: no order of calls and refusals, no failed INSERT and no crash
\* between the table's statement and the journal's (UsersPresenter::create,
\* update and remove) makes it wrong about another account.
THEOREM JournalIsAccounts == Spec => []JournalTellsAccounts
  <1>1. Init => OwedInv /\ JournalTellsAccounts
    BY NothingOwed DEF Init, OwedInv, JournalTellsAccounts, NoSummary
  <1>2. QED
    BY <1>1, JournalStep, TypeInvariant, PTL DEF Spec, TypeOK

-----------------------------------------------------------------------------
(* The snapshots of the signed-in account.                                 *)

\* AUTOINCREMENT has handed out no id from nextId on.
FreshIds == \A id \in Ids : id >= nextId => users[id] = NoRow

SnapshotOf(s, b, row) ==
    /\ row.enabled = TRUE
    /\ s.row.role = row.role /\ s.row.avatar = row.avatar
    /\ b = [role |-> row.role, avatar |-> row.avatar, on |-> TRUE]

\* Somebody is signed in, on a row that was handed out, and unless a re-read
\* failed what he sees is the row.
SignedInSound ==
    /\ FreshIds
    /\ session.id \in Ids /\ session.id < nextId
    /\ stale = FALSE => SnapshotOf(session, badge, users[session.id])

AccountInv ==
    /\ FreshIds
    /\ phase = "run" => SignedInSound

\* A row handed out is rewritten: the later ids stay free.
LEMMA StoreKeepsFresh ==
  ASSUME StateOK, FreshIds, NEW id \in Ids, NEW row, StoreRow(id, row),
         \/ id < nextId /\ UNCHANGED nextId
         \/ id = nextId /\ nextId' = nextId + 1
  PROVE  FreshIds' /\ nextId' >= nextId /\ nextId' \in Nat
  <1>1. nextId \in Nat /\ users' = [users EXCEPT ![id] = row] /\ id \in Nat
    BY AccessAssumption DEF StateOK, StoreRow, Ids
  <1>2. ASSUME NEW k \in Ids, k >= nextId'
        PROVE  users'[k] = NoRow
    <2>1. k # id /\ k >= nextId
      BY <1>1, <1>2 DEF Ids
    <2>2. QED
      BY <1>1, <2>1 DEF StateOK, FreshIds
  <1>3. QED
    BY <1>1, <1>2 DEF FreshIds

\* A row that exists was handed out.
LEMMA ExistsIsOld ==
  ASSUME StateOK, FreshIds, NEW id \in Ids, Exists(id)
  PROVE  id < nextId
  BY AccessAssumption DEF StateOK, FreshIds, Exists, Ids

\* Another row changes, the session keeps its snapshot.
LEMMA OtherRowChanges ==
  ASSUME StateOK, SignedInSound, NEW id \in Ids, NEW row, StoreRow(id, row), KeepSession,
         id # session.id,
         \/ id < nextId /\ UNCHANGED nextId
         \/ id = nextId /\ nextId' = nextId + 1
  PROVE  SignedInSound'
  <1>1. FreshIds' /\ nextId' >= nextId /\ nextId' \in Nat /\ nextId \in Nat
    BY StoreKeepsFresh, AccessAssumption DEF SignedInSound, StateOK
  <1>2. users'[session.id] = users[session.id]
    BY DEF StoreRow, StateOK, SignedInSound
  <1>3. session'.id \in Ids /\ session'.id < nextId'
    BY <1>1 DEF KeepSession, SignedInSound, Ids
  <1>4. (stale' = FALSE) => SnapshotOf(session', badge', users'[session'.id])
    BY <1>2, Zenon DEF KeepSession, SignedInSound
  <1>5. QED
    BY <1>1, <1>3, <1>4, Zenon DEF SignedInSound

\* The own row changes in nothing that is shown.
LEMMA OwnRowLooksSame ==
  ASSUME StateOK, SignedInSound, NEW row, StoreRow(session.id, row), KeepSession,
         UNCHANGED nextId,
         row.role = users[session.id].role, row.enabled = users[session.id].enabled,
         row.avatar = users[session.id].avatar
  PROVE  SignedInSound'
  <1>1. FreshIds'
    BY StoreKeepsFresh DEF SignedInSound
  <1>2. users'[session.id] = row
    BY DEF StoreRow, StateOK, SignedInSound
  <1>3. session'.id \in Ids /\ session'.id < nextId'
    BY DEF KeepSession, SignedInSound
  <1>4. (stale' = FALSE) => SnapshotOf(session', badge', users'[session'.id])
    BY <1>2, Zenon DEF KeepSession, SignedInSound, SnapshotOf
  <1>5. QED
    BY <1>1, <1>3, <1>4, Zenon DEF SignedInSound

\* The own row changes and is read again.
LEMMA OwnRowRead ==
  ASSUME StateOK, SignedInSound, NEW row, StoreRow(session.id, row), RefreshOwn(session.id),
         UNCHANGED nextId,
         row.enabled = TRUE \/ row.enabled = users[session.id].enabled
  PROVE  SignedInSound'
  <1>1. FreshIds'
    BY StoreKeepsFresh DEF SignedInSound
  <1>2. users'[session.id] = row
    BY DEF StoreRow, StateOK, SignedInSound
  <1>3. session'.id = session.id
    BY DEF RefreshOwn, setUser
  <1>4. session'.id \in Ids /\ session'.id < nextId'
    BY <1>3 DEF SignedInSound
  <1>5. (stale' = FALSE) => SnapshotOf(session', badge', users'[session'.id])
    <2>1. CASE stale' = TRUE
      BY <2>1
    <2>2. CASE setUser([id |-> session.id, row |-> users'[session.id]]) /\ UNCHANGED stale
      <3>1. session' = [id |-> session.id, row |-> row]
        BY <1>2, <2>2, Zenon DEF setUser
      <3>2. session' # NoUser
        BY <1>3 DEF NoUser, SignedInSound, Ids
      <3>3. session'.row = row
        BY <3>1
      <3>4. badge' = [role |-> row.role, avatar |-> row.avatar, on |-> TRUE]
        BY <1>2, <1>3, <2>2, <3>1, <3>2, <3>3 DEF setUser, BadgeOf, getAvatar
      <3>5. stale' = FALSE => row.enabled = TRUE
        BY <2>2, Zenon DEF SignedInSound, SnapshotOf
      <3>6. QED
        BY <1>2, <1>3, <3>3, <3>4, <3>5, Zenon DEF SnapshotOf
    <2>3. QED
      BY <2>1, <2>2, Zenon DEF RefreshOwn
  <1>6. QED
    BY <1>1, <1>4, <1>5, Zenon DEF SignedInSound

LEMMA RefusedSound ==
  ASSUME SignedInSound, Refused
  PROVE  SignedInSound'
  BY Zenon DEF SignedInSound, Refused, KeepSession, FreshIds

\* One lemma for the calls of UsersPresenter and ProfilePresenter.
LEMMA CallsSound ==
  ASSUME StateOK, SignedInSound,
         \/ \E n \in Names, r \in Roles, p \in Typed : create(n, r, p)
         \/ \E id \in Ids, r \in Roles, e \in BOOLEAN : update(id, r, e)
         \/ \E id \in Ids : remove(id)
         \/ \E id \in Ids, p \in Typed : resetPassword(id, p)
         \/ \E o \in Passwords, p \in Typed : changeOwnPassword(o, p)
         \/ setOwnAvatar \/ clearOwnAvatar
  PROVE  SignedInSound'
  <1>1. CASE Refused
    BY <1>1, RefusedSound
  <1>2. ASSUME NEW n \in Names, NEW r \in Roles, NEW p \in Typed, create(n, r, p)
        PROVE  SignedInSound'
    <2>1. CASE ~Refused
      <3>1. nextId \in Ids /\ KeepSession /\ nextId' = nextId + 1 /\ \E row : StoreRow(nextId, row)
        BY <1>2, <2>1 DEF create, InsertRow
      <3>2. nextId # session.id
        BY DEF SignedInSound, StateOK, Ids
      <3>3. QED
        BY <3>1, <3>2, OtherRowChanges
    <2>2. QED
      BY <2>1, RefusedSound
  <1>3. ASSUME NEW id \in Ids, NEW row, UpdateRow(id, row), KeepSession, id # session.id
        PROVE  SignedInSound'
    BY <1>3, ExistsIsOld, OtherRowChanges DEF UpdateRow, SignedInSound
  <1>4. ASSUME NEW id \in Ids, NEW r \in Roles, NEW e \in BOOLEAN, update(id, r, e)
        PROVE  SignedInSound'
    <2> DEFINE row == [users[id] EXCEPT !.role = r, !.enabled = e]
    <2>1. CASE /\ UpdateAllowed(id, e) /\ UpdateRow(id, row) /\ id = session.id /\ RefreshOwn(id)
      <3>1. row.enabled = TRUE
        <4>1. e = TRUE
          BY <2>1 DEF UpdateAllowed
        <4>2. users[id] \in Rows
          BY DEF StateOK
        <4>3. QED
          BY <4>1, <4>2 DEF Rows
      <3> HIDE DEF row
      <3>2. QED
        BY <2>1, <3>1, OwnRowRead DEF UpdateRow
    <2>2. CASE UpdateRow(id, row) /\ id # session.id /\ KeepSession
      BY <1>3, <2>2
    <2> HIDE DEF row
    <2>3. QED
      BY <1>1, <1>4, <2>1, <2>2, Zenon DEF update, row
  <1>5. ASSUME NEW id \in Ids, remove(id)
        PROVE  SignedInSound'
    <2>1. CASE id # session.id /\ DeleteRow(id) /\ KeepSession
      BY <2>1, ExistsIsOld, OtherRowChanges DEF DeleteRow, SignedInSound
    <2>2. QED
      BY <1>1, <1>5, <2>1 DEF remove
  <1>6. ASSUME NEW id \in Ids, NEW p \in Typed, isValidPassword(p), KeepSession,
               UpdateRow(id, [users[id] EXCEPT !.pw = p])
        PROVE  SignedInSound'
    <2> DEFINE row == [users[id] EXCEPT !.pw = p]
    <2>1. users[id] \in Rows /\ p \in Passwords
      BY <1>6 DEF StateOK, isValidPassword
    <2>2. /\ row.role = users[id].role /\ row.enabled = users[id].enabled
          /\ row.avatar = users[id].avatar
      BY <2>1, PasswordWritten
    <2>3. UpdateRow(id, row)
      BY <1>6
    <2> HIDE DEF row
    <2>4. QED
      BY <1>3, <1>6, <2>2, <2>3, OwnRowLooksSame DEF UpdateRow
  <1>7. ASSUME \/ \E id \in Ids, p \in Typed : resetPassword(id, p)
               \/ \E o \in Passwords, p \in Typed : changeOwnPassword(o, p)
        PROVE  SignedInSound'
    BY <1>1, <1>6, <1>7 DEF resetPassword, changeOwnPassword, SignedInSound
  <1>8. ASSUME NEW a \in BOOLEAN, RefreshOwn(session.id),
               UpdateRow(session.id, [users[session.id] EXCEPT !.avatar = a])
        PROVE  SignedInSound'
    <2> DEFINE row == [users[session.id] EXCEPT !.avatar = a]
    <2>1. users[session.id] \in Rows
      BY DEF StateOK, SignedInSound
    <2>2. row.enabled = users[session.id].enabled
      BY <2>1, AvatarWritten
    <2>3. UpdateRow(session.id, row)
      BY <1>8
    <2> HIDE DEF row
    <2>4. QED
      BY <1>8, <2>2, <2>3, OwnRowRead DEF UpdateRow
  <1>9. CASE setOwnAvatar \/ clearOwnAvatar
    BY <1>1, <1>8, <1>9 DEF setOwnAvatar, clearOwnAvatar, setAvatar, clearAvatar
  <1>10. QED
    BY <1>2, <1>4, <1>5, <1>7, <1>9

\* The sign-in reads the row it then shows.
LEMMA LoginSound ==
  ASSUME StateOK, FreshIds, NEW n \in Names, NEW p \in Passwords,
         GtkLogin(n, p) \/ QtLogin(n, p)
  PROVE  SignedInSound'
  <1>1. PICK id \in Ids : /\ users[id].name = n /\ users[id].enabled /\ UNCHANGED users
                          /\ setUser([id |-> id, row |-> users[id]])
    BY DEF GtkLogin, QtLogin, login, findByUsername
  <1>2. UNCHANGED nextId
    BY DEF GtkLogin, QtLogin, WindowFor
  <1>3. users[id] # NoRow
    <2>1. n # "none"
      BY DEF Names, kSeed
    <2>2. QED
      BY <1>1, <2>1 DEF NoRow
  <1>4. id < nextId
    BY <1>3, ExistsIsOld DEF Exists
  <1>5. session' = [id |-> id, row |-> users[id]] /\ session'.id = id /\ session'.row = users[id]
    BY <1>1 DEF setUser
  <1>6. session' # NoUser
    BY <1>5 DEF NoUser, Ids
  <1>7. badge' = [role |-> users[id].role, avatar |-> users[id].avatar, on |-> TRUE]
    BY <1>1, <1>5, <1>6 DEF setUser, BadgeOf, getAvatar
  <1>8. users[id].enabled = TRUE
    <2>1. users[id].enabled \in BOOLEAN
      BY RowFacts DEF StateOK
    <2>2. QED
      BY <1>1, <2>1
  <1>9. SnapshotOf(session', badge', users'[session'.id])
    BY <1>1, <1>5, <1>7, <1>8, Zenon DEF SnapshotOf
  <1>10. FreshIds' /\ session'.id \in Ids /\ session'.id < nextId'
    BY <1>1, <1>2, <1>4, <1>5 DEF FreshIds
  <1>11. QED
    BY <1>9, <1>10, Zenon DEF SignedInSound

\* A step that leaves the accounts, the session and its badge alone.
LEMMA QuietStep ==
  ASSUME AccountInv, UNCHANGED <<users, nextId>>,
         \/ phase' # "run"
         \/ phase = "run" /\ UNCHANGED <<session, badge, stale>>
  PROVE  AccountInv'
  BY Zenon DEF AccountInv, SignedInSound, FreshIds

LEMMA AccountStep ==
  ASSUME StateOK, RowsInHand, AccountInv, [Next]_vars
  PROVE  AccountInv'
  <1>1. SignedInSound' => AccountInv'
    BY Zenon DEF AccountInv, SignedInSound
  <1>2. CASE initialize \/ applyMigrations \/ SeedNeeded
    BY <1>2, QuietStep DEF initialize, applyMigrations, SeedNeeded, disk
  <1>3. CASE seedDefaultUsersIfEmpty
    <2>1. phase' # "run"
      BY <1>3 DEF seedDefaultUsersIfEmpty
    <2>2. nextId \in Nat /\ users \in [Ids -> Rows]
      BY AccessAssumption DEF StateOK
    <2>3. \/ UNCHANGED <<users, nextId>>
          \/ \E row : nextId \in Ids /\ users' = [users EXCEPT ![nextId] = row] /\ nextId' = nextId + 1
      BY <1>3 DEF seedDefaultUsersIfEmpty
    <2>4. FreshIds'
      <3>1. ASSUME NEW row, nextId \in Ids, users' = [users EXCEPT ![nextId] = row],
                   nextId' = nextId + 1, NEW k \in Ids, k >= nextId'
            PROVE  users'[k] = NoRow
        <4>1. k # nextId /\ k >= nextId
          BY <2>2, <3>1 DEF Ids
        <4>2. QED
          BY <2>2, <3>1, <4>1 DEF AccountInv, FreshIds
      <3>2. QED
        BY <2>3, <3>1 DEF AccountInv, FreshIds
    <2>5. QED
      BY <2>1, <2>4, Zenon DEF AccountInv
  <1>4. ASSUME NEW n \in Names, NEW p \in Passwords, GtkLogin(n, p) \/ QtLogin(n, p)
        PROVE  AccountInv'
    BY <1>1, <1>4, LoginSound DEF AccountInv
  <1>5. CASE LeaveProcess \/ GtkSignOut \/ QtSignOut
    BY <1>5, QuietStep DEF LeaveProcess, GtkSignOut, QtSignOut, logout, disk
  <1>6. CASE \/ GtkAuditRefresh \/ QtAuditRefresh \/ onUploadClicked \/ onDoneClicked
             \/ UNCHANGED vars
    BY <1>6, QuietStep DEF GtkAuditRefresh, QtAuditRefresh, AuditRefresh, onUploadClicked,
                           onDoneClicked, vars, disk, volatile
  <1>7. CASE KeepRest
    BY <1>7, QuietStep DEF KeepRest, disk
  <1>8. CASE \/ refresh \/ OpenAdd \/ CancelDialog \/ OpenProfile
             \/ \E id \in Ids : GtkEdit(id) \/ QtEdit(id) \/ OpenReset(id) \/ OpenDelete(id)
    BY <1>7, <1>8 DEF refresh, OpenAdd, CancelDialog, OpenProfile, GtkEdit, QtEdit, OpenReset,
                      OpenDelete, Open, UserEditDialog
  <1>9. CASE /\ phase = "run"
             /\ \/ \E n \in Names, r \in Roles, p \in Typed : create(n, r, p)
                \/ \E id \in Ids, r \in Roles, e \in BOOLEAN : update(id, r, e)
                \/ \E id \in Ids : remove(id)
                \/ \E id \in Ids, p \in Typed : resetPassword(id, p)
                \/ \E o \in Passwords, p \in Typed : changeOwnPassword(o, p)
                \/ setOwnAvatar \/ clearOwnAvatar
    BY <1>1, <1>9, CallsSound DEF AccountInv
  <1>10. CASE \/ \E n \in Names, r \in Roles, p \in Typed : SubmitAdd(n, r, p)
              \/ \E r \in Roles, e \in BOOLEAN : SubmitEdit(r, e)
              \/ \E p \in Typed : SubmitReset(p)
              \/ ConfirmDelete
    BY <1>9, <1>10 DEF SubmitAdd, SubmitEdit, SubmitReset, ConfirmDelete, Submit, RowsInHand
  <1>11. CASE \/ \E o \in Passwords, p \in Typed : GtkChangePassword(o, p) \/ QtChangePassword(o, p)
              \/ PickerAnswers \/ onRemoveAvatarClicked
    BY <1>9, <1>11 DEF GtkChangePassword, QtChangePassword, PickerAnswers, onRemoveAvatarClicked,
                       InProfile
  <1>12. CASE LatePicker
    <2>1. CASE UNCHANGED <<phase, disk, session, badge, stale>>
      BY <2>1, QuietStep DEF disk
    <2>2. QED
      BY <1>5, <1>9, <1>12, <2>1 DEF LatePicker
  <1>13. CASE CancelLogin \/ Crash
    BY <1>5, <1>13 DEF CancelLogin, Crash
  <1>14. CASE RecordOwed
    BY <1>14, QuietStep DEF RecordOwed, KeepSession, KeepProcess
  <1>15. QED
    BY <1>2, <1>3, <1>4, <1>5, <1>6, <1>8, <1>10, <1>11, <1>12, <1>13, <1>14 DEF Next, Handler

\* Nobody stays signed in on a role that was withdrawn or a row that is gone:
\* UsersPresenter refuses an administrator his own removal and re-reads his
\* row after every change to it.
THEOREM SnapshotsAreStore == Spec => []SnapshotsMatchStore
  <1>1. Init => AccountInv
    BY DEF Init, AccountInv, FreshIds
  <1>2. ASSUME FlagsOK, AccountInv
        PROVE  SnapshotsMatchStore
    <2>1. SnapshotOf(session, badge, users[session.id]) =>
            LET row == users[session.id] IN
            /\ row.enabled
            /\ session.row.role = row.role /\ session.row.avatar = row.avatar
            /\ badge = [role |-> row.role, avatar |-> row.avatar, on |-> TRUE]
      BY Zenon DEF SnapshotOf
    <2>2. ~stale => stale = FALSE
      BY <1>2, Zenon DEF FlagsOK
    <2>3. (phase = "run" /\ ~stale) => SnapshotOf(session, badge, users[session.id])
      BY <1>2, <2>2, Zenon DEF AccountInv, SignedInSound
    <2>4. QED
      BY <2>1, <2>3, Zenon DEF SnapshotsMatchStore
  <1>3. QED
    BY <1>1, <1>2, AccountStep, TypeInvariant, PTL DEF Spec, TypeOK
=============================================================================
