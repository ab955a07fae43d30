------------------------------- MODULE Access -------------------------------
(***************************************************************************)
(* Accounts, sign-in and the audit journal of the HMI.                     *)
(*                                                                         *)
(* The SQLite user table, its migration ladder and the seeding of default  *)
(* accounts live on disk and survive a crash; the session, the window with *)
(* its role-gated pages, the open dialog and the badge are volatile.  All  *)
(* of it runs on the GUI thread, one handler at a time, but every dialog   *)
(* spins a nested main loop, so a handler is split where it waits for the  *)
(* operator: opening a dialog and submitting it are two actions.           *)
(*                                                                         *)
(* Abstractions: a name stands for its lower-case class (canonicalUsername *)
(* and COLLATE NOCASE agree on it); passwords are two values and "weak"    *)
(* (shorter than the minimum); roles keep their numeric order 0..2; the    *)
(* journal is kept as what its successful rows add up to ("ledger").       *)
(***************************************************************************)
EXTENDS Naturals, FiniteSets

CONSTANTS
    MaxId,        \* bound: row ids 1..MaxId (AUTOINCREMENT never reuses one)
    MaxChanges,   \* bound: changes of the user table after seeding
    MaxCrashes    \* bound: crashes and restarts

ASSUME AccessAssumption ==
    /\ MaxId \in Nat /\ MaxId >= 3
    /\ MaxChanges \in Nat
    /\ MaxCrashes \in Nat

Ids       == 1..MaxId
Operator  == 0
Admin     == 2
Roles     == 0..2
Passwords == {"seeded", "chosen"}
Typed     == {"chosen", "weak"}     \* what somebody sets as a new password
NoRow     == [role |-> Operator, enabled |-> FALSE, name |-> "none",
              pw |-> "none", avatar |-> FALSE]
NoUser    == [id |-> 0, row |-> NoRow]
DialogKinds == {"none", "add", "edit", "reset", "delete", "profile"}
NoDialog  == [kind |-> "none", id |-> 0]

\* The accounts a fresh installation gets, in the order they are inserted.
kSeed == <<[name |-> "operator",    role |-> 0],
           [name |-> "maintenance", role |-> 1],
           [name |-> "admin",       role |-> 2]>>
Names == {kSeed[i].name : i \in 1..3} \cup {"newcomer"}

VARIABLES
    phase,     \* where the process is: off, migrate, seed, login, run, noauth
    front,     \* the front end this binary was built with
    version,   \* PRAGMA user_version on disk
    columns,   \* how many of the four v2 columns the table has
    users,     \* the user table
    nextId,    \* the AUTOINCREMENT counter
    rung,      \* statements of the v1 -> v2 ladder this boot has run
    seeded,    \* how many entries of kSeed this boot has tried
    session,   \* Session::current_: a snapshot of a row, or NoUser
    pages,     \* the role-gated pages the current window was built with
    listed,    \* ids the users page shows
    badge,     \* what the user badge shows: [role, avatar], or NoBadge
    dialog,    \* the modal dialog in front, and the row it was opened for
    picker,    \* the avatar file chooser: none, open, orphan
    ledger,    \* what the journal's successful rows say of each account
    auditShown,\* the audit page shows every row of the journal
    missed,    \* accounts whose newest change has no journal row (history)
    owed,      \* the journal row a presenter call has yet to write, or NoOwed
    stale,     \* a re-read of the signed-in row failed after a change
    changes, crashes

disk     == <<version, columns, users, nextId, ledger, missed>>
volatile == <<rung, seeded, session, pages, listed, badge, dialog, picker, stale,
              auditShown, owed>>
vars     == <<phase, front, disk, volatile, changes, crashes>>

NoBadge       == [role |-> Operator, avatar |-> FALSE, on |-> FALSE]
Exists(id)    == users[id] # NoRow
Summary(row)  == [exists |-> row.name # "none", role |-> row.role, enabled |-> row.enabled]
NoSummary     == Summary(NoRow)
FreeNames     == Names \ {users[id].name : id \in Ids}

canManageUsers(role)  == role >= Admin
canViewAuditLog(role) == role >= Admin

SignedIn  == session # NoUser
MayManage == SignedIn /\ canManageUsers(session.row.role)

Rows      == [role : Roles, enabled : BOOLEAN, name : Names \cup {"none"},
              pw : Passwords \cup {"none"}, avatar : BOOLEAN]
Summaries == [exists : BOOLEAN, role : Roles, enabled : BOOLEAN]
Users     == [id : Ids \cup {0}, row : Rows]

\* A row the journal owes a call: the account it is about, what it says of it,
\* and whether it says anything (`account': a creation, an update, a deletion;
\* the rows of password and avatar changes name the account only).
NoOwed    == [id |-> 0, summary |-> NoSummary, account |-> FALSE]
OwedRows  == [id : Ids \cup {0}, summary : Summaries, account : BOOLEAN]
Busy      == owed.id # 0
Unwritten == {id \in Ids : owed.account /\ id = owed.id}

Badges    == [role : Roles, avatar : BOOLEAN, on : BOOLEAN]
Dialogs   == [kind : DialogKinds, id : Ids \cup {0}]
FlagsOK   == stale \in BOOLEAN /\ auditShown \in BOOLEAN

StateOK ==
    /\ phase \in {"off", "migrate", "seed", "login", "run", "noauth"}
    /\ front \in {"gtk", "qt"}
    /\ version \in 0..2 /\ columns \in 0..4
    /\ nextId \in 1..(MaxId + 1) /\ rung \in 0..5 /\ seeded \in 0..3
    /\ pages \subseteq {"users", "audit"} /\ listed \subseteq Ids
    /\ picker \in {"none", "open", "orphan"}
    /\ users \in [Ids -> Rows] /\ ledger \in [Ids -> Summaries]
    /\ missed \subseteq Ids /\ owed \in OwedRows
    /\ session \in Users /\ dialog \in Dialogs
    /\ badge \in Badges
    /\ changes \in 0..MaxChanges /\ crashes \in 0..MaxCrashes

\* Types; the counters stay within their bounds.
TypeOK == StateOK /\ FlagsOK

-----------------------------------------------------------------------------
(* Process start: the user store is opened, migrated, seeded.              *)

\* A file that was never opened, one written before the version stamp or the
\* management columns existed, or an up-to-date one; all without accounts.
Init ==
    /\ phase = "off" /\ front \in {"gtk", "qt"}
    /\ \E v \in 0..2 : version = v /\ columns = (IF v = 2 THEN 4 ELSE 0)
    /\ users  = [id \in Ids |-> NoRow] /\ nextId = 1
    /\ ledger = [id \in Ids |-> NoSummary] /\ missed = {} /\ owed = NoOwed
    /\ rung = 0 /\ seeded = 0 /\ session = NoUser /\ pages = {} /\ listed = {}
    /\ badge = NoBadge /\ dialog = NoDialog /\ picker = "none" /\ stale = FALSE
    /\ auditShown = FALSE
    /\ changes = 0 /\ crashes = 0

\* initialize(): open the file and create the table if it is missing.  Either
\* may fail; registerAuth then drops the store and the HMI runs without
\* sign-in.
initialize ==
    /\ phase = "off"
    /\ phase' \in {"migrate", "noauth"}
    /\ UNCHANGED <<front, disk, volatile, changes, crashes>>


\* The version stamped before the columns are added.
LadderStampFirst ==
    version < 2 /\ version' = version + 1 /\ UNCHANGED <<columns, rung>>

\* One statement of the ladder: the v1 stamp, or the next of four ALTER TABLEs
\* and the v2 stamp, each committed on its own.  ADD COLUMN needs a column that
\* is not there yet.
LadderStep ==
    \/ version = 0 /\ version' = 1 /\ UNCHANGED <<columns, rung>>
    \/ /\ version = 1 /\ rung < 4 /\ columns <= rung
       /\ columns' = rung + 1 /\ rung' = rung + 1 /\ UNCHANGED version
    \/ version = 1 /\ rung = 4 /\ version' = 2 /\ UNCHANGED <<columns, rung>>

\* A statement that fails, or a column a cut-short ladder already added, ends
\* initialize() with false.
applyMigrations ==
    /\ phase = "migrate" /\ version < 2
    /\ \/ LadderStep /\ UNCHANGED phase
       \/ phase' = "noauth" /\ UNCHANGED <<version, columns, rung>>
    /\ UNCHANGED <<front, users, nextId, ledger, missed, seeded, session, pages,
                   listed, badge, dialog, picker, stale, auditShown, owed, changes, crashes>>

\* seedDefaultUsersIfEmpty() is skipped when the table has a row.
SeedNeeded ==
    /\ phase = "migrate" /\ version = 2
    /\ phase' = IF Cardinality({id \in Ids : Exists(id)}) > 0 THEN "login" ELSE "seed"
    /\ UNCHANGED <<front, disk, volatile, changes, crashes>>

\* One seed entry: hash (may throw: the entry is skipped) and insert.  The
\* seeder writes no journal row; the ledger starts from what it created.
seedDefaultUsersIfEmpty ==
    /\ phase = "seed"
    /\ LET entry == kSeed[seeded + 1]
           row   == [role |-> entry.role, enabled |-> TRUE, name |-> entry.name,
                     pw |-> "seeded", avatar |-> FALSE]
       IN  \/ /\ nextId \in Ids
              /\ users'  = [users EXCEPT ![nextId] = row]
              /\ ledger' = [ledger EXCEPT ![nextId] = Summary(row)]
              /\ nextId' = nextId + 1
           \/ UNCHANGED <<users, ledger, nextId>>
    /\ seeded' = seeded + 1
    /\ phase'  = IF seeded = 2 THEN "login" ELSE "seed"
    /\ UNCHANGED <<front, version, columns, rung, missed, session, pages, listed,
                   badge, dialog, picker, stale, auditShown, owed, changes, crashes>>

-----------------------------------------------------------------------------
(* SqliteUserRepository: each call is one statement under its mutex.       *)

findByUsername(name) == {id \in Ids : users[id].name = name}
listAll              == {id \in Ids : Exists(id)}
getAvatar(id)        == users'[id].avatar

StoreRow(id, row) ==
    /\ changes < MaxChanges
    /\ users' = [users EXCEPT ![id] = row]
    /\ changes' = changes + 1

\* The UNIQUE constraint on the name refuses a duplicate.
InsertRow(row)       == nextId \in Ids /\ row.name \in FreeNames
                        /\ StoreRow(nextId, row) /\ nextId' = nextId + 1
UpdateRow(id, row)   == Exists(id) /\ StoreRow(id, row) /\ UNCHANGED nextId
DeleteRow(id)        == Exists(id) /\ StoreRow(id, NoRow) /\ UNCHANGED nextId
setAvatar(id)        == UpdateRow(id, [users[id] EXCEPT !.avatar = TRUE])
clearAvatar(id)      == UpdateRow(id, [users[id] EXCEPT !.avatar = FALSE])

-----------------------------------------------------------------------------
(* The journal and the session.                                            *)

\* A journal that skips the row of a deletion.
recordNoDelete(summary, id) ==
    /\ ledger' = IF summary = NoSummary THEN ledger
                 ELSE [ledger EXCEPT ![id] = summary]
    /\ UNCHANGED <<missed, auditShown>>

\* SqliteAuditLogger::record(): its result is ignored by every caller, so a
\* failed INSERT only shows in what the journal adds up to.
record(summary, id) ==
    \/ /\ ledger' = [ledger EXCEPT ![id] = summary] /\ missed' = missed \ {id}
       /\ auditShown' = FALSE
    \/ missed' = missed \cup {id} /\ UNCHANGED <<ledger, auditShown>>

\* UserBadge::refresh on signalChanged: the role comes from the session, the
\* picture from the store.
BadgeOf(s) == IF s = NoUser THEN NoBadge
              ELSE [role |-> s.row.role, avatar |-> getAvatar(s.id), on |-> TRUE]

\* Session::setUser / clear replace the snapshot and fire signalChanged.
setUser(s) == session' = s /\ badge' = BadgeOf(s)

KeepSession == UNCHANGED <<session, badge, stale>>
KeepProcess == UNCHANGED <<phase, front, version, columns, rung, seeded, crashes>>

\* The session's copy left as it was.
RefreshSkipped(id) == KeepSession

\* What a presenter call does after it changed the signed-in user's own row:
\* re-read it and refresh the session, unless the read fails.
RefreshOwn(id) ==
    \/ setUser([id |-> id, row |-> users'[id]]) /\ UNCHANGED stale
    \/ stale' = TRUE /\ UNCHANGED <<session, badge>>

-----------------------------------------------------------------------------
(* UsersPresenter: one operator per call.  A call that goes through writes *)
(* the user table, refreshes the session and then owes the journal a row;  *)
(* RecordOwed writes it and returns to the page.  An early return is       *)
(* Refused.                                                                *)

isValidPassword(password) == password \in Passwords

\* list(): nothing for anyone but an administrator.
list == IF MayManage THEN listAll ELSE {}

\* A call that returns early (forbidden, invalid, not found, own account,
\* hasher or storage failure): only a failure row is journalled.
Refused ==
    /\ KeepSession /\ auditShown' = FALSE
    /\ UNCHANGED <<users, nextId, ledger, missed, owed, listed, changes>>

\* The table is written, the journal is not: two statements on two connections.
Owes(id, account) ==
    /\ owed' = [id |-> id, summary |-> IF account THEN Summary(users'[id]) ELSE NoSummary,
                account |-> account]
    /\ UNCHANGED <<ledger, missed, auditShown, listed>>

\* The call's last statement, and its return to the page, which re-lists after
\* a creation, an update and a deletion.
RecordOwed ==
    /\ Busy
    /\ IF owed.account
       THEN record(owed.summary, owed.id) /\ listed' = list
       ELSE auditShown' \in {auditShown, FALSE} /\ UNCHANGED <<ledger, missed, listed>>
    /\ owed' = NoOwed
    /\ KeepSession /\ KeepProcess
    /\ UNCHANGED <<users, nextId, pages, dialog, picker, changes>>

create(name, role, password) ==
    \/ /\ MayManage /\ isValidPassword(password)
       /\ InsertRow([role |-> role, enabled |-> TRUE, name |-> name,
                     pw |-> password, avatar |-> FALSE])
       /\ KeepSession
       /\ Owes(nextId, TRUE)
    \/ Refused

UpdateAllowed(id, enabled) == MayManage /\ Exists(id) /\ (id = session.id => enabled)

update(id, role, enabled) ==
    \/ /\ UpdateAllowed(id, enabled)
       /\ UpdateRow(id, [users[id] EXCEPT !.role = role, !.enabled = enabled])
       /\ IF id = session.id THEN RefreshOwn(id) ELSE KeepSession
       /\ Owes(id, TRUE)
    \/ Refused

remove(id) ==
    \/ /\ MayManage /\ id # session.id
       /\ DeleteRow(id)
       /\ KeepSession
       /\ Owes(id, TRUE)
    \/ Refused

\* The row is re-read and only its hash differs when it is written back.
resetPassword(id, password) ==
    \/ /\ MayManage /\ isValidPassword(password)
       /\ UpdateRow(id, [users[id] EXCEPT !.pw = password])
       /\ KeepSession
       /\ Owes(id, FALSE)
    \/ Refused

\* The stored hash is verified, not the session's copy of it.
changeOwnPassword(old, new) ==
    \/ /\ isValidPassword(new) /\ users[session.id].pw = old
       /\ UpdateRow(session.id, [users[session.id] EXCEPT !.pw = new])
       /\ KeepSession
       /\ Owes(session.id, FALSE)
    \/ Refused

setOwnAvatar ==
    \/ /\ setAvatar(session.id)
       /\ RefreshOwn(session.id)
       /\ Owes(session.id, FALSE)
    \/ Refused

clearOwnAvatar ==
    \/ /\ clearAvatar(session.id)
       /\ RefreshOwn(session.id)
       /\ Owes(session.id, FALSE)
    \/ Refused

-----------------------------------------------------------------------------
(* Sign-in and sign-out.                                                   *)

RolePages(row) == (IF canManageUsers(row.role) THEN {"users"} ELSE {})
                  \cup (IF canViewAuditLog(row.role) THEN {"audit"} ELSE {})
QtRolePages(row) == IF canManageUsers(row.role) THEN {"users", "audit"} ELSE {}

\* AuthService::login.  An unknown name, a disabled account and a wrong
\* password are journalled as failures and leave everything as it was.
login(name, password) ==
    /\ \E id \in findByUsername(name) :
         /\ users[id].enabled /\ users[id].pw = password
         /\ UNCHANGED users
         /\ setUser([id |-> id, row |-> users[id]])
    /\ UNCHANGED <<ledger, missed>>

\* The window built for the session that has just been set.
WindowFor(builtPages) ==
    /\ phase' = "run"
    /\ pages' = builtPages
    /\ listed' = IF "users" \in builtPages THEN listAll ELSE {}
    /\ auditShown' = ("audit" \in builtPages)
    /\ UNCHANGED <<front, version, columns, nextId, rung, seeded, dialog, picker,
                   stale, owed, changes, crashes>>

\* The sign-in dialog is up.
OnLogin == phase = "login"

GtkLogin(name, password) ==
    /\ OnLogin /\ front = "gtk"
    /\ login(name, password) /\ WindowFor(RolePages(session'.row))
QtLogin(name, password) ==
    /\ OnLogin /\ front = "qt"
    /\ login(name, password) /\ WindowFor(QtRolePages(session'.row))

LeaveProcess ==
    /\ phase' = "off"
    /\ rung' = 0 /\ seeded' = 0 /\ session' = NoUser /\ pages' = {}
    /\ listed' = {} /\ badge' = NoBadge /\ dialog' = NoDialog
    /\ picker' = "none" /\ stale' = FALSE /\ auditShown' = FALSE
    /\ owed' = NoOwed /\ missed' = missed \cup Unwritten
    /\ UNCHANGED <<front, version, columns, users, nextId, ledger>>

\* Cancelling the sign-in ends the program; the files stay.
CancelLogin == OnLogin /\ LeaveProcess /\ UNCHANGED <<changes, crashes>>

\* A crash, or the process being killed, between any two steps: a journal row
\* that was still owed is never written.
Crash ==
    /\ phase # "off" /\ crashes < MaxCrashes
    /\ crashes' = crashes + 1
    /\ LeaveProcess /\ UNCHANGED changes

\* AuthService::logout and what follows it: the session is cleared, the badge
\* empties, the sign-in dialog comes up.
logout(remaining) ==
    /\ phase = "run" /\ dialog = NoDialog
    /\ phase' = "login" /\ pages' = remaining
    /\ session' = NoUser /\ badge' = NoBadge
    /\ listed' = {} /\ stale' = FALSE /\ auditShown' = FALSE
    /\ UNCHANGED <<front, disk, rung, seeded, dialog, picker, owed, changes, crashes>>

\* GTK hides and closes the window first; Qt keeps it, pages and all, behind
\* the sign-in dialog.
GtkSignOut == front = "gtk" /\ logout({})
QtSignOut  == front = "qt" /\ logout(pages)

\* The audit page re-queries the journal on its timer, also while a dialog is
\* up, and whenever a filter changes.  The reader checks no role: a page built
\* for an administrator keeps reading.
OnAuditPage == "audit" \in pages
AuditRefresh ==
    /\ OnAuditPage /\ ~auditShown
    /\ auditShown' = TRUE
    /\ UNCHANGED <<phase, front, disk, rung, seeded, session, pages, listed, badge,
                   dialog, picker, stale, owed, changes, crashes>>
GtkAuditRefresh == front = "gtk" /\ AuditRefresh
QtAuditRefresh  == front = "qt" /\ AuditRefresh

-----------------------------------------------------------------------------
(* The users pages.                                                        *)

OnUsersPage == phase = "run" /\ dialog = NoDialog /\ "users" \in pages
KeepRest    == UNCHANGED <<session, badge, stale, pages, picker, auditShown, owed, changes,
                           phase, front, rung, seeded, crashes>> /\ UNCHANGED disk
Open(kind, id) == dialog' = [kind |-> kind, id |-> id] /\ KeepRest /\ UNCHANGED listed

refresh == OnUsersPage /\ listed' = list /\ UNCHANGED dialog /\ KeepRest

\* One form serves both jobs: empty, or filled from a row.
UserEditDialog(kind, id) == Open(kind, id)

OpenAdd == OnUsersPage /\ UserEditDialog("add", 0)

\* GTK re-reads the list when Edit is clicked and re-lists when the row has
\* gone; Qt looks the row up in the list it showed last.
GtkEdit(id) ==
    /\ front = "gtk" /\ OnUsersPage /\ id \in listed
    /\ IF id \in list THEN UserEditDialog("edit", id)
       ELSE listed' = list /\ UNCHANGED dialog /\ KeepRest
QtEdit(id) == front = "qt" /\ OnUsersPage /\ id \in listed /\ UserEditDialog("edit", id)

OpenReset(id)  == OnUsersPage /\ id \in listed /\ Open("reset", id)
OpenDelete(id) == OnUsersPage /\ id \in listed /\ Open("delete", id)

\* Cancel or the close button.
CancelDialog ==
    /\ phase = "run" /\ dialog.kind \in {"add", "edit", "reset", "delete"}
    /\ dialog' = NoDialog /\ KeepRest /\ UNCHANGED listed

\* A form was submitted: the dialog closes and the presenter is called.
Submit(kind) ==
    /\ phase = "run" /\ dialog.kind = kind
    /\ dialog' = NoDialog
    /\ UNCHANGED <<pages, picker>> /\ KeepProcess

\* The add form takes two equal passwords and refuses empty fields.
SubmitAdd(name, role, password) == Submit("add") /\ create(name, role, password)
SubmitEdit(role, enabled)       == Submit("edit") /\ update(dialog.id, role, enabled)
SubmitReset(password)           == Submit("reset") /\ resetPassword(dialog.id, password)
ConfirmDelete                   == Submit("delete") /\ remove(dialog.id)

-----------------------------------------------------------------------------
(* The profile dialog (GTK) and the change-password dialog (Qt).           *)

OpenProfile == phase = "run" /\ dialog = NoDialog /\ Open("profile", session.id)

InProfile == phase = "run" /\ dialog.kind = "profile" /\ UNCHANGED pages /\ KeepProcess

\* GTK keeps the dialog up after the answer, Qt's closed when it was accepted.
GtkChangePassword(old, new) ==
    /\ front = "gtk" /\ InProfile /\ UNCHANGED <<dialog, picker>>
    /\ changeOwnPassword(old, new)
QtChangePassword(old, new) ==
    /\ front = "qt" /\ InProfile /\ dialog' = NoDialog /\ UNCHANGED picker
    /\ changeOwnPassword(old, new)

\* The file chooser has the dialog as its parent and answers later, to a
\* callback that holds the dialog's address.  Nothing in this code waits for
\* the answer; whether a modal chooser lets the dialog be closed meanwhile is
\* left to the toolkit, and the model lets it.
onUploadClicked ==
    /\ phase = "run" /\ dialog.kind = "profile" /\ front = "gtk" /\ picker = "none"
    /\ picker' = "open"
    /\ UNCHANGED <<phase, front, disk, rung, seeded, session, pages, listed, badge,
                   dialog, stale, auditShown, owed, changes, crashes>>

PickerAnswers ==
    /\ InProfile /\ picker = "open"
    /\ picker' = "none" /\ UNCHANGED dialog
    /\ setOwnAvatar

onRemoveAvatarClicked ==
    /\ front = "gtk" /\ InProfile /\ UNCHANGED <<dialog, picker>>
    /\ clearOwnAvatar

\* Done, or the window's close button: the modal loop ends and its caller
\* destroys the dialog; a chooser still open keeps a pointer to it.
onDoneClicked ==
    /\ phase = "run" /\ dialog.kind = "profile"
    /\ picker' = IF picker = "open" THEN "orphan" ELSE picker
    /\ dialog' = NoDialog
    /\ UNCHANGED <<phase, front, disk, rung, seeded, session, pages, listed, badge,
                   stale, auditShown, owed, changes, crashes>>

\* The chooser answers after its dialog died: the callback runs on a destroyed
\* object.  The process dies, nothing happens, or the stale memory still works
\* and the picture goes to whoever is signed in by now.
LatePicker ==
    /\ picker = "orphan" /\ phase \in {"run", "login"}
    /\ \/ LeaveProcess /\ UNCHANGED <<changes, crashes>>
       \/ /\ picker' = "none"
          /\ UNCHANGED <<phase, front, disk, rung, seeded, session, pages, listed,
                         badge, dialog, stale, auditShown, owed, changes, crashes>>
       \/ /\ phase = "run" /\ picker' = "none"
          /\ UNCHANGED <<dialog, pages>> /\ KeepProcess /\ setOwnAvatar

-----------------------------------------------------------------------------
\* The GUI thread's handlers, one at a time.
Handler ==
    \/ initialize \/ applyMigrations \/ SeedNeeded \/ seedDefaultUsersIfEmpty
    \/ \E n \in Names, p \in Passwords : GtkLogin(n, p) \/ QtLogin(n, p)
    \/ CancelLogin \/ GtkSignOut \/ QtSignOut
    \/ GtkAuditRefresh \/ QtAuditRefresh
    \/ refresh \/ OpenAdd \/ CancelDialog \/ OpenProfile
    \/ \E id \in Ids : GtkEdit(id) \/ QtEdit(id) \/ OpenReset(id) \/ OpenDelete(id)
    \/ \E n \in Names, r \in Roles, p \in Typed : SubmitAdd(n, r, p)
    \/ \E r \in Roles, e \in BOOLEAN : SubmitEdit(r, e)
    \/ \E p \in Typed : SubmitReset(p)
    \/ ConfirmDelete
    \/ \E o \in Passwords, p \in Typed : GtkChangePassword(o, p) \/ QtChangePassword(o, p)
    \/ onUploadClicked \/ PickerAnswers \/ onRemoveAvatarClicked
    \/ onDoneClicked \/ LatePicker

\* A presenter call runs to its end before the GUI thread does anything else;
\* only the end of the process can come between its two statements.
Next == (~Busy /\ Handler) \/ RecordOwed \/ Crash

Spec == Init /\ [][Next]_vars

-----------------------------------------------------------------------------
(* Properties.                                                             *)

\* A store that lets anybody sign in is fully migrated, however often the
\* ladder was cut short by a crash: SqliteUserRepository stamps the version
\* only after the last ALTER TABLE, so findByUsername never meets a table
\* without the columns it selects.
SignInMeansMigrated == phase \in {"seed", "login", "run"} => version = 2 /\ columns = 4

\* The journal alone says who exists, with which role, and who may sign in:
\* replaying its USER rows over the seeded accounts gives the user table, row
\* by row, but for the account of the call in progress and the accounts whose
\* newest change got no journal row, because the INSERT into audit_log failed
\* or the process died between the two statements of UsersPresenter.  One such
\* loss never spoils what the journal says of another account, and the next
\* change of the account repairs it.
JournalTellsAccounts ==
    \A id \in Ids \ (missed \cup Unwritten) : ledger[id] = Summary(users[id])

\* Every snapshot of the signed-in account agrees with the store: the
\* session's role and the badge's role and picture are those of a row that
\* exists and is enabled.  Only a failed re-read (stale) may break this, so no
\* order of edits, deletions and avatar changes leaves somebody signed in with
\* rights that were withdrawn.
SnapshotsMatchStore ==
    (phase = "run" /\ ~stale) =>
        LET row == users[session.id] IN
        /\ row.enabled
        /\ session.row.role = row.role /\ session.row.avatar = row.avatar
        /\ badge = [role |-> row.role, avatar |-> row.avatar, on |-> TRUE]
=============================================================================
