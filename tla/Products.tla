------------------------------ MODULE Products ------------------------------
(***************************************************************************)
(* The product database and its page.  The GUI thread runs the page and    *)
(* its presenter; inserts, updates and deletes are posted to the one I/O   *)
(* thread of ModelContext, whose results come back as idle callbacks.      *)
(* Reads and recipe saves run on the GUI thread.  Both threads share one   *)
(* SQLite connection without a lock: a statement is atomic, and a          *)
(* statement of one thread falls into a transaction of the other.          *)
(*                                                                         *)
(* Abstractions: a search text matches a product or does not; a recipe is  *)
(* the version of its head row and of its target rows; status, stock and   *)
(* quality travel with the name; the role may edit.                        *)
(***************************************************************************)
EXTENDS Integers, Sequences, SequencesExt, FiniteSets

CONSTANTS
    MaxRow,                \* bound: AUTOINCREMENT ids 1..MaxRow
    kMaxPendingOperations, \* bound of the I/O queue
    MaxActs,               \* bound: what the operator does
    MaxDbFaults,           \* bound: statements of a recipe save that fail
    MaxRebuilds            \* bound: rebuilds of the window

ASSUME ProductsAssumption ==
    /\ MaxRow \in Nat \ {0} /\ kMaxPendingOperations \in Nat \ {0}
    /\ {MaxActs, MaxDbFaults, MaxRebuilds} \subseteq Nat

RowIds    == 1..MaxRow
Codes     == {"demo", "fresh"}
Texts     == {"match", "other"}      \* names the search text finds, or not
NoText    == ""
Queries   == {NoText, "match"}      \* what is typed in the search box
Empty     == [id \in {} |-> "none"]
NoProduct == [code |-> "none", name |-> "none", deleted |-> TRUE]
NoForm    == [kind |-> "none", id |-> 0]
NoTx      == [on |-> FALSE]
NoResult  == [kind |-> "none"]

VARIABLES
    rows,       \* the products table
    recipe,     \* the demo product's recipe: version of its head and its targets
    tx,         \* the rows and recipe a ROLLBACK restores, while one is open
    saving,     \* upsertRecipe() on the GUI thread: next statement, and ok so far
    queue,      \* operations posted to the I/O thread
    executing,  \* the result of the handler the I/O thread is in
    pendingOps, \* pendingOperations_
    stopped,    \* ModelContext::stopped_
    idles,      \* GUI idle callbacks, in the order they will run
    filter,     \* ProductsPresenter::currentSearchQuery_
    entry,      \* text of the search box
    searchDue,  \* the box's delayed search-changed signal is to come
    listed,     \* listStore_ of the page
    form,       \* the dialog in front
    active,     \* id of the product whose recipe is on the line
    pageNo,     \* how many times the page has been built
    orphaned,   \* a result went to a presenter that no longer exists
    answers,    \* per posted operation: how often its caller was told
    acts, dbFaults

dbVars      == <<rows, recipe, tx>>
ioVars      == <<queue, executing, pendingOps, stopped>>
presenterVars == <<filter, active>>
pageVars    == <<entry, searchDue, listed, form>>
viewVars    == <<presenterVars, pageVars>>
productVars == <<dbVars, saving, ioVars, idles, viewVars, pageNo, orphaned, answers, acts,
                 dbFaults>>

\* getAllProducts(), searchProducts(): the rows that are not soft-deleted.
Found(table, q) == {id \in RowIds : ~table[id].deleted /\ (q = NoText \/ table[id].name = q)}
ViewOf(table, q) == [id \in Found(table, q) |-> table[id].name]

\* getProduct(): the invalid id for a deleted row.
Live(id) == id \in RowIds /\ ~rows[id].deleted

\* createTables(), populateDemoData(): one demo product with a recipe.  The page
\* is about to paint its first list.
ProductsInit ==
    /\ rows = [id \in RowIds |-> IF id = 1 THEN [code |-> "demo", name |-> "match", deleted |-> FALSE]
                                 ELSE NoProduct]
    /\ recipe = [head |-> 0, targets |-> 0] /\ tx = NoTx /\ saving = NoResult
    /\ queue = <<>> /\ executing = NoResult /\ pendingOps = 0 /\ stopped = FALSE
    /\ filter = NoText /\ entry = NoText /\ searchDue = FALSE /\ listed = Empty
    /\ idles = <<[kind |-> "list", page |-> 1, view |-> ViewOf(rows, NoText)]>>
    /\ form = NoForm /\ active = 0
    /\ pageNo = 1 /\ orphaned = FALSE /\ answers = <<>>
    /\ acts = 0 /\ dbFaults = 0

\* The GUI thread is not inside upsertRecipe().
GuiFree == saving = NoResult /\ ~stopped
Act     == GuiFree /\ acts < MaxActs /\ acts' = acts + 1

-----------------------------------------------------------------------------
(* The presenter.                                                          *)

\* buildProductsViewModel(), notifyProductsLoaded(): the page stores the view
\* model in an idle callback of its own.
ListIdle(q, page) == [kind |-> "list", page |-> page, view |-> ViewOf(rows, q)]

\* loadProducts() clears the filter (not the search box).
LoadInto(rest) == filter' = NoText /\ idles' = Append(rest, ListIdle(NoText, pageNo))

\* searchProducts(), after the box's delay.
onSearchChanged ==
    /\ GuiFree /\ searchDue /\ searchDue' = FALSE
    /\ filter' = entry /\ idles' = Append(idles, ListIdle(entry, pageNo))
    /\ UNCHANGED <<dbVars, saving, ioVars, entry, listed, form, active, pageNo, orphaned,
                   answers, acts, dbFaults>>

TypeSearch ==
    /\ Act /\ form = NoForm
    /\ entry' \in Queries \ {entry} /\ searchDue' = TRUE
    /\ UNCHANGED <<dbVars, saving, ioVars, idles, filter, listed, form, active, pageNo,
                   orphaned, answers, dbFaults>>

\* onRefreshClicked(): empty the box, then load; emptying signals a search too.
onRefreshClicked ==
    /\ Act /\ form = NoForm
    /\ entry' = NoText /\ searchDue' = (searchDue \/ entry # NoText) /\ LoadInto(idles)
    /\ UNCHANGED <<dbVars, saving, ioVars, listed, form, active, pageNo, orphaned, answers,
                   dbFaults>>

\* Add, Edit, Delete and Edit Recipe open a modal dialog; the last three need a
\* selected row that is still live.
OpenForm ==
    /\ Act /\ form = NoForm
    /\ \/ form' = [kind |-> "add", id |-> 0]
       \/ \E id \in DOMAIN listed : Live(id) /\
            form' \in {[kind |-> k, id |-> id] : k \in {"update", "delete", "recipe"}}
    /\ UNCHANGED <<dbVars, saving, ioVars, idles, filter, entry, searchDue, listed, active,
                   pageNo, orphaned, answers, dbFaults>>

CancelForm ==
    /\ GuiFree /\ form # NoForm /\ form' = NoForm
    /\ UNCHANGED <<dbVars, saving, ioVars, idles, filter, entry, searchDue, listed, active,
                   pageNo, orphaned, answers, acts, dbFaults>>

\* The number of the next operation.
NextNr == Len(answers) + 1

\* ModelContext::post(): a full queue rejects; nobody looks at the result, so
\* the callback never runs.
Post(op) ==
    IF pendingOps >= kMaxPendingOperations
    THEN UNCHANGED <<queue, pendingOps, answers>>
    ELSE /\ queue' = Append(queue, op)
         /\ pendingOps' = pendingOps + 1 /\ answers' = Append(answers, 0)

\* addProduct(), updateProduct(), deleteProduct() of the presenter, for a role
\* that may edit: post and return.
submitAdd    == /\ form.kind = "add"
                /\ \E c \in Codes, n \in Texts :
                      Post([kind |-> "add", code |-> c, name |-> n, nr |-> NextNr, page |-> pageNo])
submitEdit   == /\ form.kind = "update"
                /\ \E n \in Texts : Post([kind |-> "update", id |-> form.id, name |-> n,
                                         nr |-> NextNr, page |-> pageNo])
submitDelete == /\ form.kind = "delete"
                /\ Post([kind |-> "delete", id |-> form.id, nr |-> NextNr, page |-> pageNo])

SubmitForm ==
    /\ GuiFree /\ form' = NoForm /\ (submitAdd \/ submitEdit \/ submitDelete)
    /\ UNCHANGED <<dbVars, saving, executing, stopped, idles, filter, entry, searchDue, listed,
                   active, pageNo, orphaned, acts, dbFaults>>

\* exportProducts(): the whole table is read on the I/O thread.
onExportCsvClicked ==
    /\ Act /\ form = NoForm /\ Post([kind |-> "export", nr |-> NextNr, page |-> pageNo])
    /\ UNCHANGED <<dbVars, saving, executing, stopped, idles, viewVars, pageNo, orphaned,
                   dbFaults>>

\* viewProduct(): the row is read now, its dialog is shown from an idle callback.
viewProduct ==
    /\ Act /\ form = NoForm /\ listed # Empty
    /\ idles' = Append(idles, [kind |-> "detail", page |-> pageNo])
    /\ UNCHANGED <<dbVars, saving, ioVars, viewVars, pageNo, orphaned, answers, dbFaults>>

\* getRecipeByProductCode(): only the demo product has a recipe.
HasRecipe(id) == Live(id) /\ rows[id].code = "demo"

loadRecipe ==
    /\ Act /\ form = NoForm
    /\ \E id \in DOMAIN listed : active' = IF HasRecipe(id) THEN id ELSE active
    /\ UNCHANGED <<dbVars, saving, ioVars, idles, filter, entry, searchDue, listed, form, pageNo,
                   orphaned, answers, dbFaults>>

-----------------------------------------------------------------------------
(* DatabaseManager on the I/O thread.                                      *)

\* INSERT: the code is UNIQUE, soft-deleted rows included.
addProduct(op) ==
    LET free == {id \in RowIds : rows[id] = NoProduct}
    IN  IF free = {} \/ \E id \in RowIds : rows[id].code = op.code
        THEN rows' = rows
        ELSE rows' = [rows EXCEPT ![CHOOSE i \in free : \A j \in free : i <= j] =
                        [code |-> op.code, name |-> op.name, deleted |-> FALSE]]

\* UPDATE ... WHERE deleted_at IS NULL and the soft delete: a row that is not
\* there is a success too.
updateProduct(op) == rows' = IF Live(op.id) THEN [rows EXCEPT ![op.id].name = op.name] ELSE rows
deleteProduct(op) == rows' = [rows EXCEPT ![op.id].deleted = TRUE]

Execute(op) ==
    CASE op.kind = "add"    -> addProduct(op)
      [] op.kind = "update" -> updateProduct(op)
      [] op.kind = "delete" -> deleteProduct(op)
      [] op.kind = "export" -> rows' = rows

\* The handler's statement, in whatever transaction the connection is in.
IoExecute ==
    /\ ~stopped /\ executing = NoResult /\ queue # <<>>
    /\ Execute(Head(queue)) /\ queue' = Tail(queue)
    /\ executing' = [kind |-> "result", page |-> Head(queue).page, nr |-> Head(queue).nr,
                     ok |-> Head(queue).kind # "add" \/ rows' # rows,
                     reloads |-> Head(queue).kind # "export"]
    /\ UNCHANGED <<recipe, tx, saving, pendingOps, stopped, idles, viewVars, pageNo, orphaned,
                   answers, acts, dbFaults>>

\* connect_once() hands the result to the GUI thread; the handler is done.
IoHandOver ==
    /\ idles' = Append(idles, executing)
    /\ executing' = NoResult /\ pendingOps' = pendingOps - 1

IoPost ==
    /\ ~stopped /\ executing # NoResult /\ IoHandOver
    /\ UNCHANGED <<dbVars, saving, queue, stopped, viewVars, pageNo, orphaned, answers, acts,
                   dbFaults>>

\* ModelContext::stop(): what is still queued is not run.
StopIo ==
    /\ GuiFree /\ idles = <<>> /\ queue # <<>> /\ stopped' = TRUE /\ queue' = <<>>
    /\ UNCHANGED <<dbVars, saving, executing, pendingOps, idles, viewVars, pageNo, orphaned,
                   answers, acts, dbFaults>>

-----------------------------------------------------------------------------
(* Idle callbacks.                                                         *)

\* The presenter's callback: reload on success, then tell the page.
ResultArrives(result) ==
    IF result.ok /\ result.reloads THEN LoadInto(Tail(idles))
    ELSE UNCHANGED filter /\ idles' = Tail(idles)

\* The list is emptied and filled again from the view model.
updateProductsList(view) == listed' = view

\* One idle callback.  A callback of an earlier page uses freed objects: the
\* model lets it do nothing and notes it.
RunIdle ==
    /\ GuiFree /\ idles # <<>>
    /\ LET idle == Head(idles)
       IN  \/ /\ idle.page # pageNo /\ orphaned' = TRUE /\ idles' = Tail(idles)
              /\ UNCHANGED <<filter, listed, answers>>
           \/ /\ idle.page = pageNo /\ idle.kind = "list"
              /\ updateProductsList(idle.view) /\ idles' = Tail(idles)
              /\ UNCHANGED <<filter, answers, orphaned>>
           \/ /\ idle.page = pageNo /\ idle.kind = "detail" /\ idles' = Tail(idles)
              /\ UNCHANGED <<filter, listed, answers, orphaned>>
           \/ /\ idle.page = pageNo /\ idle.kind = "result" /\ ResultArrives(idle)
              /\ answers' = [answers EXCEPT ![idle.nr] = @ + 1]
              /\ UNCHANGED <<listed, orphaned>>
    /\ UNCHANGED <<dbVars, saving, ioVars, entry, searchDue, form, active, pageNo, acts, dbFaults>>

\* A language or palette rebuild: a new presenter and page, loaded twice.
RebuildPage ==
    /\ GuiFree /\ pageNo <= MaxRebuilds /\ pageNo' = pageNo + 1
    /\ filter' = NoText /\ entry' = NoText /\ searchDue' = FALSE /\ form' = NoForm /\ listed' = Empty
    /\ idles' = idles \o <<ListIdle(NoText, pageNo + 1), ListIdle(NoText, pageNo + 1)>>
    /\ UNCHANGED <<dbVars, saving, ioVars, active, orphaned, answers, acts, dbFaults>>

-----------------------------------------------------------------------------
(* upsertRecipe() on the GUI thread, statement by statement.               *)

\* The dialog hands over a recipe with the edited targets and closes.
recipeAccepted == form.kind = "recipe" /\ form' = NoForm

SaveRecipe ==
    /\ GuiFree /\ recipeAccepted
    /\ IF tx.on THEN UNCHANGED <<tx, saving>>        \* BEGIN inside a transaction fails
       ELSE /\ tx' = [on |-> TRUE, rows |-> rows, recipe |-> recipe]
            /\ saving' = [kind |-> "head", ok |-> TRUE, version |-> recipe.head + 1]
    /\ UNCHANGED <<rows, recipe, ioVars, idles, filter, entry, searchDue, listed, active, pageNo,
                   orphaned, answers, acts, dbFaults>>

NextStatement == [head |-> "delete", delete |-> "insert", insert |-> "end"]

\* The head row, the DELETE of the targets, their INSERTs.
RecipeStatement ==
    /\ saving.kind \in DOMAIN NextStatement
    /\ \/ /\ saving' = [saving EXCEPT !.kind = NextStatement[@]]
          /\ recipe' = CASE saving.kind = "head"   -> [recipe EXCEPT !.head = saving.version]
                         [] saving.kind = "delete" -> [recipe EXCEPT !.targets = -1]
                         [] saving.kind = "insert" -> [recipe EXCEPT !.targets = saving.version]
          /\ UNCHANGED dbFaults
       \/ /\ dbFaults < MaxDbFaults /\ dbFaults' = dbFaults + 1
          /\ saving' = [saving EXCEPT !.kind = "end", !.ok = FALSE] /\ UNCHANGED recipe
    /\ UNCHANGED <<rows, tx, ioVars, idles, viewVars, pageNo, orphaned, answers, acts>>

\* COMMIT whatever happened before.
EndAlwaysCommits == UNCHANGED <<rows, recipe>>

\* COMMIT, or ROLLBACK of everything the connection did since BEGIN.
EndOfTransaction ==
    IF saving.ok THEN UNCHANGED <<rows, recipe>>
    ELSE rows' = tx.rows /\ recipe' = tx.recipe

RecipeEnd ==
    /\ saving.kind = "end" /\ EndOfTransaction
    /\ tx' = NoTx /\ saving' = NoResult
    /\ UNCHANGED <<ioVars, idles, viewVars, pageNo, orphaned, answers, acts, dbFaults>>

ProductsGui ==
    \/ TypeSearch \/ onSearchChanged \/ onRefreshClicked \/ OpenForm \/ CancelForm \/ SubmitForm
    \/ onExportCsvClicked \/ viewProduct \/ loadRecipe \/ StopIo \/ RebuildPage
    \/ SaveRecipe \/ RecipeStatement \/ RecipeEnd

ProductsNext == ProductsGui \/ IoExecute \/ IoPost \/ RunIdle

-----------------------------------------------------------------------------
(* Properties.                                                             *)

\* Nothing is queued, executing or waiting to be painted.
ProductsQuiet == GuiFree /\ queue = <<>> /\ executing = NoResult /\ idles = <<>>

\* When all is quiet the page lists what the database holds for the presenter's
\* filter, in spite of operations that finish out of step with reloads and of
\* recipe rollbacks that take finished operations back - as long as no result
\* went to a page that was rebuilt away.
\* ProductsPresenter::loadProducts, ProductsPage::onProductsLoaded.
ListCurrentWhenQuiet == (ProductsQuiet /\ ~orphaned) => listed = ViewOf(rows, filter)

\* Outside a save the head row and the targets of a recipe belong together,
\* whatever statement failed and whatever the I/O thread ran in between.
\* DatabaseManager::upsertRecipe.
RecipeWhole == saving = NoResult => recipe.head = recipe.targets

\* Every operation the I/O thread took on has been answered to the page that
\* asked when all is quiet, whether it succeeded or not, and none is answered
\* twice - unless the page was rebuilt away first.
\* DatabaseManager::*Async, ModelContext::post.
OperationsAnswered ==
    \A n \in 1..Len(answers) :
        answers[n] <= 1 /\ ((ProductsQuiet /\ ~orphaned) => answers[n] = 1)

\* Page, database and I/O thread agree: the list is current, recipes are whole and
\* every operation has its answer.  ProductsPresenter, DatabaseManager.
ProductsAgree == ListCurrentWhenQuiet /\ RecipeWhole /\ OperationsAnswered
=============================================================================
