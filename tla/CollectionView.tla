--------------------------- MODULE CollectionView ---------------------------
(***************************************************************************)
(* A list of the portal: WarehousesView.vue, which polls, or               *)
(* TablesView.vue, which does not, with the parts of refresh.ts they are   *)
(* made of.  The server may page through the list, or, once a query is     *)
(* entered, the view reads all of it and filters by itself.                *)
(*                                                                         *)
(* The view is one sequential program: a handler runs from one await to    *)
(* the next.  Its state is the record `ui', and handlers are operators     *)
(* from one such record to the next.  The refresh task is serialized, so a *)
(* coalesced read (createCoalescedRead) never has two callers here, and    *)
(* one that was invalidated is simply made anew.  The two generation       *)
(* counters are kept as what the running task finds when it compares them: *)
(* `current' (the controller's) and `valid' (the view's authority).        *)
(*                                                                         *)
(* Locks and tombstones are not the view's own: they belong to the tenant, *)
(* outlive a view that is mounted anew for the same one, and are written   *)
(* by detail views too (TableDetailView.vue, WarehouseDetailView.vue).     *)
(***************************************************************************)
EXTENDS Naturals, FiniteSets

CONSTANTS
    Views,      \* subset of BOOLEAN: whether the view polls
    Lingers,    \* whether a deleted object may stay listed for a while
    Names,      \* names, in the order the server lists them: a subset of Nat
    Uids,
    Contexts,   \* tenants
    MaxChanges, \* what users and others do
    MaxFaults   \* reads and deletions that fail

ASSUME ViewsAssumption == Views \subseteq BOOLEAN /\ Lingers \in BOOLEAN

ASSUME ObjectsAssumption ==
    /\ Names \subseteq Nat /\ IsFiniteSet(Names)
    /\ Contexts # {} /\ IsFiniteSet(Contexts)
    /\ Uids # {}

VARIABLES
    polls,      \* which view this is
    ctx,        \* the tenant that is selected, and contextVersion
    store,      \* the objects of all tenants
    born,       \* the objects there ever were: a uid is used once
    ui,         \* the mounted view
    changes, faults,
    acked,      \* history: objects whose deletion this view was told of
    excused     \* history: those that lost their tombstones to something other than
                \* a later complete list, and were still listed

vars == <<polls, ctx, store, born, ui, changes, faults, acked, excused>>

Objects == [ctx : Contexts, name : Names, uid : Uids]

NoAnswer == [rows |-> {}, info |-> "unread", snap |-> {}]

\* The objects of tenant c.  In order, a page of a list is what stands at its
\* place; with it comes a continue token that pins the list it was cut from.
Objs(c) == {o \in store : o.ctx = c}

Rank(list, o) == Cardinality({p \in list : p.name <= o.name})

PageOf(list, page) ==
    LET more == Cardinality(list) > page IN
    [rows |-> {o \in list : Rank(list, o) = page},
     info |-> IF more THEN "more" ELSE "last",
     snap |-> IF more THEN list ELSE {}]

AllOf(c) == [rows |-> Objs(c), info |-> "none", snap |-> {}]

NoTask == [stage |-> "none", mode |-> "none", request |-> <<>>,
           ctx |-> [tenant |-> CHOOSE c \in Contexts : TRUE, version |-> 0],
           current |-> FALSE, valid |-> FALSE, seen |-> NoAnswer]

\* currentTableRequest.
Req(s) == <<s.query, s.mode, s.page, s.cursor>>
-----------------------------------------------------------------------------
(***************************************************************************)
(* refresh.ts                                                              *)
(***************************************************************************)
\* The beginning of the task, up to its first await.
StartTask(s, mode) ==
    LET clears == s.query /\ s.mode = "server" IN
    [s EXCEPT !.task = [stage |-> "support", mode |-> mode, request |-> Req(s),
                        ctx |-> ctx, current |-> TRUE, valid |-> TRUE, seen |-> NoAnswer],
              !.loading = @ \/ mode = "foreground",
              !.rows = IF clears THEN {} ELSE @,
              !.info = IF clears THEN "none" ELSE @,
              !.token = IF clears THEN {} ELSE @,
              !.owed = @ \/ clears]

\* request of createLatestRefreshController.
Request(s, mode) ==
    IF s.task.stage = "none" THEN StartTask(s, mode)
    ELSE [s EXCEPT !.task.current = @ /\ mode # "foreground",
                   !.queued = IF "foreground" \in {@, mode} THEN "foreground" ELSE "background"]

\* Slip: tombstones go as soon as the name is listed.
ReconcileSeen(s, list) ==
    [s EXCEPT !.tomb = {o \in @ : \A p \in list : p.name # o.name}]

\* OperationLocks.reconcile: a tombstone stays while its object is listed.
Reconcile(s, list) == [s EXCEPT !.tomb = @ \cap list]

Tombstone(s, o) == [s EXCEPT !.tomb = {p \in @ : p.name # o.name} \cup {o}]
-----------------------------------------------------------------------------
(***************************************************************************)
(* The view's own functions.                                               *)
(***************************************************************************)
Shown(s) == s.rows \ s.tomb

FirstRun(s) == s.settled /\ Shown(s) = {} /\ s.page = 1 /\ ~s.query

\* invalidateCompleteAuthority.
Invalidate(s) ==
    [s EXCEPT !.task.valid = FALSE, !.settled = FALSE, !.force = TRUE, !.owed = TRUE]

\* fullWalkPending || supportReadPending || serverPageReadPending
Busy(s) == s.walking \/ s.task.stage \in {"support", "page"}

\* load.  TablesView takes no second read while one is pending, unless forced.
Load(s, force) ==
    IF ~polls /\ ~force /\ Busy(s) THEN [s EXCEPT !.force = FALSE]
    ELSE Request([s EXCEPT !.force = FALSE, !.loading = TRUE,
                           !.settled = @ /\ s.pending = {}], "foreground")

Active(s) == s.query \/ s.mode = "client"

\* tableRequestIsCurrent.
IsCurrent(s) == s.task.current /\ Req(s) = s.task.request

\* Slip: the tenant is not looked at.
OutdatedAuthority(s) == ~s.task.valid

Outdated(s) == ctx # s.task.ctx \/ ~s.task.valid

\* Slip: a walk that is over stays marked as pending.
EndWalking(s) ==
    LET mine == ctx = s.task.ctx /\ s.task.current
        t == [s EXCEPT !.task = NoTask, !.queued = "none",
                       !.loading = @ /\ ~(mine /\ s.task.mode = "foreground"),
                       !.timer = @ \/ (polls /\ mine)]
    IN  IF s.queued = "none" THEN t ELSE Request(t, s.queued)

\* Slip: the timer is not set again after a read that failed.
EndUnscheduled(s) ==
    LET mine == ctx = s.task.ctx /\ s.task.current
        t == [s EXCEPT !.walking = FALSE, !.task = NoTask, !.queued = "none",
                       !.loading = @ /\ ~(mine /\ s.task.mode = "foreground"),
                       !.timer = @ \/ (polls /\ mine /\ ~s.error)]
    IN  IF s.queued = "none" THEN t ELSE Request(t, s.queued)

\* The task's finally block, and the controller's: a queued read begins.
End(s) ==
    LET mine == ctx = s.task.ctx /\ s.task.current
        t == [s EXCEPT !.walking = FALSE, !.task = NoTask, !.queued = "none",
                       !.loading = @ /\ ~(mine /\ s.task.mode = "foreground"),
                       !.timer = @ \/ (polls /\ mine)]
    IN  IF s.queued = "none" THEN t ELSE Request(t, s.queued)

\* Rows are taken over from an answer.
Commit(s, answer, page, complete) ==
    [s EXCEPT !.rows = answer.rows, !.info = answer.info, !.token = answer.snap,
              !.error = FALSE, !.owed = FALSE, !.loaded = TRUE,
              !.from = [page |-> page, complete |-> complete]]

\* The whole list becomes the client's.
CommitAll(s, answer) ==
    Reconcile([Commit(s, answer, 1, TRUE) EXCEPT !.mode = "client", !.page = 1, !.cursor = {},
                                                 !.info = "none", !.token = {}],
              answer.rows)

StartWalk(s) == [s EXCEPT !.task.stage = "walk", !.task.seen = NoAnswer, !.walking = TRUE]
-----------------------------------------------------------------------------
(***************************************************************************)
(* The refresh task: what follows each await.                              *)
(***************************************************************************)
AfterSupport(s) ==
    IF Outdated(s) THEN End(s)
    ELSE IF Active(s) THEN StartWalk(s)
    ELSE IF ~IsCurrent(s) THEN End(s)
    ELSE [s EXCEPT !.task.stage = "page"]

\* Slip: any first page settles the view.
CommitPageSettled(s, answer, page) ==
    [Commit(s, answer, page, page = 1 /\ answer.info = "last") EXCEPT !.settled = TRUE]

\* A page of the list, in server mode: a complete first one settles deletions.
CommitPage(s, answer, page) ==
    LET complete == page = 1 /\ answer.info = "last"
        t == Commit(s, answer, page, complete)
        pending == s.pending \cap answer.rows
    IN  IF complete
        THEN [Reconcile(t, answer.rows) EXCEPT !.pending = pending, !.settled = pending = {}]
        ELSE [t EXCEPT !.settled = @ /\ page # 1]

\* Slip: an answer is taken over though the page has been left.
AfterPageAnyway(s) ==
    LET answer == s.task.seen
        page   == s.task.request[3]
    IN  IF ctx # s.task.ctx THEN End(s)
        ELSE IF Active(s)
        THEN IF page = 1 /\ answer.info = "last" THEN End(CommitAll(s, answer))
                                                 ELSE StartWalk(s)
        ELSE End(CommitPage(s, answer, page))

AfterPage(s) ==
    LET answer == s.task.seen
        page   == s.task.request[3]
    IN  IF Outdated(s) THEN End(s)
        ELSE IF Active(s)
        THEN IF page = 1 /\ answer.info = "last" THEN End(CommitAll(s, answer))
                                                 ELSE StartWalk(s)
        ELSE IF ~IsCurrent(s) THEN End(s)
        ELSE End(CommitPage(s, answer, page))

AfterWalk(s) ==
    IF Outdated(s) \/ ~Active(s) THEN End(s) ELSE End(CommitAll(s, s.task.seen))

\* The catch block.
AfterError(s) ==
    IF Outdated(s) \/ (~Active(s) /\ ~IsCurrent(s)) THEN End(s)
    ELSE End([s EXCEPT !.error = TRUE, !.owed = FALSE])
-----------------------------------------------------------------------------
(***************************************************************************)
(* Actions.                                                                *)
(***************************************************************************)
Change == changes < MaxChanges /\ changes' = changes + 1
Fault  == faults < MaxFaults /\ faults' = faults + 1

\* A step of the mounted view.
View(s) == ui' = s /\ UNCHANGED <<polls, ctx, store, born>>

\* The support read has its answer.
SupportAnswers ==
    /\ ui.task.stage = "support"
    /\ View(AfterSupport(ui))
    /\ UNCHANGED <<changes, faults, acked, excused>>

\* What a page is cut from: the objects there are, or, with a continue token,
\* those there were.
Snapshot(task) ==
    IF task.request[3] = 1 THEN Objs(task.ctx.tenant)
    ELSE {o \in task.request[4] : o.ctx = task.ctx.tenant}

\* The server answers a read ...
Serve ==
    /\ ui.task.stage \in {"page", "walk"} /\ ui.task.seen = NoAnswer
    /\ View([ui EXCEPT !.task.seen = IF ui.task.stage = "walk" THEN AllOf(ui.task.ctx.tenant)
                                     ELSE PageOf(Snapshot(ui.task), ui.task.request[3])])
    /\ UNCHANGED <<changes, faults, acked, excused>>

\* ... and the answer arrives.
AnswerArrives ==
    /\ ui.task.seen # NoAnswer
    /\ View(IF ui.task.stage = "walk" THEN AfterWalk(ui) ELSE AfterPage(ui))
    /\ UNCHANGED <<changes, faults, acked, excused>>

ReadFails ==
    /\ ui.task.stage # "none" /\ Fault
    /\ View(AfterError(ui))
    /\ UNCHANGED <<changes, acked, excused>>

\* A continue token is too old (410 Gone), and to the view that is an error like
\* any other: it keeps the token and asks with it again.
TokenExpires ==
    /\ ui.task.stage = "page" /\ ui.task.seen = NoAnswer /\ ui.task.request[3] > 1
    /\ View(AfterError(ui))
    /\ UNCHANGED <<changes, faults, acked, excused>>

\* createAdaptiveRefreshTimer's timer.
Tick ==
    /\ ui.timer
    /\ View(Request([ui EXCEPT !.timer = FALSE, !.settled = @ /\ ui.pending = {}], "background"))
    /\ UNCHANGED <<changes, faults, acked, excused>>

Mounted == ctx = ui.ctx

\* The list is on the screen, not a detail view over it; so are its controls.
ListShown == Mounted /\ ui.detail = {}

TableShown == ListShown /\ ui.loaded /\ ~FirstRun(ui)

\* TablesView's Refresh button, disabled while the view loads, hands `load' an
\* event; Retry is there with an error; a kept-alive view that is shown again
\* after a form forces a read.
Refresh ==
    /\ ListShown /\ Change
    /\ \/ ~polls /\ TableShown /\ ~ui.loading /\ View(Load(ui, ui.force))
       \/ ui.error /\ View(Load(ui, FALSE))
       \/ View(Load(ui, TRUE))
    /\ UNCHANGED <<faults, acked, excused>>

\* handleTableChange without a query: another page, with the token that the page
\* before came with or that it was read with before, or the query is cleared.
Browse(page) ==
    /\ TableShown /\ Change
    /\ IF ui.query THEN page = 1
       ELSE \/ page = ui.page + 1 /\ ui.info = "more"
            \/ page + 1 = ui.page
    /\ View(Load([Invalidate(ui) EXCEPT !.page = page, !.query = FALSE, !.info = "none",
                    !.cursor = IF page = 1 THEN {} ELSE IF page > ui.page THEN ui.token ELSE @,
                    !.token = {}, !.walking = FALSE, !.mode = "server", !.rows = {}], FALSE))
    /\ UNCHANGED <<faults, acked, excused>>

\* What a read that still counts asks for by token, and what it has found.
Asked(s) ==
    IF s.task.valid /\ s.task.stage \in {"support", "page"} THEN s.task.request[4] ELSE {}

Found(s) == IF s.task.valid THEN s.task.seen.rows \cup s.task.seen.snap ELSE {}

\* What there is to be shown, now or by a read to come.
Listed(s) == store \cup s.rows \cup s.cursor \cup s.token \cup Asked(s) \cup Found(s)

\* Objects that have lost their tombstones from s to t, and are still listed.
Forgotten(s, t) == (s.tomb \ t.tomb) \cap Listed(s)

\* handleTableChange with a query, and databricksHybridTransition.
AfterSearch(s) ==
    LET reuse == s.mode = "server" /\ s.page = 1 /\ s.info = "last"
        t == [s EXCEPT !.settled = FALSE, !.page = 1, !.query = TRUE, !.cursor = {},
                       !.info = "none", !.token = {}]
    IN  IF s.mode = "client" THEN t
        ELSE IF reuse THEN Reconcile([t EXCEPT !.mode = "client"], t.rows)
        ELSE IF Busy(s) THEN [t EXCEPT !.rows = {}, !.owed = TRUE]
        ELSE Load([t EXCEPT !.rows = {}, !.walking = TRUE, !.owed = TRUE], TRUE)

Search ==
    /\ TableShown /\ Change
    /\ View(AfterSearch(ui))
    /\ excused' = excused \cup Forgotten(ui, AfterSearch(ui))
    /\ UNCHANGED <<faults, acked>>

\* The name is not locked: operations.acquire.
Unlocked(o) == \A r \in ui.removing : r.obj.name # o.name

\* remove: the user confirms, and the deletion is sent, by name.
Remove(o) ==
    /\ TableShown /\ Change
    /\ o \in Shown(ui) /\ Unlocked(o)
    /\ View([ui EXCEPT !.removing = @ \cup {[obj |-> o, done |-> FALSE, by |-> "list"]}])
    /\ UNCHANGED <<faults, acked, excused>>

\* A detail view is opened, from the list or for an object just created: the
\* list is kept alive behind it.  It deletes likewise.
Visit(o) ==
    /\ ListShown /\ Change
    /\ o \in Objs(ctx.tenant) /\ Unlocked(o)
    /\ View([ui EXCEPT !.detail = {o}])
    /\ UNCHANGED <<faults, acked, excused>>

RemoveVisited(o) ==
    /\ Mounted /\ Change
    /\ o \in ui.detail /\ Unlocked(o)
    /\ View([ui EXCEPT !.removing = @ \cup {[obj |-> o, done |-> FALSE, by |-> "detail"]}])
    /\ UNCHANGED <<faults, acked, excused>>

\* The list is shown again (onActivated); a deletion that the detail view still
\* waits for will find it unmounted.
Return ==
    LET left(r) == IF r.by = "detail" THEN [r EXCEPT !.by = "gone"] ELSE r IN
    /\ Mounted /\ ui.detail # {}
    /\ View(Load([ui EXCEPT !.detail = {}, !.removing = {left(r) : r \in @}], TRUE))
    /\ UNCHANGED <<changes, faults, acked, excused>>

\* The server carries it out.
RemoveServed(r) ==
    LET hit == {p \in store : p.ctx = r.obj.ctx /\ p.name = r.obj.name} IN
    /\ r \in ui.removing /\ ~r.done
    /\ hit # {}         \* otherwise 404: RemoveFails
    /\ store' \in {store \ hit} \cup (IF Lingers THEN {store} ELSE {})
    /\ ui' = [ui EXCEPT !.removing = (@ \ {r}) \cup {[r EXCEPT !.done = TRUE]}]
    /\ UNCHANGED <<polls, ctx, born, changes, faults, acked, excused>>

AfterDelete(s, o) ==
    Load([Tombstone(Invalidate(s), o) EXCEPT !.pending = {p \in @ : p.name # o.name} \cup {o},
             !.rows = {p \in @ : p.name # o.name}], FALSE)

\* The whole list, found by a read that still counts.
Completed(s) ==
    /\ s.task.valid /\ s.task.seen # NoAnswer
    /\ s.task.stage = "walk" \/ (s.task.request[3] = 1 /\ s.task.seen.info = "last")

\* The acknowledgement arrives at the list, which reads again; ...
RemoveAnswers(r) ==
    LET s == [ui EXCEPT !.removing = @ \ {r}] IN
    /\ r \in ui.removing /\ r.done /\ r.by = "list"
    /\ View(AfterDelete(s, r.obj))
    /\ acked' = acked \cup {r.obj}
    /\ excused' = excused \cup Forgotten(ui, Tombstone(s, r.obj))
    /\ UNCHANGED <<changes, faults>>

\* ... at a detail view, which only sets the tombstone: a complete list that was
\* read before the object was there, and arrives now, takes it away again; ...
VisitedAnswers(r) ==
    LET t == Tombstone([ui EXCEPT !.removing = @ \ {r}], r.obj)
        missed == Completed(ui) /\ r.obj \in store \ ui.task.seen.rows
    IN  /\ r \in ui.removing /\ r.done /\ r.by = "detail"
        /\ View(t)
        /\ acked' = acked \cup {r.obj}
        /\ excused' = excused \cup Forgotten(ui, t) \cup {o \in {r.obj} : missed}
        /\ UNCHANGED <<changes, faults>>

\* ... or after the view that sent the deletion: the lock is released.
LateAnswers(r) ==
    /\ r \in ui.removing /\ r.done /\ r.by = "gone"
    /\ View([ui EXCEPT !.removing = @ \ {r}])
    /\ UNCHANGED <<changes, faults, acked, excused>>

\* The deletion fails, before or after it was carried out.
RemoveFails(r) ==
    /\ r \in ui.removing /\ Fault
    /\ View([ui EXCEPT !.removing = @ \ {r}])
    /\ UNCHANGED <<changes, acked, excused>>

\* An object that lingered is gone, or somebody deletes one; one is created.
Vanish(o) ==
    /\ o \in store /\ (o \notin acked => changes < MaxChanges)
    /\ changes' = IF o \in acked THEN changes ELSE changes + 1
    /\ store' = store \ {o}
    /\ UNCHANGED <<polls, ctx, born, ui, faults, acked, excused>>

Create(o) ==
    /\ Change
    /\ o \notin born /\ \A p \in Objs(o.ctx) : p.name # o.name
    /\ store' = store \cup {o} /\ born' = born \cup {o}
    /\ UNCHANGED <<polls, ctx, ui, faults, acked, excused>>

\* The view as it is mounted, with its tenant's tombstones and locks, and no
\* deletion pending of its own: onMounted calls load.
Fresh(tomb, removing) ==
    LET blank == [ctx |-> ctx, query |-> FALSE, mode |-> "server", page |-> 1, rows |-> {},
                  cursor |-> {}, info |-> "none", token |-> {}, settled |-> FALSE,
                  loading |-> FALSE, loaded |-> FALSE, error |-> FALSE,
                  walking |-> FALSE, force |-> FALSE, queued |-> "none", timer |-> FALSE,
                  task |-> NoTask, pending |-> {}, tomb |-> tomb, removing |-> removing,
                  detail |-> {}, owed |-> TRUE, from |-> [page |-> 1, complete |-> FALSE]]
    IN  Load(blank, FALSE)

\* The host selects a tenant, or rotates the token or the base path of the one
\* there is, and the keyed view is mounted anew: what the old one still waits
\* for finds it unmounted.
Switch ==
    /\ Mounted /\ Change
    /\ \E c \in Contexts : ctx' = [tenant |-> c, version |-> ctx.version + 1]
    /\ UNCHANGED <<polls, store, born, ui, faults, acked, excused>>

\* setOperationContext: another tenant starts a clean domain, the same one goes
\* on with what it has.
Remount ==
    LET kept(S) == IF ctx.tenant = ui.ctx.tenant THEN S ELSE {} IN
    /\ ~Mounted
    /\ View(Fresh(kept(ui.tomb), {[r EXCEPT !.by = "gone"] : r \in kept(ui.removing)}))
    /\ acked' = kept(acked) /\ excused' = kept(excused)
    /\ UNCHANGED <<changes, faults>>

Init ==
    /\ polls \in Views
    /\ ctx = [tenant |-> CHOOSE c \in Contexts : TRUE, version |-> 1]
    /\ store \in {S \in SUBSET [ctx : Contexts, name : Names, uid : {CHOOSE u \in Uids : TRUE}] :
                    \A c \in Contexts \ {ctx.tenant} :
                       {o.name : o \in {p \in S : p.ctx = c}} = {CHOOSE n \in Names : TRUE}}
    /\ born = store
    /\ ui = Fresh({}, {})
    /\ changes = 0 /\ faults = 0 /\ acked = {} /\ excused = {}

Reads == SupportAnswers \/ Serve \/ AnswerArrives

Next ==
    \/ Reads \/ ReadFails \/ TokenExpires \/ Tick \/ Refresh \/ Search
    \/ \E page \in 1..Cardinality(Names) : Browse(page)
    \/ \E o \in Objects : Remove(o) \/ Visit(o) \/ RemoveVisited(o) \/ Vanish(o) \/ Create(o)
    \/ \E r \in ui.removing : \/ RemoveServed(r) \/ RemoveFails(r)
                              \/ RemoveAnswers(r) \/ VisitedAnswers(r) \/ LateAnswers(r)
    \/ Return \/ Switch \/ Remount

\* Reads are answered sooner or later, timers fire and keyed views are mounted.
Spec == Init /\ [][Next]_vars /\ WF_vars(Reads) /\ WF_vars(Tick) /\ WF_vars(Remount)
-----------------------------------------------------------------------------
(***************************************************************************)
(* Properties.                                                             *)
(***************************************************************************)
\* The view keeps its state's types; it owns the whole list only while there
\* is a query, and every walk that is marked as pending has a task.
TypeOK ==
    /\ ui.rows \subseteq Objects /\ ui.tomb \subseteq Objects /\ ui.pending \subseteq Objects
    /\ ui.info \in {"none", "more", "last"}
    /\ ui.queued \in {"none", "foreground", "background"}
    /\ ui.mode \in {"server", "client"} /\ (ui.mode = "client" => ui.query)
    /\ ui.task.stage \in {"none", "support", "page", "walk"}
    /\ ui.walking \/ ui.queued # "none" => ui.task.stage # "none"

\* Answers are taken over for the question they were asked for: the rows of a
\* view are those of the page it is on, and rows that are filtered by the view
\* itself are the whole list.
RowsAnswerTheQuestion ==
    ui.rows # {} =>
        /\ ui.mode = "server" => ui.from.page = ui.page
        /\ ui.mode = "client" => ui.from.complete

\* Once another tenant is selected, no answer about the one before reaches the
\* screen, though the view that asked for it is still mounted for a moment.
TenantsStayApart == [][\A o \in ui'.rows \ ui.rows : o.ctx = ctx.tenant]_vars

\* An object whose deletion was acknowledged, to the list or to a detail view, is
\* never shown again, whichever reads were in flight, of this mount or of one
\* before, unless it was listed when its tombstone was given up otherwise than
\* to a complete list read after the deletion: to a query that takes the rows on
\* the screen for one, to a list read before the object was created, or to the
\* tombstone of another object of its name.
DeletedStaysHidden == Shown(ui) \cap (acked \ excused) = {}

\* The first-run surface, which tells the user that there is nothing yet, is
\* shown only when the server's complete list, of this mount and not thrown
\* away since, held nothing but objects whose deletion was acknowledged.
FirstRunIsTrue == FirstRun(ui) => ui.from.complete /\ ~ui.owed /\ ui.rows \subseteq acked

\* What TablesView.vue says of it beside its load: after a deletion the surface
\* waits until a complete first page confirms that the object is gone.
FirstRunIsConfirmed == ListShown /\ FirstRun(ui) => ui.rows = {}

\* What refresh.ts says of tombstones: an acknowledged deletion is hidden until
\* a later authoritative list omits it, after which no read finds it.
DeletedNeverShown == Shown(ui) \cap acked = {}

\* A view that polls ends up with the rows that the server has, if it is on the
\* first page or filters the whole list.  On a later page it polls with a token,
\* which shows what there was.
PolledConverges ==
    polls => <>[](/\ ui.mode = "client" => ui.rows = Objs(ctx.tenant)
                  /\ ui.mode = "server" /\ ui.page = 1 =>
                        ui.rows = PageOf(Objs(ctx.tenant), 1).rows)

\* Any view that has thrown its rows or its authority away reads again.
ReloadFollows == ui.owed ~> ~ui.owed
=============================================================================
