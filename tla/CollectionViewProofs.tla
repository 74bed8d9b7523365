------------------------ MODULE CollectionViewProofs ------------------------
(***************************************************************************)
(* Proofs about the portal's lists, for any names, tenants, changes and    *)
(* faults.                                                                 *)
(***************************************************************************)
EXTENDS CollectionView, FiniteSetTheorems, TLAPS

(***************************************************************************)
(* The inductive invariant.  Its parts speak of the view's record s and of *)
(* what they need of the rest: the tenant c that is selected, the objects  *)
(* st there are, and the deletions ak that were acknowledged.              *)
(***************************************************************************)
Answers == [rows : SUBSET Objects, info : {"unread", "none", "more", "last"}, snap : SUBSET Objects]

Questions == BOOLEAN \X {"server", "client"} \X Nat \X SUBSET Objects

Modes == {"none", "foreground", "background"}

Versions == [tenant : Contexts, version : Nat]

Tasks == [stage : {"none", "support", "page", "walk"}, mode : Modes,
          request : Questions \cup {<<>>}, ctx : Versions,
          current : BOOLEAN, valid : BOOLEAN, seen : Answers]

Removals == [obj : Objects, done : BOOLEAN, by : {"list", "detail", "gone"}]

Origins == [page : Nat, complete : BOOLEAN]

UI == [ctx : Versions, query : BOOLEAN, mode : {"server", "client"}, page : Nat,
       rows : SUBSET Objects, cursor : SUBSET Objects, info : {"none", "more", "last"},
       token : SUBSET Objects, settled : BOOLEAN,
       loading : BOOLEAN, loaded : BOOLEAN, error : BOOLEAN, walking : BOOLEAN,
       force : BOOLEAN, queued : Modes, timer : BOOLEAN, task : Tasks,
       pending : SUBSET Objects, tomb : SUBSET Objects, removing : SUBSET Removals,
       detail : SUBSET Objects, owed : BOOLEAN, from : Origins]

\* The rows fit what the view says of them; the first page is read without a
\* token.
RowsInv(s) ==
    /\ s.mode = "client" => s.query
    /\ s.rows # {} /\ s.mode = "server" => s.from.page = s.page
    /\ s.rows # {} /\ s.mode = "client" => s.from.complete
    /\ s.info # "none" => s.from.page = s.page
    /\ s.info = "last" /\ s.page = 1 => s.from.complete
    /\ s.page = 1 => s.cursor = {}

\* What is settled is a complete list.
SettledInv(s) == s.settled /\ ~s.query /\ s.page = 1 => s.from.complete /\ ~s.owed

\* Nothing is marked as pending without a task.
WaitInv(s) == s.walking \/ s.queued # "none" => s.task.stage # "none"

\* A task asks one question about one tenant.
TaskInv(s, c) ==
    /\ s.task.stage # "none" =>
          s.task.request \in Questions /\ (s.task.request[3] = 1 => s.task.request[4] = {})
    /\ s.task.seen # NoAnswer => s.task.stage \in {"page", "walk"}
    /\ s.task.seen.info = "unread" => s.task.seen = NoAnswer
    /\ s.task.seen.info # "more" => s.task.seen.snap = {}
    /\ s.task.stage = "walk" => s.task.seen.info \in {"unread", "none"}
    /\ \A o \in s.task.seen.rows : o.ctx = s.task.ctx.tenant
    /\ s.ctx = c => \A o \in s.rows : o.ctx = c.tenant
    /\ \A o \in s.detail : o.ctx = s.ctx.tenant
    /\ \A r \in s.removing : r.obj.ctx = s.ctx.tenant

\* What tokens and reads that still count may bring to the screen.
Reach(s) == s.cursor \cup s.token \cup Asked(s) \cup Found(s)

Known(s) == s.rows \cup Reach(s) \cup s.detail \cup {r.obj : r \in s.removing}

\* Tombstones are those of acknowledged deletions, and a read that counts and is
\* complete has found every deleted object that is still there.
DeletionInv(s, st, ak, ex) ==
    /\ \A p \in ak : p.ctx = s.ctx.tenant
    /\ s.tomb \subseteq ak
    /\ Completed(s) =>
          \A p \in (ak \ ex) \cap st : p.ctx = s.task.ctx.tenant => p \in s.task.seen.rows

\* Deleted objects are hidden, or gone for good.
HiddenInv(s, c, st, ak, ex) ==
    \A p \in ak \ ex : \/ p \in s.tomb
                       \/ /\ p \notin s.rows
                          /\ s.ctx.tenant = c.tenant => p \notin st \cup Reach(s)

CoreInv(s, c, st, ak, ex) ==
    /\ s \in UI
    /\ RowsInv(s) /\ SettledInv(s) /\ TaskInv(s, c)
    /\ DeletionInv(s, st, ak, ex) /\ HiddenInv(s, c, st, ak, ex)

ViewInv(s, c, st, ak, ex) == CoreInv(s, c, st, ak, ex) /\ WaitInv(s)

\* The server's objects; uids are not used twice.
StoreInv ==
    /\ polls \in BOOLEAN /\ ctx \in Versions
    /\ store \subseteq born /\ born \subseteq Objects /\ IsFiniteSet(store)
    /\ acked \subseteq born
    /\ Known(ui) \subseteq born

Inv == StoreInv /\ ViewInv(ui, ctx, store, acked, excused)
-----------------------------------------------------------------------------
(***************************************************************************)
(* What the functions of refresh.ts do to each part of the view.           *)
(***************************************************************************)
\* What none of them touches.
Stays(s, t) ==
    /\ t.ctx = s.ctx /\ t.query = s.query /\ t.mode = s.mode /\ t.page = s.page
    /\ t.cursor = s.cursor /\ t.pending = s.pending /\ t.tomb = s.tomb
    /\ t.removing = s.removing /\ t.detail = s.detail /\ t.from = s.from

NewTask(s, mode) ==
    [stage |-> "support", mode |-> mode, request |-> Req(s),
     ctx |-> ctx, current |-> TRUE, valid |-> TRUE, seen |-> NoAnswer]

LEMMA NoAnswerType == NoAnswer \in Answers /\ NoTask \in Tasks
  <1> DEFINE none == [tenant |-> CHOOSE c \in Contexts : TRUE, version |-> 0]
  <1>1. none \in Versions
    BY ObjectsAssumption DEF Versions
  <1>2. NoAnswer \in Answers
    BY DEF NoAnswer, Answers
  <1> HIDE DEF none
  <1> QED BY <1>1, <1>2 DEF NoTask, Tasks, Modes, none

LEMMA NewTaskType ==
    ASSUME NEW s \in UI, ctx \in Versions, NEW mode \in Modes
    PROVE  NewTask(s, mode) \in Tasks /\ Req(s) \in Questions
  <1>1. Req(s) \in Questions
    BY DEF Req, Questions, UI
  <1> QED BY <1>1, NoAnswerType DEF NewTask, Tasks

LEMMA StartTaskFields ==
    ASSUME NEW s \in UI, ctx \in Versions, NEW mode \in Modes, NEW t, t = StartTask(s, mode)
    PROVE  /\ t \in UI /\ Stays(s, t)
           /\ t.settled = s.settled /\ t.walking = s.walking /\ t.queued = s.queued
           /\ t.task = NewTask(s, mode)
           /\ IF s.query /\ s.mode = "server"
              THEN t.rows = {} /\ t.info = "none" /\ t.token = {} /\ t.owed
              ELSE t.rows = s.rows /\ t.info = s.info /\ t.token = s.token /\ t.owed = s.owed
  <1> DEFINE clears == s.query /\ s.mode = "server"
             task == NewTask(s, mode)
             loading == s.loading \/ mode = "foreground"
             rows == IF clears THEN {} ELSE s.rows
             info == IF clears THEN "none" ELSE s.info
             token == IF clears THEN {} ELSE s.token
             owed == s.owed \/ clears
  <1>1. t = [s EXCEPT !.task = task, !.loading = loading, !.rows = rows, !.info = info,
                      !.token = token, !.owed = owed]
    BY DEF StartTask, NewTask
  <1>2. /\ task \in Tasks /\ loading \in BOOLEAN /\ owed \in BOOLEAN
        /\ rows \in SUBSET Objects /\ info \in {"none", "more", "last"} /\ token \in SUBSET Objects
    BY NewTaskType DEF UI
  <1> HIDE DEF task, loading, rows, info, token, owed
  <1>3. [s EXCEPT !.task = task, !.loading = loading, !.rows = rows, !.info = info,
                  !.token = token, !.owed = owed] \in UI
    BY <1>2 DEF UI
  <1>4. /\ t.settled = s.settled /\ t.walking = s.walking /\ t.queued = s.queued
        /\ t.task = task
    BY <1>1 DEF UI
  <1>5. Stays(s, t)
    BY <1>1 DEF UI, Stays
  <1>6. t.rows = rows /\ t.info = info /\ t.token = token /\ t.owed = owed
    BY <1>1 DEF UI
  <1>7. s.owed \in BOOLEAN
    BY DEF UI
  <1>8. t \in UI
    BY <1>1, <1>3
  <1> QED BY <1>4, <1>5, <1>6, <1>7, <1>8 DEF task, rows, info, token, owed

LEMMA QueueFields ==
    ASSUME NEW s \in UI, s.task.stage # "none", NEW mode \in {"foreground", "background"},
           NEW t, t = Request(s, mode)
    PROVE  /\ t \in UI /\ Stays(s, t)
           /\ t.settled = s.settled /\ t.walking = s.walking
           /\ t.rows = s.rows /\ t.info = s.info /\ t.token = s.token /\ t.owed = s.owed
           /\ t.task \in Tasks /\ t.task.stage = s.task.stage /\ t.task.request = s.task.request
           /\ t.task.ctx = s.task.ctx /\ t.task.valid = s.task.valid /\ t.task.seen = s.task.seen
  <1> DEFINE task == [s.task EXCEPT !.current = s.task.current /\ mode # "foreground"]
             queued == IF "foreground" \in {s.queued, mode} THEN "foreground" ELSE "background"
  <1>1. t = [s EXCEPT !.task = task, !.queued = queued]
    BY DEF Request, UI
  <1>2. s.task \in Tasks /\ queued \in Modes
    BY DEF UI, Modes
  <1>3. /\ task \in Tasks /\ task.stage = s.task.stage /\ task.request = s.task.request
        /\ task.ctx = s.task.ctx /\ task.valid = s.task.valid /\ task.seen = s.task.seen
    BY <1>2 DEF Tasks
  <1>7. task \in Tasks /\ queued \in Modes
    BY <1>2, <1>3
  <1> HIDE DEF task, queued
  <1>8. [s EXCEPT !.task = task, !.queued = queued] \in UI
    BY <1>7 DEF UI
  <1>4. t \in UI
    BY <1>1, <1>8
  <1>5. t.task = task /\ Stays(s, t)
    BY <1>1 DEF UI, Stays
  <1>6. /\ t.settled = s.settled /\ t.walking = s.walking
        /\ t.rows = s.rows /\ t.info = s.info /\ t.token = s.token /\ t.owed = s.owed
    BY <1>1 DEF UI
  <1> QED BY <1>3, <1>4, <1>5, <1>6

\* Asking for a read keeps the invariant, and brings nothing to the screen.
LEMMA RequestKeeps ==
    ASSUME NEW s, NEW st, NEW ak, NEW ex, ctx \in Versions, CoreInv(s, ctx, st, ak, ex),
           NEW mode \in {"foreground", "background"}
    PROVE  LET t == Request(s, mode) IN
           /\ ViewInv(t, ctx, st, ak, ex)
           /\ t.rows \subseteq s.rows /\ Known(t) \subseteq Known(s)
  <1> DEFINE t == Request(s, mode)
  <1>1. s \in UI /\ mode \in Modes
    BY DEF ViewInv, CoreInv, Modes
  <1>2. CASE s.task.stage = "none"
    <2>1. /\ t \in UI /\ Stays(s, t)
          /\ t.settled = s.settled /\ t.walking = s.walking /\ t.queued = s.queued
          /\ t.task = NewTask(s, mode)
          /\ IF s.query /\ s.mode = "server"
             THEN t.rows = {} /\ t.info = "none" /\ t.token = {} /\ t.owed
             ELSE t.rows = s.rows /\ t.info = s.info /\ t.token = s.token /\ t.owed = s.owed
      BY <1>1, <1>2, StartTaskFields DEF Request
    <2>2. /\ t.task.stage = "support" /\ t.task.ctx = ctx /\ t.task.request \in Questions
          /\ t.task.request[3] = s.page /\ t.task.request[4] = s.cursor
          /\ t.task.valid /\ t.task.seen = NoAnswer
          /\ NoAnswer.rows = {} /\ NoAnswer.info = "unread" /\ NoAnswer.snap = {}
      BY <1>1, <2>1, NewTaskType DEF NewTask, NoAnswer, Req
    <2> HIDE DEF t
    <2>3. t.rows \subseteq s.rows /\ Reach(t) \subseteq Reach(s) /\ Known(t) \subseteq Known(s)
      BY <2>1, <2>2 DEF Reach, Asked, Found, Known, Stays
    <2>4. RowsInv(t) /\ SettledInv(t)
      BY <2>1 DEF ViewInv, CoreInv, RowsInv, SettledInv, Stays
    <2>5. TaskInv(t, ctx) /\ WaitInv(t)
      BY <2>1, <2>2, <2>3 DEF ViewInv, CoreInv, RowsInv, WaitInv, TaskInv, Stays
    <2>6. DeletionInv(t, st, ak, ex)
      BY <2>1, <2>2 DEF ViewInv, CoreInv, DeletionInv, Completed, Stays
    <2>7. HiddenInv(t, ctx, st, ak, ex)
      BY <2>1, <2>3 DEF ViewInv, CoreInv, HiddenInv, Stays
    <2> QED BY <2>1, <2>3, <2>4, <2>5, <2>6, <2>7 DEF t, ViewInv, CoreInv
  <1>3. CASE s.task.stage # "none"
    <2>1. /\ t \in UI /\ Stays(s, t)
          /\ t.settled = s.settled /\ t.walking = s.walking
          /\ t.rows = s.rows /\ t.info = s.info /\ t.token = s.token /\ t.owed = s.owed
          /\ t.task \in Tasks /\ t.task.stage = s.task.stage /\ t.task.request = s.task.request
          /\ t.task.ctx = s.task.ctx /\ t.task.valid = s.task.valid /\ t.task.seen = s.task.seen
      BY <1>1, <1>3, QueueFields
    <2> HIDE DEF t
    <2>2. Reach(t) = Reach(s) /\ Known(t) = Known(s)
      BY <2>1 DEF Reach, Asked, Found, Known, Stays
    <2>3. RowsInv(t) /\ SettledInv(t)
      BY <2>1 DEF ViewInv, CoreInv, RowsInv, SettledInv, Stays
    <2>4. TaskInv(t, ctx) /\ WaitInv(t)
      BY <1>3, <2>1 DEF ViewInv, CoreInv, WaitInv, TaskInv, Stays
    <2>5. DeletionInv(t, st, ak, ex) /\ HiddenInv(t, ctx, st, ak, ex)
      BY <2>1, <2>2 DEF ViewInv, CoreInv, DeletionInv, Completed, HiddenInv, Stays
    <2> QED BY <2>1, <2>2, <2>3, <2>4, <2>5 DEF t, ViewInv, CoreInv
  <1> QED BY <1>2, <1>3

\* The view differs at most in what the invariant does not look at, or is no
\* longer settled.
Same(s, t) ==
    /\ t \in UI /\ Stays(s, t)
    /\ (t.settled => s.settled) /\ t.walking = s.walking /\ t.queued = s.queued
    /\ t.task = s.task /\ t.rows = s.rows /\ t.info = s.info /\ t.token = s.token /\ t.owed = s.owed

LEMMA SameKeeps ==
    ASSUME NEW s, NEW st, NEW ak, NEW ex, CoreInv(s, ctx, st, ak, ex), NEW t, Same(s, t)
    PROVE  /\ CoreInv(t, ctx, st, ak, ex) /\ (WaitInv(s) => WaitInv(t))
           /\ t.rows = s.rows /\ Known(t) = Known(s)
  <1>1. Reach(t) = Reach(s) /\ Known(t) = Known(s)
    BY DEF Reach, Asked, Found, Known, Same, Stays
  <1>2. RowsInv(t) /\ SettledInv(t)
    BY DEF CoreInv, RowsInv, SettledInv, Same, Stays
  <1>3. TaskInv(t, ctx) /\ (WaitInv(s) => WaitInv(t))
    BY DEF CoreInv, WaitInv, TaskInv, Same, Stays
  <1>4. DeletionInv(t, st, ak, ex) /\ HiddenInv(t, ctx, st, ak, ex)
    BY <1>1 DEF CoreInv, DeletionInv, Completed, HiddenInv, Same, Stays
  <1> QED BY <1>1, <1>2, <1>3, <1>4 DEF CoreInv, Same

\* load, likewise.
LEMMA LoadKeeps ==
    ASSUME NEW s, NEW st, NEW ak, NEW ex, ctx \in Versions, CoreInv(s, ctx, st, ak, ex),
           NEW force, force \/ WaitInv(s)
    PROVE  LET t == Load(s, force) IN
           /\ ViewInv(t, ctx, st, ak, ex)
           /\ t.rows \subseteq s.rows /\ Known(t) \subseteq Known(s)
  <1> DEFINE u == [s EXCEPT !.force = FALSE]
             settled == s.settled /\ s.pending = {}
             v == [s EXCEPT !.force = FALSE, !.loading = TRUE, !.settled = settled]
  <1>1. s \in UI /\ settled \in BOOLEAN
    BY DEF CoreInv
  <1>2. Same(s, u)
    BY <1>1 DEF UI, Same, Stays
  <1>3. Same(s, v)
    <2> HIDE DEF settled
    <2>1. v \in UI
      BY <1>1 DEF UI
    <2>2. Stays(s, v)
      BY <1>1 DEF UI, Stays
    <2>3. /\ v.settled = settled /\ v.walking = s.walking /\ v.queued = s.queued
          /\ v.task = s.task /\ v.rows = s.rows /\ v.info = s.info /\ v.token = s.token
          /\ v.owed = s.owed
      BY <1>1 DEF UI
    <2> QED BY <2>1, <2>2, <2>3 DEF Same, settled
  <1>4. \/ Load(s, force) = u /\ WaitInv(s)
        \/ Load(s, force) = Request(v, "foreground")
    BY <1>1 DEF Load, UI
  <1> HIDE DEF u, v
  <1>5. CASE Load(s, force) = u /\ WaitInv(s)
    BY <1>2, <1>5, SameKeeps DEF ViewInv
  <1>6. CASE Load(s, force) = Request(v, "foreground")
    <2>1. CoreInv(v, ctx, st, ak, ex) /\ v.rows = s.rows /\ Known(v) = Known(s)
      BY <1>3, SameKeeps
    <2>2. LET t == Request(v, "foreground") IN
          /\ ViewInv(t, ctx, st, ak, ex)
          /\ t.rows \subseteq v.rows /\ Known(t) \subseteq Known(v)
      BY <2>1, RequestKeeps
    <2> QED BY <1>6, <2>1, <2>2
  <1> QED BY <1>4, <1>5, <1>6

\* The end of a task, after which a queued one begins.
LEMMA EndKeeps ==
    ASSUME NEW s, NEW st, NEW ak, NEW ex, ctx \in Versions, polls \in BOOLEAN,
           ViewInv(s, ctx, st, ak, ex)
    PROVE  LET t == End(s) IN
           /\ ViewInv(t, ctx, st, ak, ex)
           /\ t.rows \subseteq s.rows /\ Known(t) \subseteq Known(s)
  <1> DEFINE mine == ctx = s.task.ctx /\ s.task.current
             loading == s.loading /\ ~(mine /\ s.task.mode = "foreground")
             timer == s.timer \/ (polls /\ mine)
             u == [s EXCEPT !.walking = FALSE, !.task = NoTask, !.queued = "none",
                            !.loading = loading, !.timer = timer]
  <1>1. s \in UI
    BY DEF ViewInv, CoreInv
  <1>2. /\ u \in UI /\ Stays(s, u)
        /\ u.settled = s.settled /\ ~u.walking /\ u.queued = "none"
        /\ u.task = NoTask /\ u.rows = s.rows /\ u.info = s.info /\ u.token = s.token /\ u.owed = s.owed
    <2>1. loading \in BOOLEAN /\ timer \in BOOLEAN
      BY <1>1 DEF UI
    <2> HIDE DEF loading, timer
    <2>2. u \in UI
      BY <1>1, <2>1, NoAnswerType DEF UI, Modes
    <2>3. /\ Stays(s, u)
          /\ u.settled = s.settled /\ ~u.walking /\ u.queued = "none"
          /\ u.task = NoTask /\ u.rows = s.rows /\ u.info = s.info /\ u.token = s.token /\ u.owed = s.owed
      BY <1>1 DEF UI, Stays
    <2> QED BY <2>2, <2>3
  <1>3. End(s) = IF s.queued = "none" THEN u ELSE Request(u, s.queued)
    BY <1>1 DEF End, UI
  <1> HIDE DEF u
  <1>4. /\ NoTask.stage = "none" /\ ~NoTask.valid /\ NoTask.seen = NoAnswer
        /\ NoAnswer.rows = {} /\ NoAnswer.info = "unread" /\ NoAnswer.snap = {}
    BY DEF NoTask, NoAnswer
  <1>5. Reach(u) \subseteq Reach(s) /\ Known(u) \subseteq Known(s)
    BY <1>2, <1>4 DEF Reach, Asked, Found, Known, Stays
  <1>6. ViewInv(u, ctx, st, ak, ex)
    <2>1. RowsInv(u) /\ SettledInv(u)
      BY <1>2 DEF ViewInv, CoreInv, RowsInv, SettledInv, Stays
    <2>2. TaskInv(u, ctx) /\ WaitInv(u)
      BY <1>2, <1>4 DEF ViewInv, CoreInv, WaitInv, TaskInv, Stays
    <2>3. DeletionInv(u, st, ak, ex)
      BY <1>2, <1>4 DEF ViewInv, CoreInv, DeletionInv, Completed, Stays
    <2>4. HiddenInv(u, ctx, st, ak, ex)
      BY <1>2, <1>5 DEF ViewInv, CoreInv, HiddenInv, Stays
    <2> QED BY <1>2, <2>1, <2>2, <2>3, <2>4 DEF ViewInv, CoreInv
  <1>7. CASE s.queued = "none"
    BY <1>2, <1>3, <1>5, <1>6, <1>7
  <1>8. CASE s.queued # "none"
    <2>1. s.queued \in {"foreground", "background"}
      BY <1>1, <1>8 DEF UI, Modes
    <2>2. LET t == Request(u, s.queued) IN
          /\ ViewInv(t, ctx, st, ak, ex)
          /\ t.rows \subseteq u.rows /\ Known(t) \subseteq Known(u)
      BY <1>6, <2>1, RequestKeeps DEF ViewInv
    <2> QED BY <1>2, <1>3, <1>5, <1>8, <2>2
  <1> QED BY <1>7, <1>8
-----------------------------------------------------------------------------
(***************************************************************************)
(* Answers.                                                                *)
(***************************************************************************)
\* An answer that still counts is about the tenant that is selected.
Counts(s) == s.task.valid /\ s.task.ctx = ctx /\ s.task.seen # NoAnswer

\* Rows are taken over from such an answer, with the token that came with it or
\* none, and tombstones go only if it is complete: no deleted object comes back.
LEMMA TakingRows ==
    ASSUME NEW s, NEW st, NEW ak, NEW ex, ViewInv(s, ctx, st, ak, ex), Counts(s),
           NEW t \in UI, t.ctx = s.ctx, t.task = s.task, t.removing = s.removing,
           t.detail = s.detail, t.walking = s.walking, t.queued = s.queued,
           t.rows = s.task.seen.rows, t.token \subseteq s.task.seen.snap,
           t.cursor \subseteq s.cursor,
           \/ t.tomb = s.tomb
           \/ t.tomb = s.tomb \cap s.task.seen.rows /\ Completed(s) /\ t.cursor = {}
    PROVE  /\ TaskInv(t, ctx) /\ WaitInv(t) /\ DeletionInv(t, st, ak, ex) /\ HiddenInv(t, ctx, st, ak, ex)
           /\ Known(t) \subseteq Known(s)
  <1>1. TaskInv(s, ctx) /\ WaitInv(s) /\ DeletionInv(s, st, ak, ex) /\ HiddenInv(s, ctx, st, ak, ex)
    BY DEF ViewInv, CoreInv
  <1>2. /\ Found(s) = s.task.seen.rows \cup s.task.seen.snap /\ Found(t) = Found(s)
        /\ Asked(t) = Asked(s)
    BY DEF Counts, Asked, Found
  <1>3. Reach(t) \subseteq Reach(s) /\ t.rows \subseteq Reach(s) /\ Known(t) \subseteq Known(s)
    BY <1>2 DEF Reach, Known
  <1>4. t.tomb \subseteq s.tomb
    OBVIOUS
  <1>5. TaskInv(t, ctx) /\ WaitInv(t)
    BY <1>1 DEF TaskInv, WaitInv, Counts
  <1>6. DeletionInv(t, st, ak, ex)
    BY <1>1, <1>4 DEF DeletionInv, Completed
  <1>7. HiddenInv(t, ctx, st, ak, ex)
    <2> SUFFICES ASSUME NEW p \in ak \ ex, p \notin t.tomb
                 PROVE  /\ p \notin t.rows
                        /\ t.ctx.tenant = ctx.tenant => p \notin st \cup Reach(t)
      BY DEF HiddenInv
    <2>1. p.ctx = s.ctx.tenant /\ \A o \in s.task.seen.rows : o.ctx = ctx.tenant
      BY <1>1 DEF DeletionInv, TaskInv, Counts
    <2>2. CASE s.ctx.tenant # ctx.tenant
      BY <2>1, <2>2
    <2>3. CASE s.ctx.tenant = ctx.tenant /\ p \in s.tomb
      <3>1. p \notin s.task.seen.rows /\ Completed(s) /\ t.cursor = {}
        BY <2>3
      <3>2. p \notin st
        BY <1>1, <2>1, <2>3, <3>1 DEF DeletionInv, Counts
      <3>3. s.task.seen.snap = {} /\ Asked(s) = {}
        BY <1>1, <3>1 DEF TaskInv, Completed, Asked
      <3>4. p \notin Reach(t)
        BY <1>2, <3>1, <3>3 DEF Reach
      <3> QED BY <3>1, <3>2, <3>4
    <2>4. CASE s.ctx.tenant = ctx.tenant /\ p \notin s.tomb
      BY <1>1, <1>3, <2>4 DEF HiddenInv
    <2> QED BY <2>2, <2>3, <2>4
  <1> QED BY <1>3, <1>5, <1>6, <1>7

Taken(s, answer, from) ==
    [s EXCEPT !.rows = answer.rows, !.info = answer.info, !.token = answer.snap,
              !.error = FALSE, !.owed = FALSE, !.loaded = TRUE, !.from = from]

LEMMA CommitFields ==
    ASSUME NEW s \in UI, NEW answer \in Answers, answer.info # "unread", NEW from \in Origins,
           NEW t, t = Taken(s, answer, from)
    PROVE  /\ t \in UI
           /\ t.ctx = s.ctx /\ t.query = s.query /\ t.mode = s.mode /\ t.page = s.page
           /\ t.pending = s.pending /\ t.tomb = s.tomb /\ t.removing = s.removing
           /\ t.settled = s.settled /\ t.walking = s.walking /\ t.queued = s.queued
           /\ t.task = s.task /\ t.cursor = s.cursor /\ t.detail = s.detail /\ ~t.owed
           /\ t.rows = answer.rows /\ t.info = answer.info /\ t.token = answer.snap /\ t.from = from
  <1>1. answer.rows \in SUBSET Objects /\ answer.info \in {"none", "more", "last"}
        /\ answer.snap \in SUBSET Objects
    BY DEF Answers
  <1>2. t \in UI
    BY <1>1 DEF UI, Taken
  <1>3. /\ t.ctx = s.ctx /\ t.query = s.query /\ t.mode = s.mode /\ t.page = s.page
        /\ t.pending = s.pending /\ t.tomb = s.tomb /\ t.removing = s.removing
        /\ t.settled = s.settled /\ t.walking = s.walking /\ t.queued = s.queued
        /\ t.task = s.task /\ t.cursor = s.cursor /\ t.detail = s.detail
    BY DEF UI, Taken
  <1>4. t.rows = answer.rows /\ t.info = answer.info /\ t.token = answer.snap /\ t.from = from /\ ~t.owed
    BY DEF UI, Taken
  <1> QED BY <1>2, <1>3, <1>4

\* The whole list becomes the client's.
LEMMA CommitAllKeeps ==
    ASSUME NEW s, NEW st, NEW ak, NEW ex, ViewInv(s, ctx, st, ak, ex), Counts(s),
           Active(s), Completed(s)
    PROVE  LET t == CommitAll(s, s.task.seen) IN
           /\ ViewInv(t, ctx, st, ak, ex) /\ t.rows = s.task.seen.rows /\ Known(t) \subseteq Known(s)
  <1> DEFINE answer == s.task.seen
             u == Commit(s, answer, 1, TRUE)
             v == [u EXCEPT !.mode = "client", !.page = 1, !.cursor = {}, !.info = "none", !.token = {}]
             t == [v EXCEPT !.tomb = v.tomb \cap answer.rows]
  <1>1. s \in UI /\ answer \in Answers /\ answer.info # "unread"
    BY DEF ViewInv, CoreInv, UI, Tasks, TaskInv, Counts
  <1>2. CommitAll(s, answer) = t
    BY DEF CommitAll, Reconcile
  <1>3. /\ u \in UI
        /\ u.ctx = s.ctx /\ u.query = s.query
        /\ u.pending = s.pending /\ u.tomb = s.tomb /\ u.removing = s.removing
        /\ u.settled = s.settled /\ u.walking = s.walking /\ u.queued = s.queued
        /\ u.task = s.task /\ u.detail = s.detail /\ u.rows = answer.rows
        /\ u.from.complete /\ ~u.owed
    <2> DEFINE from == [page |-> 1, complete |-> TRUE]
    <2>1. from \in Origins /\ from.complete
      BY DEF Origins
    <2>2. u = Taken(s, answer, from)
      BY DEF Commit, Taken
    <2> HIDE DEF from, u, answer
    <2> QED BY <1>1, <2>1, <2>2, CommitFields
  <1> HIDE DEF u, answer
  <1>4. /\ v \in UI
        /\ v.ctx = u.ctx /\ v.query = u.query /\ v.mode = "client" /\ v.page = 1
        /\ v.pending = u.pending /\ v.tomb = u.tomb /\ v.removing = u.removing
        /\ v.settled = u.settled /\ v.walking = u.walking /\ v.queued = u.queued
        /\ v.task = u.task /\ v.rows = u.rows /\ v.info = "none" /\ v.from = u.from
        /\ v.cursor = {} /\ v.token = {} /\ v.detail = u.detail /\ v.owed = u.owed
    BY <1>3 DEF UI
  <1> HIDE DEF v
  <1>5. /\ t \in UI
        /\ t.ctx = v.ctx /\ t.query = v.query /\ t.mode = v.mode /\ t.page = v.page
        /\ t.pending = v.pending /\ t.tomb = v.tomb \cap answer.rows /\ t.removing = v.removing
        /\ t.settled = v.settled /\ t.walking = v.walking /\ t.queued = v.queued
        /\ t.task = v.task /\ t.rows = v.rows /\ t.info = v.info /\ t.from = v.from
        /\ t.cursor = v.cursor /\ t.token = v.token /\ t.detail = v.detail /\ t.owed = v.owed
    BY <1>4 DEF UI
  <1> HIDE DEF t
  <1>6. RowsInv(t) /\ SettledInv(t)
    BY <1>3, <1>4, <1>5 DEF ViewInv, CoreInv, Active, RowsInv, SettledInv
  <1>7. /\ t.ctx = s.ctx /\ t.task = s.task /\ t.removing = s.removing
        /\ t.walking = s.walking /\ t.queued = s.queued /\ t.rows = s.task.seen.rows
        /\ t.tomb = s.tomb \cap s.task.seen.rows /\ t.detail = s.detail
        /\ t.cursor = {} /\ t.token = {}
    BY <1>3, <1>4, <1>5 DEF answer
  <1>8. /\ TaskInv(t, ctx) /\ WaitInv(t) /\ DeletionInv(t, st, ak, ex) /\ HiddenInv(t, ctx, st, ak, ex)
        /\ Known(t) \subseteq Known(s)
    BY <1>5, <1>7, TakingRows
  <1> QED BY <1>2, <1>5, <1>6, <1>7, <1>8 DEF ViewInv, CoreInv, answer

\* A page of the list is taken over.
LEMMA CommitPageKeeps ==
    ASSUME NEW s, NEW st, NEW ak, NEW ex, ViewInv(s, ctx, st, ak, ex), Counts(s),
           ~Active(s), s.task.request = Req(s)
    PROVE  LET t == CommitPage(s, s.task.seen, s.task.request[3]) IN
           /\ ViewInv(t, ctx, st, ak, ex) /\ t.rows = s.task.seen.rows /\ Known(t) \subseteq Known(s)
  <1> DEFINE answer == s.task.seen
             page == s.page
             complete == page = 1 /\ answer.info = "last"
             u == Commit(s, answer, page, complete)
             pending == s.pending \cap answer.rows
             v == [u EXCEPT !.tomb = u.tomb \cap answer.rows]
             x == [v EXCEPT !.pending = pending, !.settled = pending = {}]
             y == [u EXCEPT !.settled = u.settled /\ page # 1]
  <1>1. /\ s \in UI /\ answer \in Answers /\ answer.info # "unread"
        /\ page \in Nat /\ complete \in BOOLEAN /\ s.mode = "server" /\ ~s.query
        /\ RowsInv(s)
    BY DEF ViewInv, CoreInv, UI, Tasks, TaskInv, Counts, Active
  <1>2. s.task.request[3] = page
    BY DEF Req
  <1>3. CommitPage(s, answer, page) = IF complete THEN x ELSE y
    BY DEF CommitPage, Reconcile
  <1>4. complete = (s.task.request[3] = 1 /\ s.task.seen.info = "last")
    BY <1>2
  <1>5. /\ u \in UI
        /\ u.ctx = s.ctx /\ u.query = s.query /\ u.mode = s.mode /\ u.page = s.page
        /\ u.pending = s.pending /\ u.tomb = s.tomb /\ u.removing = s.removing
        /\ u.settled = s.settled /\ u.walking = s.walking /\ u.queued = s.queued
        /\ u.task = s.task /\ ~u.owed /\ u.rows = answer.rows /\ u.info = answer.info
        /\ u.cursor = s.cursor /\ u.detail = s.detail /\ u.token = answer.snap
        /\ u.from.page = page /\ u.from.complete = complete
    <2> DEFINE from == [page |-> page, complete |-> complete]
    <2>1. u = Taken(s, answer, from)
      BY DEF Commit, Taken
    <2> HIDE DEF complete, u, answer, page
    <2>2. from \in Origins /\ from.page = page /\ from.complete = complete
      BY <1>1 DEF Origins
    <2> HIDE DEF from
    <2> QED BY <1>1, <2>1, <2>2, CommitFields
  <1> HIDE DEF u
  <1>6. CASE complete
    <2>1. /\ v \in UI
          /\ v.ctx = u.ctx /\ v.query = u.query /\ v.mode = u.mode /\ v.page = u.page
          /\ v.tomb = u.tomb \cap answer.rows /\ v.removing = u.removing
          /\ v.walking = u.walking /\ v.queued = u.queued /\ v.owed = u.owed
          /\ v.task = u.task /\ v.rows = u.rows /\ v.info = u.info /\ v.from = u.from
          /\ v.cursor = u.cursor /\ v.token = u.token /\ v.detail = u.detail
      BY <1>5 DEF UI
    <2> HIDE DEF v
    <2>2. pending \in SUBSET Objects /\ (pending = {}) \in BOOLEAN
      BY <1>1 DEF UI
    <2> HIDE DEF pending
    <2>3. /\ x \in UI
          /\ x.ctx = v.ctx /\ x.query = v.query /\ x.mode = v.mode /\ x.page = v.page
          /\ x.pending = pending /\ x.tomb = v.tomb /\ x.removing = v.removing
          /\ x.settled = (pending = {}) /\ x.walking = v.walking /\ x.queued = v.queued
          /\ x.task = v.task /\ x.rows = v.rows /\ x.info = v.info /\ x.from = v.from /\ x.owed = v.owed
          /\ x.cursor = v.cursor /\ x.token = v.token /\ x.detail = v.detail
      BY <2>1, <2>2 DEF UI
    <2> HIDE DEF x
    <2>4. x.cursor = {}
      BY <1>1, <1>5, <1>6, <2>1, <2>3 DEF RowsInv
    <2> HIDE DEF answer, complete
    <2>5. RowsInv(x) /\ SettledInv(x)
      <3>3. x.mode = s.mode /\ x.page = s.page /\ x.from = u.from /\ x.owed = u.owed
        BY <1>5, <2>1, <2>3
      <3>1. x.mode = "server" /\ x.page = page /\ x.from.page = page /\ x.from.complete /\ ~x.owed
        BY <1>1, <1>5, <1>6, <3>3
      <3>2. RowsInv(x)
        BY <2>4, <3>1 DEF RowsInv
      <3> QED BY <3>1, <3>2 DEF SettledInv
    <2>6. /\ x.ctx = s.ctx /\ x.task = s.task /\ x.removing = s.removing
          /\ x.walking = s.walking /\ x.queued = s.queued /\ x.rows = s.task.seen.rows
          /\ x.tomb = s.tomb \cap s.task.seen.rows /\ x.detail = s.detail
          /\ x.token = s.task.seen.snap /\ Completed(s)
      <3>1. Completed(s)
        BY <1>4, <1>6 DEF Completed, Counts
      <3>2. /\ x.ctx = s.ctx /\ x.task = s.task /\ x.removing = s.removing
            /\ x.walking = s.walking /\ x.queued = s.queued /\ x.detail = s.detail
        BY <1>5, <2>1, <2>3
      <3>3. /\ x.rows = s.task.seen.rows /\ x.token = s.task.seen.snap
            /\ x.tomb = s.tomb \cap s.task.seen.rows
        BY <1>5, <2>1, <2>3 DEF answer
      <3> QED BY <3>1, <3>2, <3>3
    <2>7. /\ TaskInv(x, ctx) /\ WaitInv(x) /\ DeletionInv(x, st, ak, ex) /\ HiddenInv(x, ctx, st, ak, ex)
          /\ Known(x) \subseteq Known(s)
      BY <2>3, <2>4, <2>6, TakingRows
    <2> QED BY <1>2, <1>3, <1>6, <2>3, <2>5, <2>6, <2>7 DEF ViewInv, CoreInv, answer
  <1>7. CASE ~complete
    <2>1. (u.settled /\ page # 1) \in BOOLEAN
      OBVIOUS
    <2>2. /\ y \in UI
          /\ y.ctx = u.ctx /\ y.query = u.query /\ y.mode = u.mode /\ y.page = u.page
          /\ y.pending = u.pending /\ y.tomb = u.tomb /\ y.removing = u.removing
          /\ y.settled = (u.settled /\ page # 1) /\ y.walking = u.walking /\ y.queued = u.queued
          /\ y.task = u.task /\ y.rows = u.rows /\ y.info = u.info /\ y.from = u.from /\ y.owed = u.owed
          /\ y.cursor = u.cursor /\ y.token = u.token /\ y.detail = u.detail
      BY <1>5, <2>1 DEF UI
    <2> HIDE DEF y
    <2>3. RowsInv(y) /\ SettledInv(y)
      BY <1>1, <1>5, <1>7, <2>2 DEF ViewInv, CoreInv, RowsInv, SettledInv
    <2>4. /\ y.ctx = s.ctx /\ y.task = s.task /\ y.removing = s.removing
          /\ y.walking = s.walking /\ y.queued = s.queued /\ y.rows = s.task.seen.rows
          /\ y.tomb = s.tomb /\ y.detail = s.detail /\ y.cursor = s.cursor
          /\ y.token = s.task.seen.snap
      BY <1>5, <2>2
    <2>5. /\ TaskInv(y, ctx) /\ WaitInv(y) /\ DeletionInv(y, st, ak, ex) /\ HiddenInv(y, ctx, st, ak, ex)
          /\ Known(y) \subseteq Known(s)
      BY <2>2, <2>4, TakingRows
    <2> QED BY <1>2, <1>3, <1>7, <2>2, <2>3, <2>4, <2>5 DEF ViewInv, CoreInv
  <1> QED BY <1>6, <1>7

Reading(s, stage, walking) ==
    [s EXCEPT !.task = [s.task EXCEPT !.stage = stage, !.seen = NoAnswer], !.walking = walking]

\* A running task goes on to its next read, which has found nothing yet.
LEMMA NextRead ==
    ASSUME NEW s, NEW st, NEW ak, NEW ex, ViewInv(s, ctx, st, ak, ex),
           s.task.stage # "none", NEW stage \in {"page", "walk"}, NEW walking \in BOOLEAN,
           stage = "page" => s.task.stage = "support",
           NEW t, t = Reading(s, stage, walking)
    PROVE  /\ ViewInv(t, ctx, st, ak, ex)
           /\ t.rows = s.rows /\ Known(t) \subseteq Known(s)
  <1> DEFINE task == [s.task EXCEPT !.stage = stage, !.seen = NoAnswer]
  <1>1. s \in UI /\ s.task \in Tasks
    BY DEF ViewInv, CoreInv, UI
  <1>2. /\ task \in Tasks /\ task.stage = stage /\ task.request = s.task.request
        /\ task.ctx = s.task.ctx /\ task.valid = s.task.valid /\ task.seen = NoAnswer
    BY <1>1, NoAnswerType DEF Tasks
  <1>3. t = [s EXCEPT !.task = task, !.walking = walking]
    BY DEF Reading
  <1>11. task \in Tasks
    BY <1>2
  <1> HIDE DEF task
  <1>12. [s EXCEPT !.task = task, !.walking = walking] \in UI
    BY <1>1, <1>11 DEF UI
  <1>4. t \in UI
    BY <1>3, <1>12
  <1>5. /\ Stays(s, t)
        /\ t.settled = s.settled /\ t.queued = s.queued
        /\ t.task = task /\ t.rows = s.rows /\ t.info = s.info /\ t.token = s.token /\ t.owed = s.owed
    BY <1>1, <1>3 DEF UI, Stays
  <1>6. /\ NoAnswer.rows = {} /\ NoAnswer.info = "unread" /\ NoAnswer.snap = {}
        /\ Reach(t) \subseteq Reach(s) /\ Known(t) \subseteq Known(s)
    BY <1>2, <1>5 DEF NoAnswer, Reach, Asked, Found, Known, Stays
  <1>7. RowsInv(t) /\ SettledInv(t)
    BY <1>5 DEF ViewInv, CoreInv, RowsInv, SettledInv, Stays
  <1>8. TaskInv(t, ctx) /\ WaitInv(t)
    BY <1>2, <1>5, <1>6 DEF ViewInv, CoreInv, WaitInv, TaskInv, Stays
  <1>9. DeletionInv(t, st, ak, ex)
    BY <1>2, <1>5, <1>6 DEF ViewInv, CoreInv, DeletionInv, Completed, Stays
  <1>10. HiddenInv(t, ctx, st, ak, ex)
    BY <1>5, <1>6 DEF ViewInv, CoreInv, HiddenInv, Stays
  <1> QED BY <1>4, <1>5, <1>6, <1>7, <1>8, <1>9, <1>10 DEF ViewInv, CoreInv

LEMMA StartWalkKeeps ==
    ASSUME NEW s, NEW st, NEW ak, NEW ex, ViewInv(s, ctx, st, ak, ex), s.task.stage # "none"
    PROVE  LET t == StartWalk(s) IN
           /\ ViewInv(t, ctx, st, ak, ex) /\ t.rows = s.rows /\ Known(t) \subseteq Known(s)
  <1>1. s \in UI
    BY DEF ViewInv, CoreInv
  <1> DEFINE t == StartWalk(s)
  <1>2. t = [s EXCEPT !.task = [s.task EXCEPT !.stage = "walk", !.seen = NoAnswer], !.walking = TRUE]
    BY <1>1 DEF StartWalk, UI
  <1> DEFINE walking == TRUE
  <1>3. t = Reading(s, "walk", walking) /\ walking \in BOOLEAN
    BY <1>2 DEF Reading
  <1> HIDE DEF t, walking
  <1>4. ViewInv(t, ctx, st, ak, ex) /\ t.rows = s.rows /\ Known(t) \subseteq Known(s)
    BY <1>3, NextRead
  <1> QED BY <1>4 DEF t

\* What each part of the refresh task keeps: the invariant, and that new rows
\* are of the tenant that is selected.
Keeps(s, t, st, ak, ex) ==
    /\ ViewInv(t, ctx, st, ak, ex)
    /\ \A o \in t.rows \ s.rows : o.ctx = ctx.tenant
    /\ Known(t) \subseteq Known(s)

LEMMA EndOf ==
    ASSUME NEW s, NEW t, NEW st, NEW ak, NEW ex, ctx \in Versions, polls \in BOOLEAN,
           Keeps(s, t, st, ak, ex)
    PROVE  Keeps(s, End(t), st, ak, ex)
  <1> DEFINE e == End(t)
  <1>1. ViewInv(e, ctx, st, ak, ex) /\ e.rows \subseteq t.rows /\ Known(e) \subseteq Known(t)
    BY EndKeeps DEF Keeps
  <1> HIDE DEF e
  <1>2. Keeps(s, e, st, ak, ex)
    BY <1>1 DEF Keeps
  <1> QED BY <1>2 DEF e

\* An answer that counts brings only objects of the tenant that is selected.
LEMMA NewRows ==
    ASSUME NEW s, NEW st, NEW ak, NEW ex, ViewInv(s, ctx, st, ak, ex), Counts(s),
           NEW t, ViewInv(t, ctx, st, ak, ex), t.rows = s.task.seen.rows, Known(t) \subseteq Known(s)
    PROVE  Keeps(s, t, st, ak, ex)
  BY DEF Keeps, ViewInv, CoreInv, TaskInv, Counts

LEMMA AfterSupportKeeps ==
    ASSUME NEW s, NEW st, NEW ak, NEW ex, ctx \in Versions, polls \in BOOLEAN,
           ViewInv(s, ctx, st, ak, ex), s.task.stage = "support"
    PROVE  Keeps(s, AfterSupport(s), st, ak, ex)
  <1>1. Keeps(s, s, st, ak, ex)
    BY DEF Keeps
  <1>2. CASE AfterSupport(s) = End(s)
    BY <1>1, <1>2, EndOf
  <1>3. CASE AfterSupport(s) = StartWalk(s)
    <2> DEFINE t == StartWalk(s)
    <2>1. ViewInv(t, ctx, st, ak, ex) /\ t.rows = s.rows /\ Known(t) \subseteq Known(s)
      BY StartWalkKeeps
    <2> HIDE DEF t
    <2>2. Keeps(s, t, st, ak, ex)
      BY <2>1 DEF Keeps
    <2> QED BY <1>3, <2>2 DEF t
  <1>4. CASE AfterSupport(s) = [s EXCEPT !.task.stage = "page"]
    <2> DEFINE t == [s EXCEPT !.task.stage = "page"]
    <2>1. s \in UI /\ s.task \in Tasks /\ s.task.seen = NoAnswer /\ s.walking \in BOOLEAN
      BY DEF ViewInv, CoreInv, UI, TaskInv
    <2>2. [s.task EXCEPT !.stage = "page"] = [s.task EXCEPT !.stage = "page", !.seen = NoAnswer]
      BY <2>1 DEF Tasks
    <2>3. t = [s EXCEPT !.task = [s.task EXCEPT !.stage = "page"]]
      BY <2>1 DEF UI
    <2>4. t = [s EXCEPT !.task = [s.task EXCEPT !.stage = "page", !.seen = NoAnswer],
                        !.walking = s.walking]
      BY <2>1, <2>2, <2>3 DEF UI
    <2>5. t = Reading(s, "page", s.walking)
      BY <2>4 DEF Reading
    <2> HIDE DEF t
    <2>6. ViewInv(t, ctx, st, ak, ex) /\ t.rows = s.rows /\ Known(t) \subseteq Known(s)
      BY <2>1, <2>5, NextRead
    <2>7. Keeps(s, t, st, ak, ex)
      BY <2>6 DEF Keeps
    <2> QED BY <1>4, <2>7 DEF t
  <1> QED BY <1>2, <1>3, <1>4 DEF AfterSupport

LEMMA AfterAnswerKeeps ==
    ASSUME NEW s, NEW st, NEW ak, NEW ex, ctx \in Versions, polls \in BOOLEAN,
           ViewInv(s, ctx, st, ak, ex), s.task.seen # NoAnswer
    PROVE  Keeps(s, IF s.task.stage = "walk" THEN AfterWalk(s) ELSE AfterPage(s), st, ak, ex)
  <1>1. Keeps(s, s, st, ak, ex) /\ s.task.seen.info # "unread" /\ s.task.stage \in {"page", "walk"}
    BY DEF Keeps, ViewInv, CoreInv, TaskInv
  <1>2. Keeps(s, End(s), st, ak, ex)
    BY <1>1, EndOf
  <1>3. ASSUME ~Outdated(s), Active(s), Completed(s)
        PROVE  Keeps(s, End(CommitAll(s, s.task.seen)), st, ak, ex)
    <2> DEFINE t == CommitAll(s, s.task.seen)
    <2>1. Counts(s)
      BY <1>1, <1>3 DEF Counts, Outdated
    <2>2. ViewInv(t, ctx, st, ak, ex) /\ t.rows = s.task.seen.rows /\ Known(t) \subseteq Known(s)
      BY <1>3, <2>1, CommitAllKeeps
    <2> HIDE DEF t
    <2>3. Keeps(s, t, st, ak, ex)
      BY <2>1, <2>2, NewRows
    <2> QED BY <2>3, EndOf DEF t
  <1>4. ASSUME ~Outdated(s), ~Active(s), IsCurrent(s)
        PROVE  Keeps(s, End(CommitPage(s, s.task.seen, s.task.request[3])), st, ak, ex)
    <2> DEFINE t == CommitPage(s, s.task.seen, s.task.request[3])
    <2>1. Counts(s) /\ s.task.request = Req(s)
      BY <1>1, <1>4 DEF Counts, Outdated, IsCurrent
    <2>2. ViewInv(t, ctx, st, ak, ex) /\ t.rows = s.task.seen.rows /\ Known(t) \subseteq Known(s)
      BY <1>4, <2>1, CommitPageKeeps
    <2> HIDE DEF t
    <2>3. Keeps(s, t, st, ak, ex)
      BY <2>1, <2>2, NewRows
    <2> QED BY <2>3, EndOf DEF t
  <1>5. Keeps(s, StartWalk(s), st, ak, ex)
    <2> DEFINE t == StartWalk(s)
    <2>1. ViewInv(t, ctx, st, ak, ex) /\ t.rows = s.rows /\ Known(t) \subseteq Known(s)
      BY <1>1, StartWalkKeeps
    <2> HIDE DEF t
    <2>2. Keeps(s, t, st, ak, ex)
      BY <2>1 DEF Keeps
    <2> QED BY <2>2 DEF t
  <1>6. CASE s.task.stage = "walk"
    BY <1>2, <1>3, <1>6 DEF AfterWalk, Completed, Outdated
  <1>7. CASE s.task.stage # "walk"
    BY <1>2, <1>3, <1>4, <1>5, <1>7 DEF AfterPage, Completed, Outdated
  <1> QED BY <1>6, <1>7

LEMMA AfterErrorKeeps ==
    ASSUME NEW s, NEW st, NEW ak, NEW ex, ctx \in Versions, polls \in BOOLEAN,
           ViewInv(s, ctx, st, ak, ex)
    PROVE  Keeps(s, AfterError(s), st, ak, ex)
  <1> DEFINE t == [s EXCEPT !.error = TRUE, !.owed = FALSE]
  <1>1. s \in UI
    BY DEF ViewInv, CoreInv
  <1>2. /\ t \in UI /\ Stays(s, t)
        /\ t.settled = s.settled /\ t.walking = s.walking /\ t.queued = s.queued
        /\ t.task = s.task /\ t.rows = s.rows /\ t.info = s.info /\ t.token = s.token /\ ~t.owed
    BY <1>1 DEF UI, Stays
  <1> HIDE DEF t
  <1>3. Reach(t) = Reach(s) /\ Known(t) = Known(s)
    BY <1>2 DEF Reach, Asked, Found, Known, Stays
  <1>4. RowsInv(t) /\ SettledInv(t)
    BY <1>2 DEF ViewInv, CoreInv, RowsInv, SettledInv, Stays
  <1>5. TaskInv(t, ctx) /\ WaitInv(t) /\ DeletionInv(t, st, ak, ex) /\ HiddenInv(t, ctx, st, ak, ex)
    BY <1>2, <1>3 DEF ViewInv, CoreInv, WaitInv, TaskInv, DeletionInv, Completed, HiddenInv, Stays
  <1>6. Keeps(s, t, st, ak, ex) /\ Keeps(s, s, st, ak, ex)
    BY <1>2, <1>3, <1>4, <1>5 DEF Keeps, ViewInv, CoreInv
  <1>7. AfterError(s) = End(s) \/ AfterError(s) = End(t)
    BY DEF AfterError, t
  <1> QED BY <1>6, <1>7, EndOf
-----------------------------------------------------------------------------
(***************************************************************************)
(* The actions.                                                            *)
(***************************************************************************)
Apart == \A o \in ui'.rows \ ui.rows : o.ctx = ctx.tenant

LEMMA ViewStep ==
    ASSUME Inv, NEW t, View(t), UNCHANGED <<acked, excused>>,
           Keeps(ui, t, store, acked, excused)
    PROVE  Inv' /\ Apart
  <1>1. ui' = t /\ UNCHANGED <<polls, ctx, store, born>>
    BY DEF View
  <1>2. ViewInv(t, ctx, store, acked, excused) /\ Known(t) \subseteq Known(ui) /\ Apart
    BY <1>1 DEF Keeps, Apart
  <1>3. ViewInv(ui', ctx', store', acked', excused')
    BY <1>1, <1>2
  <1>4. StoreInv'
    BY <1>1, <1>2 DEF Inv, StoreInv
  <1> QED BY <1>2, <1>3, <1>4 DEF Inv

\* A step that takes no rows over, and may settle what becomes of a deletion.
LEMMA PlainStep ==
    ASSUME Inv, NEW t, ui' = t, UNCHANGED <<polls, ctx, store, born>>,
           ViewInv(t, ctx, store, acked', excused'), acked' \subseteq born,
           t.rows \subseteq ui.rows, Known(t) \subseteq born
    PROVE  Inv' /\ Apart
  <1>1. ViewInv(ui', ctx', store', acked', excused')
    OBVIOUS
  <1>2. StoreInv'
    BY DEF Inv, StoreInv
  <1>3. Apart
    BY DEF Apart
  <1> QED BY <1>1, <1>2, <1>3 DEF Inv

LEMMA ReadSteps ==
    ASSUME Inv, SupportAnswers \/ AnswerArrives \/ ReadFails \/ TokenExpires
    PROVE  Inv' /\ Apart
  <1>1. ctx \in Versions /\ polls \in BOOLEAN /\ ViewInv(ui, ctx, store, acked, excused)
    BY DEF Inv, StoreInv
  <1>2. UNCHANGED <<acked, excused>>
    BY DEF SupportAnswers, AnswerArrives, ReadFails, TokenExpires
  <1>3. CASE SupportAnswers
    BY <1>1, <1>2, <1>3, AfterSupportKeeps, ViewStep DEF SupportAnswers
  <1>4. CASE AnswerArrives
    BY <1>1, <1>2, <1>4, AfterAnswerKeeps, ViewStep DEF AnswerArrives
  <1>5. CASE ReadFails
    BY <1>1, <1>2, <1>5, AfterErrorKeeps, ViewStep DEF ReadFails
  <1>6. CASE TokenExpires
    BY <1>1, <1>2, <1>6, AfterErrorKeeps, ViewStep DEF TokenExpires
  <1> QED BY <1>3, <1>4, <1>5, <1>6

LEMMA TickStep ==
    ASSUME Inv, Tick
    PROVE  Inv' /\ Apart
  <1> DEFINE settled == ui.settled /\ ui.pending = {}
             u == [ui EXCEPT !.timer = FALSE, !.settled = settled]
             t == Request(u, "background")
  <1>1. ctx \in Versions /\ ui \in UI /\ CoreInv(ui, ctx, store, acked, excused)
    BY DEF Inv, StoreInv, ViewInv, CoreInv
  <1>2. View(t) /\ UNCHANGED <<acked, excused>>
    BY DEF Tick
  <1>3. Same(ui, u)
    <2>1. settled \in BOOLEAN
      OBVIOUS
    <2> HIDE DEF settled
    <2>2. u \in UI
      BY <1>1, <2>1 DEF UI
    <2>3. Stays(ui, u)
      BY <1>1 DEF UI, Stays
    <2>4. /\ u.settled = settled /\ u.walking = ui.walking /\ u.queued = ui.queued
          /\ u.task = ui.task /\ u.rows = ui.rows /\ u.info = ui.info /\ u.token = ui.token
          /\ u.owed = ui.owed
      BY <1>1 DEF UI
    <2> QED BY <2>2, <2>3, <2>4 DEF Same, settled
  <1> HIDE DEF u
  <1>4. CoreInv(u, ctx, store, acked, excused) /\ u.rows = ui.rows /\ Known(u) = Known(ui)
    BY <1>1, <1>3, SameKeeps
  <1>5. ViewInv(t, ctx, store, acked, excused) /\ t.rows \subseteq u.rows /\ Known(t) \subseteq Known(u)
    BY <1>1, <1>4, RequestKeeps
  <1> HIDE DEF t
  <1>6. Keeps(ui, t, store, acked, excused)
    BY <1>4, <1>5 DEF Keeps
  <1> QED BY <1>2, <1>6, ViewStep

\* load, called with a view that has kept the invariant and shows no new rows.
LEMMA LoadStep ==
    ASSUME Inv, NEW u, NEW force, View(Load(u, force)), UNCHANGED <<acked, excused>>,
           CoreInv(u, ctx, store, acked, excused), force \/ WaitInv(u),
           u.rows \subseteq ui.rows, Known(u) \subseteq Known(ui)
    PROVE  Inv' /\ Apart
  <1> DEFINE t == Load(u, force)
  <1>1. ctx \in Versions
    BY DEF Inv, StoreInv
  <1>2. ViewInv(t, ctx, store, acked, excused) /\ t.rows \subseteq u.rows /\ Known(t) \subseteq Known(u)
    BY <1>1, LoadKeeps
  <1> HIDE DEF t
  <1>3. Keeps(ui, t, store, acked, excused)
    BY <1>2 DEF Keeps
  <1> QED BY <1>3, ViewStep DEF t

LEMMA RefreshStep ==
    ASSUME Inv, Refresh
    PROVE  Inv' /\ Apart
  <1>1. CoreInv(ui, ctx, store, acked, excused) /\ WaitInv(ui) /\ UNCHANGED <<acked, excused>>
    BY DEF Inv, ViewInv, Refresh
  <1>2. PICK force : View(Load(ui, force))
    BY DEF Refresh
  <1> QED BY <1>1, <1>2, LoadStep

\* A first page that is the last one is the whole list.
LEMMA OnlyPage ==
    ASSUME NEW list, IsFiniteSet(list), list \subseteq Objects, ~(Cardinality(list) > 1), NEW o \in list
    PROVE  Rank(list, o) = 1
  <1> DEFINE below == {p \in list : p.name <= o.name}
  <1>1. o.name \in Nat
    BY ObjectsAssumption DEF Objects
  <1>2. below \subseteq list /\ o \in below
    BY <1>1
  <1> HIDE DEF below
  <1>3. IsFiniteSet(below) /\ Cardinality(below) <= Cardinality(list)
    BY <1>2, FS_Subset
  <1>4. Cardinality(below) \in Nat /\ Cardinality(list) \in Nat
    BY <1>3, FS_CardinalityType
  <1>5. Cardinality(below) # 0
    BY <1>2, <1>3, FS_EmptySet
  <1>6. Cardinality(below) = 1
    BY <1>3, <1>4, <1>5
  <1> QED BY <1>6 DEF Rank, below

\* What the server answers is among the objects there are, or what the token
\* pins, and all there is if it is complete.
LEMMA ServedAnswer ==
    ASSUME Inv, NEW task \in Tasks, task.stage \in {"page", "walk"}, task.request \in Questions,
           NEW c, c = task.ctx.tenant,
           NEW answer, answer = (IF task.stage = "walk" THEN AllOf(c)
                                 ELSE PageOf(Snapshot(task), task.request[3]))
    PROVE  /\ answer \in Answers /\ answer.info # "unread" /\ answer # NoAnswer
           /\ answer.info # "more" => answer.snap = {}
           /\ task.stage = "walk" => answer.info = "none"
           /\ \A o \in answer.rows : o.ctx = c
           /\ answer.rows \cup answer.snap \subseteq
                 store \cup (IF task.stage = "page" THEN task.request[4] ELSE {})
           /\ task.stage = "walk" \/ (task.request[3] = 1 /\ answer.info = "last") =>
                 Objs(c) \subseteq answer.rows
  <1> DEFINE list == Snapshot(task)
  <1>1. /\ store \subseteq Objects /\ IsFiniteSet(store)
        /\ Objs(c) \subseteq store /\ \A o \in Objs(c) : o.ctx = c
    BY DEF Inv, StoreInv, Objs
  <1>2. IsFiniteSet(Objs(c))
    BY <1>1, FS_Subset
  <1>3. CASE task.stage = "walk"
    BY <1>1, <1>3 DEF AllOf, Answers, NoAnswer
  <1>4. CASE task.stage # "walk"
    <2>1. /\ list \subseteq Objects /\ list \subseteq store \cup task.request[4]
          /\ \A o \in list : o.ctx = c
          /\ task.request[3] = 1 => list = Objs(c)
      BY <1>1 DEF Snapshot, Questions
    <2> HIDE DEF list
    <2>2. answer = PageOf(list, task.request[3])
      BY <1>4 DEF list
    <2>3. /\ answer.rows = {o \in list : Rank(list, o) = task.request[3]}
          /\ answer.info = IF Cardinality(list) > task.request[3] THEN "more" ELSE "last"
          /\ answer.snap = IF Cardinality(list) > task.request[3] THEN list ELSE {}
      BY <2>2 DEF PageOf
    <2>4. answer \in Answers
      BY <2>1, <2>2 DEF PageOf, Answers
    <2>5. task.request[3] = 1 /\ answer.info = "last" => Objs(c) \subseteq answer.rows
      BY <1>2, <2>1, <2>3, OnlyPage
    <2>6. /\ answer.info # "unread" /\ answer # NoAnswer
          /\ answer.info # "more" => answer.snap = {}
          /\ \A o \in answer.rows : o.ctx = c
          /\ answer.rows \cup answer.snap \subseteq list
      BY <2>1, <2>3 DEF NoAnswer
    <2> QED BY <1>4, <2>1, <2>4, <2>5, <2>6
  <1> QED BY <1>3, <1>4

LEMMA ServeStep ==
    ASSUME Inv, Serve
    PROVE  Inv' /\ Apart
  <1> DEFINE task == ui.task
             c == task.ctx.tenant
             answer == IF task.stage = "walk" THEN AllOf(c) ELSE PageOf(Snapshot(task), task.request[3])
             new == [task EXCEPT !.seen = answer]
             t == [ui EXCEPT !.task = new]
  <1>1. /\ ui \in UI /\ task \in Tasks /\ task.stage \in {"page", "walk"} /\ task.seen = NoAnswer
        /\ task.request \in Questions /\ NoAnswer.info = "unread"
    BY DEF Inv, ViewInv, CoreInv, TaskInv, UI, Serve, NoAnswer
  <1>2. ui' = t /\ UNCHANGED <<polls, ctx, store, born, acked, excused>>
    BY <1>1 DEF Serve, View, UI
  <1>3. /\ answer \in Answers /\ answer.info # "unread" /\ answer # NoAnswer
        /\ answer.info # "more" => answer.snap = {}
        /\ task.stage = "walk" => answer.info = "none"
        /\ \A o \in answer.rows : o.ctx = c
        /\ answer.rows \cup answer.snap \subseteq
              store \cup (IF task.stage = "page" THEN task.request[4] ELSE {})
        /\ task.stage = "walk" \/ (task.request[3] = 1 /\ answer.info = "last") =>
              Objs(c) \subseteq answer.rows
    BY <1>1, ServedAnswer
  <1> HIDE DEF answer
  <1>4. /\ new \in Tasks /\ new.stage = task.stage /\ new.request = task.request
        /\ new.ctx = task.ctx /\ new.valid = task.valid /\ new.seen = answer
    BY <1>1, <1>3 DEF Tasks
  <1> HIDE DEF new
  <1>5. t \in UI
    BY <1>1, <1>4 DEF UI
  <1>6. /\ Stays(ui, t)
        /\ t.settled = ui.settled /\ t.queued = ui.queued /\ t.walking = ui.walking
        /\ t.task = new /\ t.rows = ui.rows /\ t.info = ui.info /\ t.token = ui.token
        /\ t.owed = ui.owed
    BY <1>1 DEF UI, Stays
  <1> HIDE DEF t
  <1>7. Reach(t) \subseteq Reach(ui) \cup store
    BY <1>1, <1>3, <1>4, <1>6 DEF Reach, Asked, Found, Stays
  <1>8. Known(t) \subseteq Known(ui) \cup store
    BY <1>6, <1>7 DEF Known, Stays
  <1>9. RowsInv(t) /\ SettledInv(t) /\ WaitInv(t)
    BY <1>4, <1>6 DEF Inv, ViewInv, CoreInv, RowsInv, SettledInv, WaitInv, Stays
  <1>10. TaskInv(t, ctx)
    BY <1>1, <1>3, <1>4, <1>6 DEF Inv, ViewInv, CoreInv, TaskInv, Stays
  <1>11. DeletionInv(t, store, acked, excused)
    <2>1. t.ctx = ui.ctx /\ t.tomb = ui.tomb
      BY <1>6 DEF Stays
    <2>2. ASSUME Completed(t), NEW p \in acked \cap store, p.ctx = c
          PROVE  p \in answer.rows
      BY <1>3, <1>4, <1>6, <2>2 DEF Completed, Objs
    <2> QED BY <1>4, <1>6, <2>1, <2>2 DEF Inv, ViewInv, CoreInv, DeletionInv
  <1>12. HiddenInv(t, ctx, store, acked, excused)
    BY <1>6, <1>7 DEF Inv, ViewInv, CoreInv, HiddenInv, Stays
  <1>13. ViewInv(t, ctx, store, acked', excused')
    BY <1>2, <1>5, <1>9, <1>10, <1>11, <1>12 DEF ViewInv, CoreInv
  <1>14. Known(t) \subseteq born /\ acked' \subseteq born
    BY <1>2, <1>8 DEF Inv, StoreInv
  <1> QED BY <1>2, <1>6, <1>13, <1>14, PlainStep

\* The view shows less than before, is not settled, has perhaps given up its
\* running read, and has given up only tombstones that are excused or that
\* nothing lists.
Narrows(s, t, st, ex) ==
    /\ t \in UI /\ t.ctx = s.ctx /\ t.removing = s.removing /\ t.detail = s.detail
    /\ ~t.settled /\ t.rows \subseteq s.rows /\ t.tomb \subseteq s.tomb
    /\ t.cursor \cup t.token \subseteq s.cursor \cup s.token
    /\ t.task.stage = s.task.stage /\ t.task.request = s.task.request
    /\ t.task.ctx = s.task.ctx /\ t.task.seen = s.task.seen
    /\ t.task.valid => s.task.valid
    /\ \A p \in s.tomb \ t.tomb : p \in ex \/ p \notin t.rows \cup st \cup Reach(s)

LEMMA NarrowKeeps ==
    ASSUME NEW s, NEW st, NEW ak, NEW ex, CoreInv(s, ctx, st, ak, ex),
           NEW x, ex \subseteq x, NEW t, Narrows(s, t, st, x), RowsInv(t)
    PROVE  CoreInv(t, ctx, st, ak, x) /\ Known(t) \subseteq Known(s)
  <1>1. Reach(t) \subseteq Reach(s) /\ Known(t) \subseteq Known(s)
    BY DEF Narrows, Reach, Asked, Found, Known
  <1>2. SettledInv(t)
    BY DEF SettledInv, Narrows
  <1>3. TaskInv(t, ctx)
    BY DEF CoreInv, TaskInv, Narrows
  <1>4. DeletionInv(t, st, ak, x)
    BY DEF CoreInv, DeletionInv, Completed, Narrows
  <1>5. HiddenInv(t, ctx, st, ak, x)
    BY <1>1 DEF CoreInv, HiddenInv, Narrows
  <1> QED BY <1>1, <1>2, <1>3, <1>4, <1>5 DEF CoreInv, Narrows

LEMMA InvalidateFields ==
    ASSUME NEW s \in UI, NEW t, t = Invalidate(s)
    PROVE  /\ t \in UI /\ Stays(s, t)
           /\ ~t.settled /\ t.walking = s.walking /\ t.queued = s.queued
           /\ t.rows = s.rows /\ t.info = s.info /\ t.token = s.token /\ t.owed
           /\ t.task \in Tasks /\ t.task.stage = s.task.stage /\ t.task.request = s.task.request
           /\ t.task.ctx = s.task.ctx /\ ~t.task.valid /\ t.task.seen = s.task.seen
  <1> DEFINE task == [s.task EXCEPT !.valid = FALSE]
  <1>1. t = [s EXCEPT !.task = task, !.settled = FALSE, !.force = TRUE, !.owed = TRUE]
    BY DEF Invalidate, UI
  <1>2. s.task \in Tasks
    BY DEF UI
  <1>3. /\ task \in Tasks /\ task.stage = s.task.stage /\ task.request = s.task.request
        /\ task.ctx = s.task.ctx /\ ~task.valid /\ task.seen = s.task.seen
    BY <1>2 DEF Tasks
  <1>7. task \in Tasks
    BY <1>3
  <1> HIDE DEF task
  <1>8. [s EXCEPT !.task = task, !.settled = FALSE, !.force = TRUE, !.owed = TRUE] \in UI
    BY <1>7 DEF UI
  <1>4. t \in UI
    BY <1>1, <1>8
  <1>5. t.task = task /\ Stays(s, t)
    BY <1>1 DEF UI, Stays
  <1>6. /\ ~t.settled /\ t.walking = s.walking /\ t.queued = s.queued
        /\ t.rows = s.rows /\ t.info = s.info /\ t.token = s.token /\ t.owed
    BY <1>1 DEF UI
  <1> QED BY <1>3, <1>4, <1>5, <1>6

LEMMA BrowseStep ==
    ASSUME Inv, NEW page \in Nat, Browse(page)
    PROVE  Inv' /\ Apart
  <1> DEFINE s == Invalidate(ui)
             cursor == IF page = 1 THEN {} ELSE IF page > s.page THEN s.token ELSE s.cursor
             u == [s EXCEPT !.page = page, !.query = FALSE, !.info = "none",
                            !.cursor = cursor, !.token = {},
                            !.walking = FALSE, !.mode = "server", !.rows = {}]
             force == FALSE
  <1>1. CoreInv(ui, ctx, store, acked, excused) /\ ui \in UI /\ WaitInv(ui)
    BY DEF Inv, ViewInv, CoreInv
  <1>2. View(Load(u, force)) /\ UNCHANGED <<acked, excused>>
    <2>1. s.page = ui.page /\ s.token = ui.token
      BY <1>1 DEF Invalidate, UI
    <2> QED BY <2>1 DEF Browse
  <1>3. /\ s \in UI /\ Stays(ui, s)
        /\ ~s.settled /\ s.walking = ui.walking /\ s.queued = ui.queued
        /\ s.rows = ui.rows /\ s.info = ui.info /\ s.token = ui.token /\ s.owed
        /\ s.task \in Tasks /\ s.task.stage = ui.task.stage /\ s.task.request = ui.task.request
        /\ s.task.ctx = ui.task.ctx /\ ~s.task.valid /\ s.task.seen = ui.task.seen
    BY <1>1, InvalidateFields
  <1> HIDE DEF s, force
  <1>11. cursor \in SUBSET Objects /\ cursor \subseteq s.cursor \cup s.token /\ (page = 1 => cursor = {})
    BY <1>3 DEF UI
  <1> HIDE DEF cursor
  <1>4. u \in UI
    BY <1>3, <1>11 DEF UI
  <1>5. /\ u.ctx = s.ctx /\ u.removing = s.removing /\ u.detail = s.detail
        /\ u.cursor = cursor /\ u.token = {} /\ u.page = page
        /\ u.settled = s.settled /\ u.tomb = s.tomb /\ u.task = s.task
        /\ u.queued = s.queued /\ ~u.walking
    BY <1>3 DEF UI
  <1>6. u.rows = {} /\ u.info = "none" /\ u.mode = "server"
    BY <1>3 DEF UI
  <1> HIDE DEF u
  <1>7. RowsInv(u)
    BY <1>5, <1>6, <1>11 DEF RowsInv
  <1>8. Narrows(ui, u, store, excused)
    BY <1>3, <1>4, <1>5, <1>6, <1>11 DEF Narrows, Stays
  <1>9. WaitInv(u)
    BY <1>1, <1>3, <1>5 DEF WaitInv
  <1>10. CoreInv(u, ctx, store, acked, excused) /\ Known(u) \subseteq Known(ui)
    BY <1>1, <1>7, <1>8, NarrowKeeps
  <1> QED BY <1>2, <1>6, <1>9, <1>10, LoadStep

LEMMA SearchStep ==
    ASSUME Inv, Search
    PROVE  Inv' /\ Apart
  <1> DEFINE reuse == ui.mode = "server" /\ ui.page = 1 /\ ui.info = "last"
             s == [ui EXCEPT !.settled = FALSE, !.page = 1, !.query = TRUE, !.cursor = {},
                             !.info = "none", !.token = {}]
             own == [s EXCEPT !.mode = "client"]
             kept == [own EXCEPT !.tomb = own.tomb \cap s.rows]
             waits == [s EXCEPT !.rows = {}, !.owed = TRUE]
             asks == [s EXCEPT !.rows = {}, !.walking = TRUE, !.owed = TRUE]
             force == TRUE
  <1>1. CoreInv(ui, ctx, store, acked, excused) /\ ui \in UI /\ WaitInv(ui) /\ RowsInv(ui)
    BY DEF Inv, ViewInv, CoreInv
  <1> DEFINE v == IF ui.mode = "client" THEN s
                  ELSE IF reuse THEN kept
                  ELSE IF Busy(ui) THEN waits
                  ELSE Load(asks, force)
             x == excused \cup Forgotten(ui, v)
  <1>11. AfterSearch(ui) = v
    BY DEF AfterSearch, Reconcile
  <1> HIDE DEF v
  <1>2. View(v) /\ excused' = x /\ acked' = acked
    BY <1>11 DEF Search
  <1> HIDE DEF x
  <1>3. s \in UI
    BY <1>1 DEF UI
  <1>4. /\ s.ctx = ui.ctx /\ s.removing = ui.removing /\ s.detail = ui.detail
        /\ ~s.settled /\ s.tomb = ui.tomb /\ s.task = ui.task /\ s.rows = ui.rows
        /\ s.queued = ui.queued /\ s.walking = ui.walking /\ s.from = ui.from
    BY <1>1 DEF UI
  <1>5. /\ s.page = 1 /\ s.query /\ s.info = "none" /\ s.mode = ui.mode
        /\ s.cursor = {} /\ s.token = {}
    BY <1>1 DEF UI
  <1> HIDE DEF s, force
  \* A view that only narrows, without a read.
  <1>6. ASSUME NEW t, ui' = t, UNCHANGED <<polls, ctx, store, born>>, excused \subseteq excused',
               Narrows(ui, t, store, excused'), RowsInv(t), WaitInv(t), t.rows \subseteq ui.rows
        PROVE  Inv' /\ Apart
    <2>1. CoreInv(t, ctx, store, acked, excused') /\ Known(t) \subseteq Known(ui)
      BY <1>1, <1>6, NarrowKeeps
    <2>2. ViewInv(t, ctx, store, acked', excused')
      BY <1>2, <1>6, <2>1 DEF ViewInv
    <2>3. Known(t) \subseteq born /\ acked' \subseteq born
      BY <1>2, <2>1 DEF Inv, StoreInv
    <2> QED BY <1>6, <2>2, <2>3, PlainStep
  <1>7. CASE ui.mode = "client"
    <2>1. ui' = s /\ UNCHANGED <<polls, ctx, store, born>> /\ excused \subseteq excused'
      BY <1>2, <1>7 DEF View, v, x
    <2>2. RowsInv(s) /\ WaitInv(s) /\ Narrows(ui, s, store, excused')
      BY <1>1, <1>3, <1>4, <1>5, <1>7, <2>1 DEF RowsInv, WaitInv, Narrows
    <2> QED BY <1>4, <1>6, <2>1, <2>2
  <1>8. CASE ui.mode # "client" /\ reuse
    <2>1. ui' = kept /\ UNCHANGED <<polls, ctx, store, born>>
          /\ excused' = excused \cup Forgotten(ui, kept)
      BY <1>2, <1>8 DEF View, v, x
    <2>2. /\ own \in UI
          /\ own.ctx = s.ctx /\ own.removing = s.removing /\ own.detail = s.detail
          /\ own.cursor = s.cursor /\ own.token = s.token
          /\ own.settled = s.settled /\ own.tomb = s.tomb /\ own.task = s.task /\ own.rows = s.rows
          /\ own.queued = s.queued /\ own.walking = s.walking /\ own.from = s.from
          /\ own.page = s.page /\ own.query = s.query /\ own.info = s.info /\ own.mode = "client"
      BY <1>3 DEF UI
    <2> HIDE DEF own
    <2>3. /\ kept \in UI
          /\ kept.ctx = own.ctx /\ kept.removing = own.removing /\ kept.detail = own.detail
          /\ kept.cursor = own.cursor /\ kept.token = own.token
          /\ kept.settled = own.settled /\ kept.tomb = own.tomb \cap s.rows
          /\ kept.task = own.task /\ kept.rows = own.rows
          /\ kept.queued = own.queued /\ kept.walking = own.walking /\ kept.from = own.from
          /\ kept.page = own.page /\ kept.query = own.query /\ kept.info = own.info
          /\ kept.mode = own.mode
      BY <2>2 DEF UI
    <2> HIDE DEF kept
    <2>4. RowsInv(kept) /\ WaitInv(kept)
      BY <1>1, <1>4, <1>5, <1>8, <2>2, <2>3 DEF RowsInv, WaitInv
    <2>5. \A p \in ui.tomb \ kept.tomb : p \in excused' \/ p \notin kept.rows \cup store \cup Reach(ui)
      BY <1>4, <2>1, <2>2, <2>3 DEF Forgotten, Listed, Reach
    <2>6. Narrows(ui, kept, store, excused')
      BY <1>4, <1>5, <2>2, <2>3, <2>5 DEF Narrows
    <2> QED BY <1>4, <1>6, <2>1, <2>2, <2>3, <2>4, <2>6
  <1>9. CASE ui.mode # "client" /\ ~reuse /\ Busy(ui)
    <2>1. ui' = waits /\ UNCHANGED <<polls, ctx, store, born>> /\ excused \subseteq excused'
      BY <1>2, <1>9 DEF View, v, x
    <2>2. /\ waits \in UI
          /\ waits.ctx = s.ctx /\ waits.removing = s.removing /\ waits.detail = s.detail
          /\ waits.cursor = s.cursor /\ waits.token = s.token
          /\ waits.settled = s.settled /\ waits.tomb = s.tomb /\ waits.task = s.task
          /\ waits.queued = s.queued /\ waits.walking = s.walking
          /\ waits.rows = {} /\ waits.query = s.query /\ waits.info = s.info
      BY <1>3 DEF UI
    <2> HIDE DEF waits
    <2>3. RowsInv(waits) /\ WaitInv(waits) /\ Narrows(ui, waits, store, excused')
      BY <1>1, <1>4, <1>5, <2>1, <2>2 DEF RowsInv, WaitInv, Narrows
    <2> QED BY <1>6, <2>1, <2>2, <2>3
  <1>10. CASE ui.mode # "client" /\ ~reuse /\ ~Busy(ui)
    <2>1. ui' = Load(asks, force) /\ UNCHANGED <<polls, ctx, store, born>>
          /\ force /\ excused' = excused \cup Forgotten(ui, Load(asks, force))
      BY <1>2, <1>10 DEF View, v, x, force
    <2>2. /\ asks \in UI
          /\ asks.ctx = s.ctx /\ asks.removing = s.removing /\ asks.detail = s.detail
          /\ asks.cursor = s.cursor /\ asks.token = s.token
          /\ asks.settled = s.settled /\ asks.tomb = s.tomb /\ asks.task = s.task
          /\ asks.queued = s.queued
          /\ asks.rows = {} /\ asks.query = s.query /\ asks.info = s.info
      BY <1>3 DEF UI
    <2> HIDE DEF asks
    <2>3. RowsInv(asks) /\ Narrows(ui, asks, store, excused')
      BY <1>4, <1>5, <2>2 DEF RowsInv, Narrows
    <2>4. CoreInv(asks, ctx, store, acked, excused') /\ Known(asks) \subseteq Known(ui)
      BY <1>1, <2>1, <2>3, NarrowKeeps
    <2> DEFINE t == Load(asks, force)
    <2>5. ctx \in Versions
      BY DEF Inv, StoreInv
    <2>6. ViewInv(t, ctx, store, acked, excused') /\ t.rows \subseteq asks.rows /\ Known(t) \subseteq Known(asks)
      BY <2>1, <2>4, <2>5, LoadKeeps
    <2> HIDE DEF t
    <2>7. ui' = t
      BY <2>1 DEF t
    <2>8. t.rows \subseteq ui.rows /\ Known(t) \subseteq born /\ acked' \subseteq born
      BY <1>2, <2>2, <2>4, <2>6 DEF Inv, StoreInv
    <2> QED BY <1>2, <2>1, <2>6, <2>7, <2>8, PlainStep
  <1> QED BY <1>7, <1>8, <1>9, <1>10

\* The deletions under way, what a detail view shows and the tombstones change.
Targets(R) == {r.obj : r \in R}

Around(s, R, D, T) == [s EXCEPT !.removing = R, !.detail = D, !.tomb = T]

\* They may become R, D and T, if these are of the view's tenant.
Fitting(s, R, D, T) ==
    /\ R \in SUBSET Removals /\ \A r \in R : r.obj.ctx = s.ctx.tenant
    /\ D \in SUBSET Objects /\ \A o \in D : o.ctx = s.ctx.tenant
    /\ T \in SUBSET Objects

\* The rest of the view is what it was.
Within(s, t) ==
    /\ t \in UI
    /\ t.ctx = s.ctx /\ t.query = s.query /\ t.mode = s.mode /\ t.page = s.page
    /\ t.cursor = s.cursor /\ t.token = s.token /\ t.from = s.from
    /\ t.settled = s.settled /\ t.walking = s.walking /\ t.queued = s.queued
    /\ t.task = s.task /\ t.rows = s.rows /\ t.info = s.info /\ t.owed = s.owed

LEMMA AroundFields ==
    ASSUME NEW s, s \in UI, NEW R, NEW D, NEW T, Fitting(s, R, D, T)
    PROVE  LET t == Around(s, R, D, T) IN
           /\ Within(s, t) /\ t.removing = R /\ t.detail = D /\ t.tomb = T
           /\ Reach(t) = Reach(s) /\ Known(t) \subseteq Known(s) \cup D \cup Targets(R)
  <1> DEFINE t == Around(s, R, D, T)
  <1>1. t \in UI
    BY DEF UI, Around, Fitting
  <1>2. /\ t.removing = R /\ t.detail = D /\ t.tomb = T
        /\ t.ctx = s.ctx /\ t.query = s.query /\ t.mode = s.mode /\ t.page = s.page
        /\ t.cursor = s.cursor /\ t.token = s.token /\ t.from = s.from
    BY DEF UI, Around
  <1>3. /\ t.settled = s.settled /\ t.walking = s.walking /\ t.queued = s.queued
        /\ t.task = s.task /\ t.rows = s.rows /\ t.info = s.info /\ t.owed = s.owed
    BY DEF UI, Around
  <1> HIDE DEF t
  <1>4. Reach(t) = Reach(s)
    BY <1>2, <1>3 DEF Reach, Asked, Found
  <1>5. Known(t) \subseteq Known(s) \cup D \cup Targets(R)
    BY <1>2, <1>3, <1>4 DEF Known, Targets
  <1>6. Within(s, t)
    BY <1>1, <1>2, <1>3 DEF Within
  <1> QED BY <1>2, <1>4, <1>5, <1>6 DEF t

\* An acknowledged deletion that is not excused has its tombstone, or had lost it
\* before, or is listed nowhere; and a complete list that was read has found it.
Settles(s, T, st, ak, ex, nak, nex) ==
    /\ \A p \in nak : p.ctx = s.ctx.tenant
    /\ T \subseteq nak
    /\ \A p \in nak \ nex :
          \/ p \in T
          \/ p \in ak \ ex /\ p \notin s.tomb
          \/ p \notin s.rows \cup st \cup Reach(s)
    /\ Completed(s) =>
          \A p \in (nak \ nex) \cap st :
             p \in ak \ ex \/ p \in s.task.seen.rows

LEMMA AroundKeeps ==
    ASSUME NEW s, NEW st, NEW ak, NEW ex, CoreInv(s, ctx, st, ak, ex),
           NEW R, NEW D, NEW T, Fitting(s, R, D, T),
           NEW nak, NEW nex, Settles(s, T, st, ak, ex, nak, nex)
    PROVE  LET t == Around(s, R, D, T) IN
           /\ CoreInv(t, ctx, st, nak, nex) /\ (WaitInv(s) => WaitInv(t))
           /\ t.rows = s.rows /\ Known(t) \subseteq Known(s) \cup D \cup Targets(R)
  <1> DEFINE t == Around(s, R, D, T)
  <1>1. s \in UI
    BY DEF CoreInv
  <1>2. /\ Within(s, t) /\ t.removing = R /\ t.detail = D /\ t.tomb = T
        /\ Reach(t) = Reach(s) /\ Known(t) \subseteq Known(s) \cup D \cup Targets(R)
    BY <1>1, AroundFields
  <1> HIDE DEF t
  <1>3. RowsInv(t) /\ SettledInv(t) /\ (WaitInv(s) => WaitInv(t)) /\ t.rows = s.rows
    BY <1>2 DEF CoreInv, RowsInv, SettledInv, WaitInv, Within
  <1>4. TaskInv(t, ctx)
    BY <1>2 DEF CoreInv, TaskInv, Within, Fitting
  <1>5. DeletionInv(t, st, nak, nex)
    BY <1>2 DEF CoreInv, DeletionInv, Completed, Settles, Within
  <1>6. HiddenInv(t, ctx, st, nak, nex)
    BY <1>2 DEF CoreInv, HiddenInv, Settles, Within
  <1>7. CoreInv(t, ctx, st, nak, nex)
    BY <1>2, <1>3, <1>4, <1>5, <1>6 DEF CoreInv, Within
  <1> QED BY <1>2, <1>3, <1>7 DEF t

\* What is known of the deletions that are under way.
LEMMA Removing ==
    ASSUME Inv
    PROVE  /\ ui.removing \in SUBSET Removals /\ ui.detail \in SUBSET Objects
           /\ ui.tomb \in SUBSET Objects /\ ui \in UI
           /\ \A r \in ui.removing : r.obj.ctx = ui.ctx.tenant /\ r.obj \in born
           /\ \A o \in ui.detail : o.ctx = ui.ctx.tenant /\ o \in born
           /\ CoreInv(ui, ctx, store, acked, excused) /\ WaitInv(ui) /\ ctx \in Versions
           /\ Settles(ui, ui.tomb, store, acked, excused, acked, excused)
  <1>1. /\ CoreInv(ui, ctx, store, acked, excused) /\ WaitInv(ui) /\ ui \in UI
        /\ TaskInv(ui, ctx) /\ DeletionInv(ui, store, acked, excused)
    BY DEF Inv, ViewInv, CoreInv
  <1>2. /\ ui.removing \in SUBSET Removals /\ ui.detail \in SUBSET Objects
        /\ ui.tomb \in SUBSET Objects
    BY <1>1 DEF UI
  <1>3. Known(ui) \subseteq born /\ ctx \in Versions
    BY DEF Inv, StoreInv
  <1>4. /\ \A r \in ui.removing : r.obj.ctx = ui.ctx.tenant /\ r.obj \in born
        /\ \A o \in ui.detail : o.ctx = ui.ctx.tenant /\ o \in born
    BY <1>1, <1>3 DEF TaskInv, Known
  <1>5. Settles(ui, ui.tomb, store, acked, excused, acked, excused)
    BY <1>1 DEF DeletionInv, Settles
  <1> QED BY <1>1, <1>2, <1>3, <1>4, <1>5

\* A view around which nothing changes but the deletions under way, and a detail
\* view, is as good as before.
LEMMA AroundView ==
    ASSUME Inv, NEW R, NEW D, Fitting(ui, R, D, ui.tomb), D \cup Targets(R) \subseteq born
    PROVE  LET t == Around(ui, R, D, ui.tomb) IN
           ViewInv(t, ctx, store, acked, excused) /\ t.rows = ui.rows /\ Known(t) \subseteq born
  <1> DEFINE t == Around(ui, R, D, ui.tomb)
  <1>1. /\ CoreInv(t, ctx, store, acked, excused) /\ (WaitInv(ui) => WaitInv(t))
        /\ t.rows = ui.rows /\ Known(t) \subseteq Known(ui) \cup D \cup Targets(R)
    BY Removing, AroundKeeps
  <1> HIDE DEF t
  <1>2. Known(ui) \subseteq born
    BY DEF Inv, StoreInv
  <1>3. ViewInv(t, ctx, store, acked, excused) /\ t.rows = ui.rows /\ Known(t) \subseteq born
    BY <1>1, <1>2, Removing DEF ViewInv
  <1> QED BY <1>3 DEF t

LEMMA AroundStep ==
    ASSUME Inv, NEW R, NEW D, Fitting(ui, R, D, ui.tomb), D \cup Targets(R) \subseteq born,
           View(Around(ui, R, D, ui.tomb)), UNCHANGED <<acked, excused>>
    PROVE  Inv' /\ Apart
  <1> DEFINE t == Around(ui, R, D, ui.tomb)
  <1>1. ViewInv(t, ctx, store, acked, excused) /\ t.rows = ui.rows /\ Known(t) \subseteq born
    BY AroundView
  <1>2. ui' = t /\ UNCHANGED <<polls, ctx, store, born>>
    BY DEF View
  <1> HIDE DEF t
  <1>3. ViewInv(t, ctx, store, acked', excused') /\ acked' \subseteq born
    BY <1>1 DEF Inv, StoreInv
  <1> QED BY <1>1, <1>2, <1>3, PlainStep

LEMMA RemovalSteps ==
    ASSUME Inv, NEW o \in Objects, Remove(o) \/ Visit(o) \/ RemoveVisited(o)
    PROVE  Inv' /\ Apart
  <1>1. UNCHANGED <<acked, excused>>
    BY DEF Remove, Visit, RemoveVisited
  <1>2. ASSUME NEW by \in {"list", "detail"}, o \in born, o.ctx = ui.ctx.tenant,
               View([ui EXCEPT !.removing = ui.removing \cup {[obj |-> o, done |-> FALSE, by |-> by]}])
        PROVE  Inv' /\ Apart
    <2> DEFINE new == [obj |-> o, done |-> FALSE, by |-> by]
               R == ui.removing \cup {new}
    <2>1. new \in Removals /\ new.obj = o
      BY DEF Removals
    <2> HIDE DEF new
    <2>2. Fitting(ui, R, ui.detail, ui.tomb) /\ ui.detail \cup Targets(R) \subseteq born
      BY <1>2, <2>1, Removing DEF Fitting, Targets
    <2>3. [ui EXCEPT !.removing = R] = Around(ui, R, ui.detail, ui.tomb)
      BY Removing DEF Around, UI
    <2>4. View(Around(ui, R, ui.detail, ui.tomb))
      BY <1>2, <2>3 DEF new
    <2> HIDE DEF R
    <2> QED BY <1>1, <2>2, <2>4, AroundStep
  <1>3. CASE Remove(o)
    <2>1. o \in ui.rows /\ ui.ctx = ctx
      BY <1>3 DEF Remove, TableShown, ListShown, Mounted, Shown
    <2>2. o \in born /\ o.ctx = ui.ctx.tenant
      BY <2>1 DEF Inv, StoreInv, ViewInv, CoreInv, TaskInv, Known
    <2> QED BY <1>2, <1>3, <2>2 DEF Remove
  <1>4. CASE RemoveVisited(o)
    <2>1. o \in born /\ o.ctx = ui.ctx.tenant
      BY <1>4, Removing DEF RemoveVisited
    <2> QED BY <1>2, <1>4, <2>1 DEF RemoveVisited
  <1>5. CASE Visit(o)
    <2> DEFINE D == {o}
    <2>1. D \in SUBSET Objects /\ \A p \in D : p.ctx = ui.ctx.tenant /\ p \in born
      BY <1>5 DEF Visit, ListShown, Mounted, Objs, Inv, StoreInv
    <2>4. Fitting(ui, ui.removing, D, ui.tomb) /\ D \cup Targets(ui.removing) \subseteq born
      BY <2>1, Removing DEF Fitting, Targets
    <2>2. [ui EXCEPT !.detail = D] = Around(ui, ui.removing, D, ui.tomb)
      BY Removing DEF Around, UI
    <2>3. View(Around(ui, ui.removing, D, ui.tomb))
      BY <1>5, <2>2 DEF Visit
    <2> HIDE DEF D
    <2> QED BY <1>1, <2>3, <2>4, AroundStep
  <1> QED BY <1>3, <1>4, <1>5

\* The deletion is over, and leaves no tombstone.
LEMMA RemovalEnds ==
    ASSUME Inv, NEW r \in ui.removing, RemoveFails(r) \/ LateAnswers(r)
    PROVE  Inv' /\ Apart
  <1> DEFINE R == ui.removing \ {r}
  <1>1. View([ui EXCEPT !.removing = R]) /\ UNCHANGED <<acked, excused>>
    BY DEF RemoveFails, LateAnswers
  <1>2. Fitting(ui, R, ui.detail, ui.tomb) /\ ui.detail \cup Targets(R) \subseteq born
    BY Removing DEF Fitting, Targets
  <1>3. [ui EXCEPT !.removing = R] = Around(ui, R, ui.detail, ui.tomb)
    BY Removing DEF Around, UI
  <1> HIDE DEF R
  <1> QED BY <1>1, <1>2, <1>3, AroundStep

LEMMA ReturnStep ==
    ASSUME Inv, Return
    PROVE  Inv' /\ Apart
  <1> DEFINE left(r) == IF r.by = "detail" THEN [r EXCEPT !.by = "gone"] ELSE r
             R == {left(r) : r \in ui.removing}
             D == {}
             u == Around(ui, R, D, ui.tomb)
             force == TRUE
             t == Load(u, force)
  <1>1. View(Load([ui EXCEPT !.detail = D, !.removing = R], force)) /\ UNCHANGED <<acked, excused>>
    BY DEF Return
  <1>2. [ui EXCEPT !.detail = D, !.removing = R] = u
    BY Removing DEF Around, UI
  <1>3. \A r \in ui.removing : left(r) \in Removals /\ left(r).obj = r.obj
    BY Removing DEF Removals
  <1> HIDE DEF left
  <1>4. R \in SUBSET Removals /\ \A q \in R : q.obj.ctx = ui.ctx.tenant /\ q.obj \in born
    BY <1>3, Removing
  <1>5. Fitting(ui, R, D, ui.tomb) /\ D \cup Targets(R) \subseteq born
    BY <1>4, Removing DEF Fitting, Targets
  <1> HIDE DEF R, D
  <1>6. /\ ViewInv(u, ctx, store, acked, excused) /\ u.rows = ui.rows
        /\ Known(u) \subseteq born
    BY <1>5, AroundView
  <1>7. ui' = t /\ UNCHANGED <<polls, ctx, store, born>>
    BY <1>1, <1>2 DEF View
  <1>8. CoreInv(u, ctx, store, acked, excused) /\ ctx \in Versions
    BY <1>6, Removing DEF ViewInv
  <1> HIDE DEF u
  <1>9. /\ ViewInv(t, ctx, store, acked, excused)
        /\ t.rows \subseteq u.rows /\ Known(t) \subseteq Known(u)
    BY <1>8, LoadKeeps
  <1> HIDE DEF t
  <1>10. /\ ViewInv(t, ctx, store, acked', excused') /\ acked' \subseteq born
         /\ t.rows \subseteq ui.rows /\ Known(t) \subseteq born
    BY <1>1, <1>6, <1>9 DEF Inv, StoreInv
  <1> QED BY <1>7, <1>10, PlainStep

\* The server's objects change, and no deleted one comes back.
LEMMA StoreKeeps ==
    ASSUME NEW s, NEW st, NEW ak, NEW ex, CoreInv(s, ctx, st, ak, ex), NEW nst, nst \cap ak \subseteq st
    PROVE  CoreInv(s, ctx, nst, ak, ex)
  <1>1. DeletionInv(s, nst, ak, ex)
    BY DEF CoreInv, DeletionInv
  <1>2. HiddenInv(s, ctx, nst, ak, ex)
    BY DEF CoreInv, HiddenInv, DeletionInv
  <1> QED BY <1>1, <1>2 DEF CoreInv

LEMMA VanishStep ==
    ASSUME Inv, NEW o, Vanish(o)
    PROVE  Inv' /\ Apart
  <1>1. store' = store \ {o} /\ UNCHANGED <<polls, ctx, born, ui, acked, excused>>
    BY DEF Vanish
  <1>2. store' \cap acked \subseteq store
    BY <1>1
  <1>3. CoreInv(ui, ctx, store', acked, excused)
    BY <1>2, StoreKeeps, Removing
  <1>4. ViewInv(ui', ctx', store', acked', excused')
    BY <1>1, <1>3, Removing DEF ViewInv
  <1>5. IsFiniteSet(store')
    BY <1>1, FS_Subset DEF Inv, StoreInv
  <1>6. StoreInv'
    BY <1>1, <1>5 DEF Inv, StoreInv
  <1> QED BY <1>1, <1>4, <1>6 DEF Inv, Apart

LEMMA CreateStep ==
    ASSUME Inv, NEW o \in Objects, Create(o)
    PROVE  Inv' /\ Apart
  <1>1. /\ store' = store \cup {o} /\ born' = born \cup {o} /\ o \notin born
        /\ UNCHANGED <<polls, ctx, ui, acked, excused>>
    BY DEF Create
  <1>2. store' \cap acked \subseteq store
    BY <1>1 DEF Inv, StoreInv
  <1>3. CoreInv(ui, ctx, store', acked, excused)
    BY <1>2, StoreKeeps, Removing
  <1>4. ViewInv(ui', ctx', store', acked', excused')
    BY <1>1, <1>3, Removing DEF ViewInv
  <1>5. IsFiniteSet(store')
    BY <1>1, FS_AddElement DEF Inv, StoreInv
  <1>6. StoreInv'
    BY <1>1, <1>5 DEF Inv, StoreInv
  <1> QED BY <1>1, <1>4, <1>6 DEF Inv, Apart

LEMMA RemoveServedStep ==
    ASSUME Inv, NEW r \in ui.removing, RemoveServed(r)
    PROVE  Inv' /\ Apart
  <1> DEFINE done == [r EXCEPT !.done = TRUE]
             R == (ui.removing \ {r}) \cup {done}
             t == Around(ui, R, ui.detail, ui.tomb)
  <1>1. /\ ui' = [ui EXCEPT !.removing = R] /\ store' \subseteq store
        /\ UNCHANGED <<polls, ctx, born, acked, excused>>
    BY DEF RemoveServed
  <1>2. [ui EXCEPT !.removing = R] = t
    BY Removing DEF Around, UI
  <1>3. done \in Removals /\ done.obj = r.obj
    BY Removing DEF Removals
  <1> HIDE DEF done
  <1>4. Fitting(ui, R, ui.detail, ui.tomb) /\ ui.detail \cup Targets(R) \subseteq born
    BY <1>3, Removing DEF Fitting, Targets
  <1> HIDE DEF R
  <1>5. /\ ViewInv(t, ctx, store, acked, excused) /\ t.rows = ui.rows
        /\ Known(t) \subseteq born
    BY <1>4, AroundView
  <1> HIDE DEF t
  <1>6. ui' = t /\ store' \cap acked \subseteq store
    BY <1>1, <1>2
  <1>7. CoreInv(t, ctx, store', acked, excused)
    BY <1>5, <1>6, StoreKeeps DEF ViewInv
  <1>8. ViewInv(ui', ctx', store', acked', excused')
    BY <1>1, <1>5, <1>6, <1>7 DEF ViewInv
  <1>9. IsFiniteSet(store')
    BY <1>1, FS_Subset DEF Inv, StoreInv
  <1>10. StoreInv'
    BY <1>1, <1>5, <1>6, <1>9 DEF Inv, StoreInv
  <1>11. Apart
    BY <1>5, <1>6 DEF Apart
  <1> QED BY <1>8, <1>10, <1>11 DEF Inv

\* What the name's tombstones become when the deletion of o is acknowledged.
Buried(s, o) == {p \in s.tomb : p.name # o.name} \cup {o}

\* A detail view's deletion changes the tombstones, and no read.
LEMMA VisitedAnswersStep ==
    ASSUME Inv, NEW r \in ui.removing, VisitedAnswers(r)
    PROVE  Inv' /\ Apart
  <1> DEFINE o == r.obj
             R == ui.removing \ {r}
             T == Buried(ui, o)
             t == Around(ui, R, ui.detail, T)
             missed == Completed(ui) /\ o \in store \ ui.task.seen.rows
             ex == excused \cup ((ui.tomb \ T) \cap Listed(ui)) \cup {p \in {o} : missed}
             ak == acked \cup {o}
  <1>1. Tombstone([ui EXCEPT !.removing = R], o) = t
    BY Removing DEF Tombstone, Around, Buried, UI
  <1>2. t.tomb = T
    BY Removing DEF Around, UI
  <1>3. /\ View(t) /\ acked' = ak
        /\ excused' = excused \cup Forgotten(ui, t) \cup {p \in {o} : missed}
    BY <1>1 DEF VisitedAnswers
  <1>4. excused' = ex
    BY <1>2, <1>3 DEF Forgotten
  <1>5. o \in Objects /\ o.ctx = ui.ctx.tenant /\ o \in born
    BY Removing DEF Removals
  <1>6. R \in SUBSET Removals /\ \A q \in R : q.obj.ctx = ui.ctx.tenant /\ q.obj \in born
    BY Removing
  <1> HIDE DEF o, R
  <1>7. T \in SUBSET Objects /\ T \subseteq ui.tomb \cup {o} /\ o \in T
    BY <1>5, Removing DEF Buried
  <1> HIDE DEF T, missed
  <1>8. Settles(ui, T, store, acked, excused, ak, ex)
    <2>1. DeletionInv(ui, store, acked, excused)
      BY Removing DEF CoreInv
    <2>2. (\A p \in ak : p.ctx = ui.ctx.tenant) /\ T \subseteq ak
      BY <1>5, <1>7, <2>1 DEF DeletionInv
    <2>3. ASSUME NEW p \in ak \ ex, p \notin T
          PROVE  p \in acked \ excused /\ (p \in ui.tomb => p \notin ui.rows \cup store \cup Reach(ui))
      BY <1>7, <2>3 DEF Listed, Reach
    <2>4. Completed(ui) => \A p \in (ak \ ex) \cap store :
                              p \in acked \ excused \/ p \in ui.task.seen.rows
      BY DEF missed
    <2> HIDE DEF ak, ex
    <2> QED BY <2>2, <2>3, <2>4 DEF Settles
  <1> HIDE DEF ex, ak
  <1>13. Fitting(ui, R, ui.detail, T)
    BY <1>6, <1>7, Removing DEF Fitting
  <1>9. /\ CoreInv(t, ctx, store, ak, ex) /\ (WaitInv(ui) => WaitInv(t)) /\ t.rows = ui.rows
        /\ Known(t) \subseteq Known(ui) \cup ui.detail \cup Targets(R)
    BY <1>8, <1>13, Removing, AroundKeeps
  <1>10. ui' = t /\ UNCHANGED <<polls, ctx, store, born>>
    BY <1>3 DEF View
  <1> HIDE DEF t
  <1>11. ViewInv(t, ctx, store, acked', excused')
    BY <1>3, <1>4, <1>9, Removing DEF ViewInv
  <1>12. Known(t) \subseteq born /\ acked' \subseteq born
    BY <1>3, <1>5, <1>6, <1>9, Removing DEF Inv, StoreInv, Targets, ak
  <1> QED BY <1>9, <1>10, <1>11, <1>12, PlainStep

\* The list's own deletion also takes the rows of that name away, and no read
\* that was under way counts any more.
LEMMA RemoveAnswersStep ==
    ASSUME Inv, NEW r \in ui.removing, RemoveAnswers(r)
    PROVE  Inv' /\ Apart
  <1> DEFINE o == r.obj
             R == ui.removing \ {r}
             d == Around(ui, R, ui.detail, ui.tomb)
             s == Invalidate(d)
             T == Buried(ui, o)
             m == Around(s, s.removing, s.detail, T)
             pending == {p \in m.pending : p.name # o.name} \cup {o}
             rows == {p \in m.rows : p.name # o.name}
             u == [m EXCEPT !.pending = pending, !.rows = rows]
             force == FALSE
             t == Load(u, force)
             ak == acked \cup {o}
             ex == excused \cup ((ui.tomb \ T) \cap Listed(ui))
  <1>1. o \in Objects /\ o.ctx = ui.ctx.tenant /\ o \in born
    BY Removing DEF Removals
  <1>2. R \in SUBSET Removals /\ \A q \in R : q.obj.ctx = ui.ctx.tenant /\ q.obj \in born
    BY Removing
  <1>3. [ui EXCEPT !.removing = R] = d
    BY Removing DEF Around, UI
  <1>4. /\ View(AfterDelete(d, o)) /\ acked' = ak
        /\ excused' = excused \cup Forgotten(ui, Tombstone(d, o))
    BY <1>3 DEF RemoveAnswers
  <1> HIDE DEF o, R
  <1>28. Fitting(ui, R, ui.detail, ui.tomb) /\ ui.detail \cup Targets(R) \subseteq born
    BY <1>2, Removing DEF Fitting, Targets
  <1>5. /\ ViewInv(d, ctx, store, acked, excused) /\ d.rows = ui.rows
        /\ Known(d) \subseteq born
    BY <1>28, AroundView
  <1>6. /\ d \in UI /\ d.removing = R /\ d.detail = ui.detail /\ d.tomb = ui.tomb
        /\ d.ctx = ui.ctx /\ Reach(d) = Reach(ui)
    BY <1>28, Removing, AroundFields DEF Within
  <1> HIDE DEF d
  <1>7. Tombstone(d, o).tomb = T
    BY <1>6 DEF Tombstone, Buried, UI
  <1>8. excused' = ex
    BY <1>4, <1>7 DEF Forgotten
  <1>9. /\ s \in UI /\ Stays(d, s)
        /\ ~s.settled /\ s.walking = d.walking /\ s.queued = d.queued
        /\ s.rows = d.rows /\ s.info = d.info /\ s.token = d.token /\ s.owed
        /\ s.task \in Tasks /\ s.task.stage = d.task.stage /\ s.task.request = d.task.request
        /\ s.task.ctx = d.task.ctx /\ ~s.task.valid /\ s.task.seen = d.task.seen
    BY <1>6, InvalidateFields
  <1>10. /\ s.tomb = ui.tomb /\ s.removing = R /\ s.detail = ui.detail /\ s.ctx = ui.ctx
         /\ s.pending = d.pending
    BY <1>6, <1>9 DEF Stays
  <1>11. Tombstone(s, o) = m
    BY <1>9, <1>10 DEF Tombstone, Around, Buried, UI
  <1> HIDE DEF s
  <1>12. CoreInv(s, ctx, store, acked, excused) /\ WaitInv(s) /\ Known(s) \subseteq Known(d)
    <2>1. Narrows(d, s, store, excused)
      BY <1>9 DEF Narrows, Stays
    <2>2. RowsInv(s) /\ WaitInv(s)
      BY <1>5, <1>9 DEF ViewInv, CoreInv, RowsInv, WaitInv, Stays
    <2>3. CoreInv(s, ctx, store, acked, excused) /\ Known(s) \subseteq Known(d)
      BY <1>5, <2>1, <2>2, NarrowKeeps DEF ViewInv
    <2> QED BY <2>2, <2>3
  <1>13. T \in SUBSET Objects /\ T \subseteq ui.tomb \cup {o} /\ o \in T
    BY <1>1, Removing DEF Buried
  <1> HIDE DEF T
  <1>14. Settles(s, T, store, acked, excused, ak, ex)
    <2>1. DeletionInv(ui, store, acked, excused)
      BY Removing DEF CoreInv
    <2>2. (\A p \in ak : p.ctx = s.ctx.tenant) /\ T \subseteq ak
      BY <1>1, <1>10, <1>13, <2>1 DEF DeletionInv
    <2>3. Reach(s) \subseteq Reach(ui) /\ s.rows = ui.rows /\ ~Completed(s)
      BY <1>5, <1>6, <1>9 DEF Reach, Asked, Found, Completed, Stays
    <2>4. ASSUME NEW p \in ak \ ex, p \notin T
          PROVE  p \in acked \ excused /\ (p \in s.tomb => p \notin s.rows \cup store \cup Reach(s))
      BY <1>10, <1>13, <2>3, <2>4 DEF Listed, Reach
    <2> HIDE DEF ak, ex
    <2> QED BY <2>2, <2>3, <2>4 DEF Settles
  <1> HIDE DEF ak, ex
  <1>15. /\ s.removing \in SUBSET Removals /\ s.detail \in SUBSET Objects
         /\ \A q \in s.removing : q.obj.ctx = s.ctx.tenant /\ q.obj \in born
         /\ \A p \in s.detail : p.ctx = s.ctx.tenant /\ p \in born
    BY <1>2, <1>10, Removing
  <1>29. Fitting(s, s.removing, s.detail, T)
    BY <1>13, <1>15 DEF Fitting
  <1>16. /\ CoreInv(m, ctx, store, ak, ex) /\ (WaitInv(s) => WaitInv(m)) /\ m.rows = s.rows
         /\ Known(m) \subseteq Known(s) \cup s.detail \cup Targets(s.removing)
    BY <1>12, <1>14, <1>29, AroundKeeps
  <1>17. m \in UI /\ ~m.settled
    BY <1>9, <1>29, AroundFields DEF Within
  <1>18. View(t)
    BY <1>4, <1>11 DEF AfterDelete, s, force
  <1> HIDE DEF m
  <1>19. pending \in SUBSET Objects /\ rows \in SUBSET Objects /\ rows \subseteq m.rows
    BY <1>1, <1>17 DEF UI
  <1> HIDE DEF pending, rows
  <1>20. /\ u \in UI
         /\ u.ctx = m.ctx /\ u.query = m.query /\ u.mode = m.mode /\ u.page = m.page
         /\ u.cursor = m.cursor /\ u.token = m.token /\ u.tomb = m.tomb
         /\ u.removing = m.removing /\ u.detail = m.detail /\ u.from = m.from
         /\ u.settled = m.settled /\ u.walking = m.walking /\ u.queued = m.queued
         /\ u.task = m.task /\ u.rows = rows /\ u.info = m.info
    <2>1. u \in UI
      BY <1>17, <1>19 DEF UI
    <2>2. /\ u.ctx = m.ctx /\ u.query = m.query /\ u.mode = m.mode /\ u.page = m.page
          /\ u.cursor = m.cursor /\ u.token = m.token /\ u.tomb = m.tomb
          /\ u.removing = m.removing /\ u.detail = m.detail /\ u.from = m.from
      BY <1>17 DEF UI
    <2>3. /\ u.settled = m.settled /\ u.walking = m.walking /\ u.queued = m.queued
          /\ u.task = m.task /\ u.rows = rows /\ u.info = m.info
      BY <1>17 DEF UI
    <2> QED BY <2>1, <2>2, <2>3
  <1> HIDE DEF u
  <1>21. CoreInv(u, ctx, store, ak, ex) /\ Known(u) \subseteq Known(m)
    <2>1. Narrows(m, u, store, ex)
      BY <1>17, <1>19, <1>20 DEF Narrows
    <2>2. RowsInv(u)
      BY <1>16, <1>19, <1>20 DEF CoreInv, RowsInv
    <2> QED BY <1>16, <2>1, <2>2, NarrowKeeps
  <1>22. WaitInv(u)
    BY <1>12, <1>16, <1>20 DEF WaitInv
  <1> HIDE DEF force
  <1>23. ViewInv(t, ctx, store, ak, ex) /\ t.rows \subseteq u.rows /\ Known(t) \subseteq Known(u)
    BY <1>21, <1>22, Removing, LoadKeeps
  <1>24. ui' = t /\ UNCHANGED <<polls, ctx, store, born>>
    BY <1>18 DEF View
  <1> HIDE DEF t
  <1>25. t.rows \subseteq ui.rows
    BY <1>5, <1>9, <1>16, <1>19, <1>20, <1>23
  <1>26. Known(t) \subseteq born
    BY <1>5, <1>12, <1>15, <1>16, <1>21, <1>23 DEF Targets
  <1>27. ViewInv(t, ctx, store, acked', excused') /\ acked' \subseteq born
    BY <1>1, <1>4, <1>8, <1>23 DEF Inv, StoreInv, ak
  <1> QED BY <1>24, <1>25, <1>26, <1>27, PlainStep

LEMMA SwitchStep ==
    ASSUME Inv, Switch
    PROVE  Inv' /\ Apart
  <1>1. PICK c \in Contexts : ctx' = [tenant |-> c, version |-> ctx.version + 1]
    BY DEF Switch
  <1>2. /\ ctx \in Versions /\ ui.ctx = ctx
        /\ UNCHANGED <<polls, store, born, ui, acked, excused>>
    BY DEF Switch, Mounted, Inv, StoreInv
  <1>3. ctx' \in Versions /\ ctx' # ctx
    BY <1>1, <1>2 DEF Versions
  <1>4. TaskInv(ui, ctx') /\ HiddenInv(ui, ctx', store, acked, excused)
    BY <1>2, <1>3 DEF Inv, ViewInv, CoreInv, TaskInv, HiddenInv
  <1>5. ViewInv(ui, ctx', store, acked, excused)
    BY <1>4 DEF Inv, ViewInv, CoreInv
  <1>6. ViewInv(ui', ctx', store', acked', excused')
    BY <1>2, <1>5
  <1>7. StoreInv'
    BY <1>2, <1>3 DEF Inv, StoreInv
  <1> QED BY <1>2, <1>6, <1>7 DEF Inv, Apart

\* A tenant's tombstones and deletions under way, which outlive a view.
Outlives(tomb, R, st, ak, ex) ==
    /\ tomb \in SUBSET Objects /\ tomb \subseteq ak
    /\ R \in SUBSET Removals /\ \A r \in R : r.obj.ctx = ctx.tenant
    /\ \A p \in ak : p.ctx = ctx.tenant
    /\ \A p \in ak \ ex : p \in tomb \/ p \notin st

\* A view that has just been mounted knows nothing but its tenant's tombstones
\* and deletions under way.
LEMMA FreshKeeps ==
    ASSUME ctx \in Versions, NEW st, NEW ak, NEW ex, NEW tomb, NEW R,
           Outlives(tomb, R, st, ak, ex)
    PROVE  LET t == Fresh(tomb, R) IN
           ViewInv(t, ctx, st, ak, ex) /\ t.rows = {} /\ Known(t) \subseteq Targets(R)
  <1> DEFINE origin == [page |-> 1, complete |-> FALSE]
             blank == [ctx |-> ctx, query |-> FALSE, mode |-> "server", page |-> 1, rows |-> {},
                       cursor |-> {}, info |-> "none", token |-> {}, settled |-> FALSE,
                       loading |-> FALSE, loaded |-> FALSE, error |-> FALSE,
                       walking |-> FALSE, force |-> FALSE, queued |-> "none", timer |-> FALSE,
                       task |-> NoTask, pending |-> {}, tomb |-> tomb, removing |-> R,
                       detail |-> {}, owed |-> TRUE, from |-> origin]
             force == FALSE
             t == Load(blank, force)
  <1>1. Fresh(tomb, R) = t
    BY DEF Fresh
  <1>2. origin \in Origins
    BY DEF Origins
  <1> HIDE DEF origin
  <1>3. blank \in UI
    BY <1>2, NoAnswerType DEF UI, Modes, Outlives
  <1>4. /\ blank.mode = "server" /\ blank.rows = {} /\ blank.info = "none" /\ ~blank.settled
        /\ blank.cursor = {} /\ blank.token = {} /\ blank.detail = {} /\ blank.ctx = ctx
        /\ ~blank.walking /\ blank.queued = "none" /\ blank.task = NoTask
        /\ blank.tomb = tomb /\ blank.removing = R
    OBVIOUS
  <1> HIDE DEF blank
  <1>5. /\ NoTask.stage = "none" /\ ~NoTask.valid /\ NoTask.seen = NoAnswer
        /\ NoAnswer.rows = {} /\ NoAnswer.info = "unread" /\ NoAnswer.snap = {}
    BY DEF NoTask, NoAnswer
  <1>6. Reach(blank) = {} /\ Known(blank) = Targets(R)
    BY <1>4, <1>5 DEF Known, Reach, Asked, Found, Targets
  <1>7. RowsInv(blank) /\ SettledInv(blank) /\ WaitInv(blank)
    BY <1>4 DEF RowsInv, SettledInv, WaitInv
  <1>8. TaskInv(blank, ctx)
    BY <1>4, <1>5 DEF TaskInv, Outlives
  <1>9. DeletionInv(blank, st, ak, ex) /\ HiddenInv(blank, ctx, st, ak, ex)
    BY <1>4, <1>5, <1>6 DEF DeletionInv, HiddenInv, Completed, Outlives
  <1>10. CoreInv(blank, ctx, st, ak, ex)
    BY <1>3, <1>7, <1>8, <1>9 DEF CoreInv
  <1> HIDE DEF force
  <1>11. ViewInv(t, ctx, st, ak, ex) /\ t.rows \subseteq blank.rows /\ Known(t) \subseteq Known(blank)
    BY <1>7, <1>10, LoadKeeps
  <1> HIDE DEF t
  <1>12. ViewInv(t, ctx, st, ak, ex) /\ t.rows = {} /\ Known(t) \subseteq Targets(R)
    BY <1>4, <1>6, <1>11
  <1> QED BY <1>1, <1>12

LEMMA RemountStep ==
    ASSUME Inv, Remount
    PROVE  Inv' /\ Apart
  <1> DEFINE kept(S) == IF ctx.tenant = ui.ctx.tenant THEN S ELSE {}
             tomb == kept(ui.tomb)
             gone(r) == [r EXCEPT !.by = "gone"]
             R == {gone(r) : r \in kept(ui.removing)}
             ak == kept(acked)
             ex == kept(excused)
             t == Fresh(tomb, R)
  <1>1. ui' = t /\ UNCHANGED <<polls, ctx, store, born>> /\ acked' = ak /\ excused' = ex
    BY DEF Remount, View
  <1>2. \A r \in ui.removing : gone(r) \in Removals /\ gone(r).obj = r.obj
    BY Removing DEF Removals
  <1> HIDE DEF gone
  <1>3. R \in SUBSET Removals /\ \A r \in R : r.obj.ctx = ctx.tenant /\ r.obj \in born
    BY <1>2, Removing
  <1>4. DeletionInv(ui, store, acked, excused) /\ HiddenInv(ui, ctx, store, acked, excused)
    BY Removing DEF CoreInv
  <1>5. /\ tomb \in SUBSET Objects /\ tomb \subseteq ak
        /\ \A p \in ak : p.ctx = ctx.tenant
        /\ \A p \in ak \ ex : p \in tomb \/ p \notin store
    BY <1>4, Removing DEF DeletionInv, HiddenInv
  <1>6. ak \subseteq born
    BY DEF Inv, StoreInv
  <1>10. Outlives(tomb, R, store, ak, ex)
    BY <1>3, <1>5 DEF Outlives
  <1> HIDE DEF tomb, R, ak, ex
  <1>7. /\ ViewInv(t, ctx, store, ak, ex) /\ t.rows = {}
        /\ Known(t) \subseteq Targets(R)
    BY <1>10, Removing, FreshKeeps
  <1> HIDE DEF t
  <1>8. ViewInv(t, ctx, store, acked', excused') /\ acked' \subseteq born
    BY <1>1, <1>6, <1>7
  <1>9. t.rows \subseteq ui.rows /\ Known(t) \subseteq born
    BY <1>3, <1>7 DEF Targets
  <1> QED BY <1>1, <1>8, <1>9, PlainStep

LEMMA InitHolds ==
    ASSUME Init
    PROVE  Inv
  <1> DEFINE u == CHOOSE x \in Uids : TRUE
             f == [o \in store |-> <<o.ctx, o.name>>]
             first == CHOOSE c \in Contexts : TRUE
  <1>1. u \in Uids /\ first \in Contexts /\ polls \in BOOLEAN
    BY ObjectsAssumption, ViewsAssumption DEF Init
  <1>2. store \subseteq [ctx : Contexts, name : Names, uid : {u}]
    BY DEF Init
  <1>3. ctx \in Versions
    BY <1>1 DEF Init, Versions
  <1> HIDE DEF u, first
  <1>4. store \subseteq Objects
    BY <1>1, <1>2 DEF Objects
  <1>5. \A o, p \in store : o.ctx = p.ctx /\ o.name = p.name => o = p
    BY <1>2
  <1>6. IsFiniteSet(store)
    <2>1. IsFiniteSet(Contexts \X Names)
      BY ObjectsAssumption, FS_Product
    <2>2. f \in Injection(store, Contexts \X Names)
      BY <1>4, <1>5 DEF Injection, IsInjective, Objects
    <2> QED BY <2>1, <2>2, FS_Injection
  <1> DEFINE none == {}
             t == Fresh(none, none)
  <1>7. ui = t /\ acked = none /\ excused = none /\ born = store
    BY DEF Init
  <1>8. ViewInv(t, ctx, store, none, none) /\ Known(t) = {}
    <2>1. Outlives(none, none, store, none, none) /\ Targets(none) = {}
      BY DEF Outlives, Targets
    <2> HIDE DEF none
    <2>2. ViewInv(t, ctx, store, none, none) /\ Known(t) \subseteq Targets(none)
      BY <1>3, <2>1, FreshKeeps
    <2> HIDE DEF t
    <2> QED BY <2>1, <2>2
  <1>9. none \subseteq born
    OBVIOUS
  <1> HIDE DEF none, t
  <1>10. StoreInv
    BY <1>1, <1>3, <1>4, <1>6, <1>7, <1>8, <1>9 DEF StoreInv
  <1> QED BY <1>7, <1>8, <1>10 DEF Inv
-----------------------------------------------------------------------------
(***************************************************************************)
(* The theorems.                                                           *)
(***************************************************************************)
LEMMA NextStep ==
    ASSUME Inv, [Next]_vars
    PROVE  Inv' /\ Apart
  <1>1. CASE Next
    <2>1. CASE Reads
      BY <2>1, ReadSteps, ServeStep DEF Reads
    <2>2. CASE ReadFails \/ TokenExpires
      BY <2>2, ReadSteps
    <2>3. CASE Tick \/ Refresh \/ Search
      BY <2>3, TickStep, RefreshStep, SearchStep
    <2>4. CASE \E page \in 1..Cardinality(Names) : Browse(page)
      <3>1. PICK page \in 1..Cardinality(Names) : Browse(page)
        BY <2>4
      <3>2. page \in Nat
        BY <3>1, ObjectsAssumption, FS_CardinalityType
      <3> QED BY <3>1, <3>2, BrowseStep
    <2>5. CASE \E o \in Objects : Remove(o) \/ Visit(o) \/ RemoveVisited(o) \/ Vanish(o) \/ Create(o)
      BY <2>5, RemovalSteps, VanishStep, CreateStep
    <2>6. CASE \E r \in ui.removing : \/ RemoveServed(r) \/ RemoveFails(r)
                                      \/ RemoveAnswers(r) \/ VisitedAnswers(r) \/ LateAnswers(r)
      BY <2>6, RemoveServedStep, RemovalEnds, RemoveAnswersStep, VisitedAnswersStep
    <2>7. CASE Return \/ Switch \/ Remount
      BY <2>7, ReturnStep, SwitchStep, RemountStep
    <2> QED BY <1>1, <2>1, <2>2, <2>3, <2>4, <2>5, <2>6, <2>7 DEF Next
  <1>2. CASE UNCHANGED vars
    <2>1. UNCHANGED <<polls, ctx, store, born, ui, acked, excused>>
      BY <1>2 DEF vars
    <2>2. ViewInv(ui', ctx', store', acked', excused')
      BY <2>1 DEF Inv
    <2>3. StoreInv'
      BY <2>1 DEF Inv, StoreInv
    <2>4. Apart
      BY <2>1 DEF Apart
    <2> QED BY <2>1, <2>2, <2>3, <2>4 DEF Inv
  <1> QED BY <1>1, <1>2

\* Whatever users, other clients, failing reads and late answers do in whichever
\* order, the view's record keeps the inductive invariant.
THEOREM InvCorrect == Spec => []Inv
  <1>1. Init => Inv
    BY InitHolds
  <1>2. Inv /\ [Next]_vars => Inv'
    BY NextStep
  <1> QED BY <1>1, <1>2, PTL DEF Spec

\* The state of WarehousesView.vue and TablesView.vue keeps its types: the whole
\* list is the view's own only under a query, and a walk that is marked as
\* pending always has a running task to end it.
THEOREM TypeCorrect == Spec => []TypeOK
  <1>1. Inv => TypeOK
    <2> SUFFICES ASSUME Inv PROVE TypeOK
      OBVIOUS
    <2>1. ui \in UI /\ RowsInv(ui) /\ WaitInv(ui)
      BY DEF Inv, ViewInv, CoreInv
    <2>2. ui.task \in Tasks
      BY <2>1 DEF UI
    <2>3. ui.task.stage \in {"none", "support", "page", "walk"}
      BY <2>2 DEF Tasks
    <2>4. /\ ui.rows \subseteq Objects /\ ui.tomb \subseteq Objects /\ ui.pending \subseteq Objects
          /\ ui.info \in {"none", "more", "last"}
          /\ ui.queued \in {"none", "foreground", "background"}
          /\ ui.mode \in {"server", "client"}
      BY <2>1 DEF UI, Modes
    <2> QED BY <2>1, <2>3, <2>4 DEF TypeOK, RowsInv, WaitInv
  <1> QED BY <1>1, InvCorrect, PTL

\* The rows on the screen are those of the page the view is on, and rows the
\* view filters by itself are the whole list: tableRequestIsCurrent and the
\* authority's generation keep every other answer out.
THEOREM RowsCorrect == Spec => []RowsAnswerTheQuestion
  <1>1. Inv => RowsAnswerTheQuestion
    BY DEF Inv, ViewInv, CoreInv, RowsInv, RowsAnswerTheQuestion
  <1> QED BY <1>1, InvCorrect, PTL

\* An object whose deletion was acknowledged, to the list or to a detail view, is
\* not shown again, whichever reads were in flight, however long the server
\* lists it and whichever mounts of the tenant follow, but for the losses of a
\* tombstone that DeletedStaysHidden names.
THEOREM HiddenCorrect == Spec => []DeletedStaysHidden
  <1>1. Inv => DeletedStaysHidden
    BY DEF Inv, ViewInv, CoreInv, HiddenInv, DeletedStaysHidden, Shown
  <1> QED BY <1>1, InvCorrect, PTL

\* The first-run surface is shown only when the complete list that the server
\* gave last, and that was not thrown away since, held nothing but objects whose
\* deletion was acknowledged: tombstones hide nothing else, though they outlive
\* the mount and are written by detail views.
THEOREM FirstRunCorrect == Spec => []FirstRunIsTrue
  <1>1. Inv => FirstRunIsTrue
    <2> SUFFICES ASSUME Inv, FirstRun(ui) PROVE ui.from.complete /\ ~ui.owed /\ ui.rows \subseteq acked
      BY DEF FirstRunIsTrue
    <2>1. SettledInv(ui) /\ DeletionInv(ui, store, acked, excused)
      BY DEF Inv, ViewInv, CoreInv
    <2>2. ui.rows \subseteq ui.tomb
      BY DEF FirstRun, Shown
    <2> QED BY <2>1, <2>2 DEF SettledInv, DeletionInv, FirstRun
  <1> QED BY <1>1, InvCorrect, PTL

\* No answer about the tenant before reaches the screen of a view that is still
\* mounted: rows that appear are objects of the tenant that is selected.
THEOREM ApartCorrect == Spec => TenantsStayApart
  <1>1. Inv /\ [Next]_vars => [\A o \in ui'.rows \ ui.rows : o.ctx = ctx.tenant]_vars
    BY NextStep DEF Apart
  <1> QED BY <1>1, InvCorrect, PTL DEF Spec, TenantsStayApart

=============================================================================
