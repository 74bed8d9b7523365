----------------------- MODULE StatementClientProofs -----------------------
(***************************************************************************)
(* Proofs about the calls to a Databricks workspace, for any workspace and *)
(* any limits.                                                             *)
(***************************************************************************)
EXTENDS StatementClient, FiniteSetTheorems, WellFoundedInduction, TLAPS

(***************************************************************************)
(* The inductive invariant.                                                *)
(***************************************************************************)
IsCall(c) ==
    c = [op |-> c.op, stage |-> c.stage, input |-> c.input, asked |-> c.asked, met |-> c.met,
         verdict |-> c.verdict, pass |-> c.pass, limit |-> c.limit, result |-> c.result]

\* A walk has asked for distinct pages, no more than the limit.
WalkInv ==
    /\ call.asked \in Seq(Tokens \cup {NoToken})
    /\ WalkIsBounded

\* The pages of an honest listing are asked for one after the other.
Numbered(asked) == asked[1] = NoToken /\ \A j \in 2..Len(asked) : asked[j] = j

\* What is known while a Connection or a Table is validated.
ValidationInv ==
    /\ At("user") =>
          /\ call.op = "connection" /\ call.verdict = "None"
          /\ call.met = IF call.pass = 0 THEN {} ELSE {"notFound"}
    /\ call.stage \in {"page", "probe"} =>
          call.op = "table" /\ call.input \in Listings /\ call.met = {} /\ call.verdict = "None"
    /\ At("page") => call.asked # <<>>
    /\ At("page") /\ call.input.honest =>
          /\ Numbered(call.asked)
          /\ Len(call.asked) <= call.input.pages
          /\ call.input.at \notin 1..(Len(call.asked) - 1)
    /\ At("probe") /\ call.input.honest =>
          call.input.at \in 1..MaxPages /\ call.input.type # "METRIC_VIEW"

\* What the layers that dealt with a request before have made sure of.
RequestInv ==
    call.stage \in {"controls", "sql"} =>
        /\ call.op = "select" /\ call.input \in Requests
        /\ call.verdict = "None" /\ call.result = Empty
        /\ At("controls") => call.pass \in 0..2
        /\ At("sql") => call.pass = 3
        /\ call.pass = 0 => call.limit = call.input.limit
        /\ call.pass > 0 => /\ call.limit = DefaultLimit(call.input.limit)
                            /\ ValidControls(call.input.columns, call.limit)
        /\ call.pass > 1 => call.input.columns = <<>> \/ call.input.schema # {}

\* The calls the properties say nothing of.
OtherInv ==
    /\ At("idle") => call.op = "none"
    /\ At("warehouse") => call.op = "warehouse"
    /\ At("discover") => call.op = "discovery" /\ call.input \in Entries /\ call.result = Empty
    /\ call.stage \in {"bound", "wrap"} => call.op \in {"action", "mcp"}
    /\ At("trim") => call.op = "list"

Inv ==
    /\ IsCall(call)
    /\ WalkInv /\ ValidationInv /\ RequestInv /\ OtherInv
    /\ VerdictIsJustified /\ StatementIsAsked
-----------------------------------------------------------------------------
LEMMA IdleFields ==
    /\ IsCall(Idle) /\ Idle.op = "none" /\ Idle.stage = "idle" /\ Idle.asked = <<>>
    /\ Idle.met = {} /\ Idle.verdict = "None" /\ Idle.pass = 0 /\ Idle.result = Empty
  BY DEF IsCall, Idle

LEMMA EmptyWalk == <<>> \in Seq(Tokens \cup {NoToken}) /\ Len(<<>>) <= MaxPages /\ IsInjective(<<>>)
  BY LimitsAssumption DEF IsInjective

\* A call that makes no claim, and has walked no further.
LEMMA NoClaim ==
    ASSUME IsCall(call)', WalkInv', OtherInv',
           call'.op \in {"none", "warehouse", "action", "mcp", "list"},
           call'.stage \notin {"user", "page", "probe", "controls", "sql"}
    PROVE  Inv'
  BY DEF Inv, ValidationInv, RequestInv, VerdictIsJustified,
         StatementIsAsked, At

LEMMA InitHolds ==
    ASSUME Init
    PROVE  Inv
  BY IdleFields, EmptyWalk
     DEF Init, Inv, WalkInv, WalkIsBounded, ValidationInv, RequestInv, OtherInv,
         VerdictIsJustified, StatementIsAsked, At

LEMMA ReturnStep ==
    ASSUME Inv, Return
    PROVE  Inv'
  <1>1. IsCall(call)' /\ WalkInv' /\ OtherInv' /\ call'.op = "none" /\ call'.stage = "idle"
    BY IdleFields, EmptyWalk DEF Return, WalkInv, WalkIsBounded, OtherInv, At, IsCall
  <1> QED BY <1>1, NoClaim
-----------------------------------------------------------------------------
(***************************************************************************)
(* Validation.                                                             *)
(***************************************************************************)
LEMMA ConnectionSteps ==
    ASSUME Inv, StartConnection \/ \E s \in Statuses : CurrentUser(s)
    PROVE  Inv'
  <1>1. CASE StartConnection
    <2>1. /\ IsCall(call)' /\ call'.op = "connection" /\ call'.stage = "user" /\ call'.asked = <<>>
          /\ call'.met = {} /\ call'.verdict = "None" /\ call'.pass = 0
      BY <1>1 DEF StartConnection, IsCall, Idle
    <2> QED BY <2>1, EmptyWalk
            DEF Inv, WalkInv, WalkIsBounded, ValidationInv, RequestInv, OtherInv,
                VerdictIsJustified, StatementIsAsked, At
  <1>2. ASSUME NEW status \in Statuses, CurrentUser(status) PROVE Inv'
    <2>1. /\ IsCall(call) /\ At("user") /\ call.op = "connection" /\ call.verdict = "None"
          /\ call.met = (IF call.pass = 0 THEN {} ELSE {"notFound"})
          /\ WalkInv
      BY <1>2 DEF Inv, ValidationInv, CurrentUser
    <2>2. call'.asked = call.asked => WalkInv'
      BY <2>1 DEF WalkInv, WalkIsBounded
    <2>3. CASE status = "notFound" /\ call.pass = 0
      <3>1. call' = [call EXCEPT !.pass = 1, !.met = call.met \cup {status}]
        BY <1>2, <2>3 DEF CurrentUser
      <3>2. call.met \cup {status} = {"notFound"}
        BY <2>1, <2>3
      <3>3. /\ IsCall(call)' /\ call'.op = "connection" /\ call'.asked = call.asked
            /\ call'.stage = "user" /\ call'.pass = 1 /\ call'.met = {"notFound"}
            /\ call'.verdict = "None"
        BY <2>1, <3>1, <3>2 DEF IsCall, At
      <3> QED BY <2>2, <3>3
              DEF Inv, ValidationInv, RequestInv, OtherInv, VerdictIsJustified, StatementIsAsked, At
    <2>4. CASE ~(status = "notFound" /\ call.pass = 0)
      <3> DEFINE verdict == IF status = "ok" THEN "Ready" ELSE Classify(status)
      <3>1. call' = [call EXCEPT !.stage = "done", !.met = call.met \cup {status},
                                 !.verdict = verdict]
        BY <1>2, <2>4 DEF CurrentUser, Conclude
      <3>2. /\ verdict = "Ready" => status = "ok"
            /\ verdict = "ResourceNotFound" => status = "notFound"
        BY DEF Classify
      <3> HIDE DEF verdict
      <3>3. /\ IsCall(call)' /\ call'.op = "connection" /\ call'.asked = call.asked
            /\ call'.stage = "done" /\ call'.met = call.met \cup {status}
            /\ call'.verdict = verdict
        BY <2>1, <3>1 DEF IsCall
      <3>4. VerdictIsJustified'
        BY <2>1, <2>4, <3>2, <3>3 DEF VerdictIsJustified
      <3> QED BY <2>2, <3>3, <3>4
              DEF Inv, ValidationInv, RequestInv, OtherInv,
                  StatementIsAsked, At
    <2> QED BY <2>3, <2>4
  <1> QED BY <1>1, <1>2

LEMMA WarehouseSteps ==
    ASSUME Inv, StartWarehouse \/ \E s \in Statuses : WarehouseAnswers(s)
    PROVE  Inv'
  <1>1. CASE StartWarehouse
    <2>1. IsCall(call)' /\ call'.op = "warehouse" /\ call'.stage = "warehouse" /\ call'.asked = <<>>
      BY <1>1 DEF StartWarehouse, IsCall, Idle
    <2> QED BY <2>1, EmptyWalk, NoClaim DEF WalkInv, WalkIsBounded, OtherInv, At
  <1>2. ASSUME NEW status \in Statuses, WarehouseAnswers(status) PROVE Inv'
    <2>1. IsCall(call) /\ call.op = "warehouse" /\ WalkInv
      BY <1>2 DEF Inv, OtherInv, WarehouseAnswers
    <2>2. IsCall(call)' /\ call'.op = "warehouse" /\ call'.stage = "done" /\ call'.asked = call.asked
      BY <1>2, <2>1 DEF WarehouseAnswers, Conclude, IsCall
    <2> QED BY <2>1, <2>2, NoClaim DEF WalkInv, WalkIsBounded, OtherInv, At
  <1> QED BY <1>1, <1>2

\* One more page was asked for.
LEMMA AppendFields ==
    ASSUME NEW S, NEW seq \in Seq(S), NEW x \in S
    PROVE  /\ Append(seq, x) \in Seq(S) /\ Len(Append(seq, x)) = Len(seq) + 1
           /\ Append(seq, x) # <<>> /\ Append(seq, x)[Len(seq) + 1] = x
           /\ \A j \in 1..Len(seq) : Append(seq, x)[j] = seq[j]
  OBVIOUS

\* The last page that was asked for is the one with the number of requests.
LEMMA NumberedLast ==
    ASSUME NEW S, NEW seq \in Seq(S), seq # <<>>, Numbered(seq)
    PROVE  (IF Last(seq) = NoToken THEN 1 ELSE Last(seq)) = Len(seq)
  <1> DEFINE n == Len(seq)
  <1>1. n \in Nat /\ n # 0
    OBVIOUS
  <1>2. Numbered(seq) => seq[1] = NoToken /\ \A j \in 2..n : seq[j] = j
    BY DEF Numbered
  <1> HIDE DEF n
  <1>3. ASSUME n = 1 PROVE seq[n] = NoToken
    BY <1>2, <1>3
  <1>4. ASSUME n # 1 PROVE seq[n] = n /\ n # NoToken
    <2>1. n \in 2..n
      BY <1>1, <1>4
    <2> QED BY <1>1, <1>2, <2>1, ListingsAssumption
  <1>5. Last(seq) = seq[n]
    BY DEF Last, n
  <1>6. (IF Last(seq) = NoToken THEN 1 ELSE Last(seq)) = n
    BY <1>3, <1>4, <1>5
  <1> QED BY <1>6 DEF n

\* A walk that is sent on from page to page stays numbered.
LEMMA NumberedNext ==
    ASSUME NEW S, NEW seq \in Seq(S), seq # <<>>, Numbered(seq), NEW x \in S, x = Len(seq) + 1
    PROVE  Numbered(Append(seq, x))
  <1> DEFINE t == Append(seq, x)
  <1>1. /\ Len(t) = Len(seq) + 1 /\ t[Len(seq) + 1] = x
        /\ \A j \in 1..Len(seq) : t[j] = seq[j]
    BY AppendFields
  <1> HIDE DEF t
  <1>2. Len(seq) \in Nat /\ Len(seq) # 0
    OBVIOUS
  <1>3. t[1] = NoToken
    BY <1>1, <1>2 DEF Numbered
  <1>4. ASSUME NEW j \in 2..Len(t) PROVE t[j] = j
    <2>1. CASE j = Len(seq) + 1
      BY <1>1, <2>1
    <2>2. CASE j # Len(seq) + 1
      <3>1. j \in 2..Len(seq) /\ j \in 1..Len(seq)
        BY <1>1, <1>2, <2>2
      <3> QED BY <1>1, <3>1 DEF Numbered
    <2> QED BY <2>1, <2>2
  <1>5. Numbered(t)
    BY <1>3, <1>4 DEF Numbered
  <1> QED BY <1>5 DEF t

\* A page is the one that was asked for last.
LEMMA HonestPage ==
    ASSUME Inv, At("page"), call.input.honest,
           NEW page, page \in Pages(call.input, Last(call.asked))
    PROVE  LET n == Len(call.asked) IN
           /\ n \in 1..MaxPages /\ n <= call.input.pages
           /\ page.hit <=> n = call.input.at
           /\ n < call.input.pages => page.next = n + 1
           /\ ~(n < call.input.pages) => page.next = NoToken
  <1> DEFINE n == Len(call.asked)
             number == IF Last(call.asked) = NoToken THEN 1 ELSE Last(call.asked)
  <1>1. /\ call.asked \in Seq(Tokens \cup {NoToken}) /\ n <= MaxPages /\ call.asked # <<>>
        /\ Numbered(call.asked) /\ n <= call.input.pages
    BY DEF Inv, WalkInv, WalkIsBounded, ValidationInv
  <1>2. n \in Nat /\ n # 0
    BY <1>1
  <1>3. n \in 1..MaxPages
    BY <1>1, <1>2, LimitsAssumption
  <1>4. number = n
    BY <1>1, NumberedLast
  <1>5. page = [hit |-> number = call.input.at,
                next |-> IF number < call.input.pages THEN number + 1 ELSE NoToken]
    BY DEF Pages
  <1> HIDE DEF number, n
  <1>6. /\ page.hit <=> number = call.input.at
        /\ number < call.input.pages => page.next = number + 1
        /\ ~(number < call.input.pages) => page.next = NoToken
    BY <1>5
  <1> QED BY <1>1, <1>3, <1>4, <1>6 DEF n

LEMMA StartTableStep ==
    ASSUME Inv, NEW listing \in Listings, StartTable(listing)
    PROVE  Inv'
  <1> DEFINE asked == <<NoToken>>
  <1>1. /\ asked \in Seq(Tokens \cup {NoToken}) /\ Len(asked) = 1 /\ asked[1] = NoToken
        /\ IsInjective(asked) /\ asked # <<>>
    BY DEF IsInjective
  <1>2. call' = [Idle EXCEPT !.op = "table", !.stage = "page", !.input = listing, !.asked = asked]
    BY DEF StartTable
  <1> HIDE DEF asked
  <1>3. /\ IsCall(call)' /\ call'.op = "table" /\ call'.stage = "page" /\ call'.input = listing
        /\ call'.asked = asked /\ call'.met = {} /\ call'.verdict = "None"
    BY <1>2 DEF IsCall, Idle
  <1>4. WalkInv'
    <2>1. 1 <= MaxPages
      BY LimitsAssumption
    <2> QED BY <1>1, <1>3, <2>1 DEF WalkInv, WalkIsBounded
  <1>5. ValidationInv'
    <2>1. listing.honest => 1 <= listing.pages /\ listing.at \notin 1..0
      BY ListingsAssumption
    <2>2. Numbered(asked)
      BY <1>1 DEF Numbered
    <2>3. Len(asked) - 1 = 0
      BY <1>1
    <2> QED BY <1>1, <1>3, <2>1, <2>2, <2>3 DEF ValidationInv, At
  <1> QED BY <1>3, <1>4, <1>5
          DEF Inv, RequestInv, OtherInv, VerdictIsJustified,
              StatementIsAsked, At

\* A validation of a Table ends: all that is left to show is its verdict.
LEMMA TableConcludes ==
    ASSUME Inv, call.stage \in {"page", "probe"}, NEW status, NEW verdict,
           Conclude(status, verdict),
           call.input.honest =>
               /\ verdict = "ResourceNotFound" /\ status # "notFound" =>
                     call.input.at = 0 /\ call.input.pages <= MaxPages
               /\ verdict = "UnsupportedTableType" =>
                     call.input.at # 0 /\ call.input.type = "METRIC_VIEW"
               /\ verdict = "Ready" =>
                     call.input.at \in 1..MaxPages /\ call.input.type # "METRIC_VIEW"
    PROVE  Inv'
  <1>1. IsCall(call) /\ call.op = "table" /\ call.met = {} /\ WalkInv
    BY DEF Inv, ValidationInv
  <1>2. /\ IsCall(call)' /\ call'.op = "table" /\ call'.stage = "done" /\ call'.asked = call.asked
        /\ call'.input = call.input /\ call'.met = call.met \cup {status}
        /\ call'.verdict = verdict
    BY <1>1 DEF Conclude, IsCall
  <1>3. WalkInv'
    BY <1>1, <1>2 DEF WalkInv, WalkIsBounded
  <1>4. VerdictIsJustified'
    BY <1>1, <1>2 DEF VerdictIsJustified
  <1> QED BY <1>2, <1>3, <1>4
          DEF Inv, ValidationInv, RequestInv, OtherInv, StatementIsAsked, At

LEMMA TableSteps ==
    ASSUME Inv,
           \/ \E s \in Statuses : PageFails(s)
           \/ \E p \in [hit : BOOLEAN, next : Tokens \cup {NoToken}] : Page(p)
           \/ \E s \in Statuses, n \in 0..1 : Probe(s, n)
    PROVE  Inv'
  <1>0. ASSUME NEW status \in Statuses
        PROVE  /\ Classify(status) \notin {"Ready", "UnsupportedTableType"}
               /\ Classify(status) = "ResourceNotFound" => status = "notFound"
    BY DEF Classify
  <1>1. ASSUME NEW status \in Statuses, PageFails(status) PROVE Inv'
    BY <1>0, <1>1, TableConcludes DEF PageFails, At
  <1>2. ASSUME NEW status \in Statuses, NEW columns, Probe(status, columns) PROVE Inv'
    <2> DEFINE verdict == IF status # "ok" THEN Classify(status)
                          ELSE IF columns = 0 THEN "ValidationFailed" ELSE "Ready"
    <2>1. At("probe") /\ Conclude(status, verdict)
      BY <1>2 DEF Probe
    <2>2. /\ verdict # "UnsupportedTableType"
          /\ verdict = "ResourceNotFound" => status = "notFound"
      BY <1>0
    <2> HIDE DEF verdict
    <2>3. call.input.honest => call.input.at \in 1..MaxPages /\ call.input.type # "METRIC_VIEW"
      BY <2>1 DEF Inv, ValidationInv
    <2>4. call.stage \in {"page", "probe"}
      BY <2>1 DEF At
    <2> QED BY <2>1, <2>2, <2>3, <2>4, TableConcludes
  <1>3. ASSUME NEW page \in [hit : BOOLEAN, next : Tokens \cup {NoToken}], Page(page) PROVE Inv'
    <2> DEFINE n == Len(call.asked)
    <2>1. /\ At("page") /\ page \in Pages(call.input, Last(call.asked))
          /\ call.stage \in {"page", "probe"}
      BY <1>3 DEF Page, At
    <2>2. /\ IsCall(call) /\ call.op = "table" /\ call.met = {} /\ call.verdict = "None"
          /\ call.input \in Listings /\ call.asked \in Seq(Tokens \cup {NoToken})
          /\ n <= MaxPages /\ IsInjective(call.asked) /\ n \in Nat
          /\ page.next \in Tokens \cup {NoToken}
      BY <2>1 DEF Inv, ValidationInv, WalkInv, WalkIsBounded
    <2>3. call.input.honest =>
            /\ n \in 1..MaxPages /\ n <= call.input.pages
            /\ page.hit <=> n = call.input.at
            /\ n < call.input.pages => page.next = n + 1
            /\ ~(n < call.input.pages) => page.next = NoToken
            /\ Numbered(call.asked)
            /\ call.input.at \notin 1..(n - 1)
            /\ call.input.pages \in Nat /\ call.input.at \in 0..call.input.pages
      BY <2>1, <2>2, HonestPage, ListingsAssumption DEF Inv, ValidationInv
    <2>4. CASE page.hit /\ call.input.type = "METRIC_VIEW"
      <3>1. Conclude("ok", "UnsupportedTableType")
        BY <1>3, <2>4 DEF Page
      <3>2. call.input.honest => call.input.at # 0
        BY <2>3, <2>4
      <3> QED BY <2>1, <2>4, <3>1, <3>2, TableConcludes
    <2>5. CASE page.hit /\ call.input.type # "METRIC_VIEW"
      <3>1. call' = [call EXCEPT !.stage = "probe"]
        BY <1>3, <2>5 DEF Page, Goto
      <3>2. /\ IsCall(call)' /\ call'.op = "table" /\ call'.stage = "probe"
            /\ call'.asked = call.asked /\ call'.input = call.input
            /\ call'.met = {} /\ call'.verdict = "None"
        BY <2>2, <3>1 DEF IsCall
      <3>3. WalkInv'
        BY <2>2, <3>2 DEF WalkInv, WalkIsBounded
      <3>4. call.input.honest => call.input.at \in 1..MaxPages
        BY <2>3, <2>5
      <3>5. ValidationInv'
        BY <2>2, <2>5, <3>2, <3>4 DEF ValidationInv, At
      <3> QED BY <3>2, <3>3, <3>5
              DEF Inv, RequestInv, OtherInv, VerdictIsJustified,
                  StatementIsAsked, At
    <2>6. CASE ~page.hit /\ page.next = NoToken
      <3>1. Conclude("ok", "ResourceNotFound")
        BY <1>3, <2>6 DEF Page
      <3>2. call.input.honest => call.input.at = 0 /\ call.input.pages <= MaxPages
        BY <2>3, <2>6, ListingsAssumption, LimitsAssumption
      <3> QED BY <2>1, <3>1, <3>2, TableConcludes
    <2>7. CASE /\ ~page.hit /\ page.next # NoToken
               /\ page.next \in ToSet(call.asked) \/ n = MaxPages
      <3>1. Conclude("ok", "ValidationFailed")
        BY <1>3, <2>7 DEF Page
      <3> QED BY <2>1, <3>1, TableConcludes
    <2>8. CASE /\ ~page.hit /\ page.next # NoToken
               /\ page.next \notin ToSet(call.asked) /\ n # MaxPages
      <3> DEFINE asked == Append(call.asked, page.next)
      <3>1. call' = [call EXCEPT !.asked = asked]
        BY <1>3, <2>8 DEF Page
      <3>2. /\ asked \in Seq(Tokens \cup {NoToken}) /\ Len(asked) = n + 1 /\ asked # <<>>
            /\ \A j \in 1..n : asked[j] = call.asked[j]
            /\ asked[n + 1] = page.next
        <4> DEFINE S == Tokens \cup {NoToken}
                   seq == call.asked
                   next == page.next
        <4>1. seq \in Seq(S) /\ next \in S /\ Len(seq) = n
          BY <2>2
        <4> HIDE DEF S, seq, next, n
        <4>2. /\ Append(seq, next) \in Seq(S) /\ Len(Append(seq, next)) = n + 1
              /\ Append(seq, next) # <<>> /\ Append(seq, next)[n + 1] = next
              /\ \A j \in 1..n : Append(seq, next)[j] = seq[j]
          BY <4>1, AppendFields
        <4> QED BY <4>2 DEF S, seq, next
      <3>3. IsInjective(asked)
        BY <2>2, <2>8, <3>2 DEF IsInjective, ToSet
      <3>4. n + 1 <= MaxPages
        BY <2>2, <2>8, LimitsAssumption
      <3> HIDE DEF asked
      <3>5. /\ IsCall(call)' /\ call'.op = "table" /\ call'.stage = "page"
            /\ call'.asked = asked /\ call'.input = call.input
            /\ call'.met = {} /\ call'.verdict = "None"
        BY <2>1, <2>2, <3>1 DEF IsCall, At
      <3>6. WalkInv'
        BY <3>2, <3>3, <3>4, <3>5 DEF WalkInv, WalkIsBounded
      <3>7. call.input.honest =>
              /\ Numbered(asked) /\ n + 1 <= call.input.pages /\ call.input.at \notin 1..n
        <4> SUFFICES ASSUME call.input.honest
                     PROVE  Numbered(asked) /\ n + 1 <= call.input.pages
                            /\ call.input.at \notin 1..n
          OBVIOUS
        <4>1. n < call.input.pages
          BY <2>3, <2>8
        <4>2. page.next = n + 1 /\ call.asked # <<>>
          BY <2>1, <2>3, <4>1 DEF Inv, ValidationInv
        <4>3. Numbered(asked)
          BY <2>2, <2>3, <4>2, NumberedNext DEF asked
        <4>4. call.input.at # n /\ call.input.at \notin 1..(n - 1)
          BY <2>3, <2>8
        <4> HIDE DEF n
        <4>5. call.input.at \notin 1..n
          BY <2>2, <2>3, <4>4
        <4>6. n + 1 <= call.input.pages
          BY <2>2, <2>3, <4>1
        <4> QED BY <4>3, <4>5, <4>6
      <3>8. ValidationInv'
        BY <2>2, <3>2, <3>5, <3>7 DEF ValidationInv, At
      <3> QED BY <3>5, <3>6, <3>8
              DEF Inv, RequestInv, OtherInv, VerdictIsJustified,
                  StatementIsAsked, At
    <2> QED BY <2>4, <2>5, <2>6, <2>7, <2>8
  <1> QED BY <1>1, <1>2, <1>3
-----------------------------------------------------------------------------
(***************************************************************************)
(* Discovery.                                                              *)
(***************************************************************************)
LEMMA DiscoverySteps ==
    ASSUME Inv,
           \/ \E page \in Entries : StartDiscovery(page)
           \/ \E s \in Statuses : Discover(s)
    PROVE  Inv'
  <1>1. ASSUME NEW page \in Entries, StartDiscovery(page) PROVE Inv'
    <2>1. /\ IsCall(call)' /\ call'.op = "discovery" /\ call'.stage = "discover"
          /\ call'.input = page /\ call'.asked = <<>> /\ call'.result = Empty
      BY <1>1 DEF StartDiscovery, IsCall, Idle
    <2> QED BY <2>1, EmptyWalk
            DEF Inv, WalkInv, WalkIsBounded, ValidationInv, RequestInv, OtherInv,
                VerdictIsJustified, StatementIsAsked, At
  <1>2. ASSUME NEW status \in Statuses, Discover(status) PROVE Inv'
    <2>1. /\ IsCall(call)' /\ call'.op = "discovery" /\ call'.stage \in {"done", "failed"}
          /\ call'.asked = call.asked /\ WalkInv
      BY <1>2 DEF Inv, OtherInv, Discover, IsCall
    <2>2. WalkInv'
      BY <2>1 DEF WalkInv, WalkIsBounded
    <2> QED BY <2>1, <2>2
            DEF Inv, ValidationInv, RequestInv, OtherInv, VerdictIsJustified, StatementIsAsked, At
  <1> QED BY <1>1, <1>2
-----------------------------------------------------------------------------
(***************************************************************************)
(* Requests.                                                               *)
(***************************************************************************)
LEMMA RefusalKeeps ==
    ASSUME Inv, call.stage \in {"controls", "sql"}, NEW verdict, RefuseQuery(verdict),
           verdict = "InvalidControls" => call.pass = 0
    PROVE  Inv'
  <1>1. IsCall(call) /\ call.op = "select" /\ WalkInv
    BY DEF Inv, RequestInv
  <1>2. /\ IsCall(call)' /\ call'.op = "select" /\ call'.stage = "failed"
        /\ call'.asked = call.asked /\ call'.verdict = verdict /\ call'.pass = call.pass
    BY <1>1 DEF RefuseQuery, IsCall
  <1> QED BY <1>1, <1>2
          DEF Inv, WalkInv, WalkIsBounded, ValidationInv, RequestInv, OtherInv,
              VerdictIsJustified, StatementIsAsked, At

\* A limit that has been defaulted once is not changed again.
LEMMA DefaultOnce ==
    ASSUME NEW columns, NEW limit, ValidControls(columns, limit)
    PROVE  DefaultLimit(limit) = limit /\ limit \in 1..MaxRows
  BY LimitsAssumption DEF ValidControls, DefaultLimit

LEMMA ControlsSteps ==
    ASSUME Inv, (\E q \in Requests : StartSelect(q)) \/ Controls
    PROVE  Inv'
  <1>1. ASSUME NEW q \in Requests, StartSelect(q) PROVE Inv'
    <2>1. /\ IsCall(call)' /\ call'.op = "select" /\ call'.stage = "controls"
          /\ call'.input = q /\ call'.asked = <<>> /\ call'.result = Empty
          /\ call'.limit = q.limit /\ call'.pass = 0 /\ call'.verdict = "None"
      BY <1>1 DEF StartSelect, IsCall, Idle
    <2> QED BY <2>1, EmptyWalk
            DEF Inv, WalkInv, WalkIsBounded, ValidationInv, RequestInv, OtherInv,
                VerdictIsJustified, StatementIsAsked, At
  <1>2. CASE Controls
    <2> DEFINE limit == DefaultLimit(call.limit)
               columns == call.input.columns
    <2>1. /\ IsCall(call) /\ call.op = "select" /\ call.stage = "controls" /\ WalkInv
          /\ call.input \in Requests /\ call.verdict = "None" /\ call.result = Empty
          /\ call.pass \in 0..2
          /\ call.pass = 0 => call.limit = call.input.limit
          /\ call.pass > 0 => /\ call.limit = DefaultLimit(call.input.limit)
                              /\ ValidControls(columns, call.limit)
          /\ call.pass > 1 => columns = <<>> \/ call.input.schema # {}
      BY <1>2 DEF Inv, RequestInv, Controls, At
    <2>2. limit = DefaultLimit(call.input.limit)
      BY <2>1, DefaultOnce
    <2>3. call.pass > 0 => ValidControls(columns, limit)
      BY <2>1, DefaultOnce
    <2> HIDE DEF limit
    <2>4. CASE ~ValidControls(columns, limit)
      <3>1. RefuseQuery("InvalidControls")
        BY <1>2, <2>4 DEF Controls, limit
      <3>2. call.pass = 0
        BY <2>1, <2>3, <2>4
      <3> QED BY <2>1, <3>1, <3>2, RefusalKeeps
    <2>5. CASE /\ ValidControls(columns, limit)
               /\ call.pass = 1 /\ columns # <<>> /\ call.input.schema = {}
      <3>1. RefuseQuery("NoSchema")
        BY <1>2, <2>5 DEF Controls, limit
      <3> QED BY <2>1, <3>1, RefusalKeeps
    <2>6. CASE /\ ValidControls(columns, limit)
               /\ ~(call.pass = 1 /\ columns # <<>> /\ call.input.schema = {})
      <3> DEFINE stage == IF call.pass = 2 THEN "sql" ELSE "controls"
                 pass == call.pass + 1
      <3>1. call' = [call EXCEPT !.limit = limit, !.pass = pass, !.stage = stage]
        BY <1>2, <2>6 DEF Controls, limit
      <3>2. /\ stage = "controls" => pass \in 1..2
            /\ stage = "sql" => pass = 3
            /\ stage \in {"controls", "sql"} /\ pass # 0 /\ pass > 0
            /\ pass > 1 => columns = <<>> \/ call.input.schema # {}
        BY <2>1, <2>6
      <3> HIDE DEF stage, pass
      <3>3. /\ IsCall(call)' /\ call'.op = "select" /\ call'.stage = stage
            /\ call'.input = call.input /\ call'.asked = call.asked /\ call'.result = Empty
            /\ call'.limit = limit /\ call'.pass = pass /\ call'.verdict = "None"
        BY <2>1, <3>1 DEF IsCall
      <3>4. RequestInv'
        BY <2>1, <2>2, <2>6, <3>2, <3>3 DEF RequestInv, At
      <3>5. WalkInv'
        BY <2>1, <3>3 DEF WalkInv, WalkIsBounded
      <3> QED BY <3>2, <3>3, <3>4, <3>5
              DEF Inv, ValidationInv, OtherInv, VerdictIsJustified,
                  StatementIsAsked, At
    <2> QED BY <2>4, <2>5, <2>6
  <1> QED BY <1>1, <1>2

\* The first faulty column is a faulty column.
LEMMA MinIsMember ==
    ASSUME NEW S, S \subseteq Nat, S # {}
    PROVE  Min(S) \in S
  <1>1. \E x \in S : \A y \in S : x <= y
    <2>1. PICK x \in S : \A y \in S : ~(<<y, x>> \in OpToRel(<, Nat))
      BY NatLessThanWellFounded, WFMin
    <2>2. \A y \in S : ~(y < x)
      BY <2>1 DEF OpToRel
    <2> QED BY <2>2
  <1> QED BY <1>1 DEF Min

\* Of a request whose controls are in order only the schema is left to refuse.
LEMMA SelectStep ==
    ASSUME Inv, SelectTableSQL
    PROVE  Inv'
  <1> DEFINE columns == call.input.columns
             foreign(i) == call.input.schema # {} /\ columns[i] \notin call.input.schema
             twice(i) == \E j \in 1..(i - 1) : columns[j] = columns[i]
             faulty == {i \in DOMAIN columns : columns[i] = Bad \/ foreign(i) \/ twice(i)}
  <1>1. /\ IsCall(call) /\ call.op = "select" /\ call.stage = "sql" /\ WalkInv
        /\ call.input \in Requests /\ call.verdict = "None" /\ call.result = Empty
        /\ call.pass = 3 /\ call.limit = DefaultLimit(call.input.limit)
        /\ ValidControls(columns, call.limit)
        /\ columns = <<>> \/ call.input.schema # {}
    BY DEF Inv, RequestInv, SelectTableSQL, At
  <1>2. /\ columns \in Seq(ToSet(columns)) /\ Len(columns) \in Nat
        /\ DOMAIN columns = 1..Len(columns)
    BY <1>1, InputsAssumption
  <1>3. /\ call.limit \in 1..MaxRows /\ Len(columns) <= MaxColumns
        /\ IsInjective(columns)
        /\ \A i \in DOMAIN columns : columns[i] # Bad
    BY <1>1, <1>2 DEF ValidControls, Contains
  <1>4. ~(call.limit \notin 1..MaxRows \/ Len(columns) > MaxColumns)
    BY <1>2, <1>3, LimitsAssumption
  <1>5. \A i \in DOMAIN columns : ~twice(i)
    <2> SUFFICES ASSUME NEW i \in 1..Len(columns), NEW j \in 1..(i - 1),
                        columns[j] = columns[i]
                 PROVE  FALSE
      BY <1>2
    <2>1. j \in 1..Len(columns) /\ j # i
      BY <1>2
    <2>2. \A a, b \in 1..Len(columns) : columns[a] = columns[b] => a = b
      BY <1>2, <1>3 DEF IsInjective
    <2> QED BY <2>1, <2>2
  <1>6. CASE faulty = {}
    <2> DEFINE result == [Empty EXCEPT !.columns = columns]
    <2>1. call' = [call EXCEPT !.stage = "done", !.result = result]
      BY <1>1, <1>4, <1>6 DEF SelectTableSQL, IsCall
    <2>2. result.columns = columns
      BY DEF Empty
    <2>3. ToSet(columns) \subseteq call.input.schema
      BY <1>1, <1>2, <1>6 DEF ToSet
    <2> HIDE DEF result
    <2>4. /\ IsCall(call)' /\ call'.op = "select" /\ call'.stage = "done"
          /\ call'.input = call.input /\ call'.asked = call.asked /\ call'.result = result
          /\ call'.limit = call.limit /\ call'.verdict = "None"
      BY <1>1, <2>1 DEF IsCall
    <2>5. StatementIsAsked'
      BY <1>1, <1>3, <2>2, <2>3, <2>4 DEF StatementIsAsked, DefaultLimit
    <2> QED BY <1>1, <2>4, <2>5
            DEF Inv, WalkInv, WalkIsBounded, ValidationInv, RequestInv, OtherInv,
                VerdictIsJustified, At
  <1>7. CASE faulty # {}
    <2> DEFINE first == Min(faulty)
    <2>0. faulty \subseteq Nat
      BY <1>2
    <2>1. first \in faulty
      <3> HIDE DEF faulty
      <3> QED BY <1>7, <2>0, MinIsMember
    <2>2. columns[first] # Bad /\ foreign(first)
      BY <1>3, <1>5, <2>1
    <2>3. RefuseQuery("NotInSchema")
      BY <1>4, <1>7, <2>2 DEF SelectTableSQL
    <2> QED BY <1>1, <2>3, RefusalKeeps
  <1> QED BY <1>6, <1>7
-----------------------------------------------------------------------------
(***************************************************************************)
(* Results: the properties so far say nothing of them.                     *)
(***************************************************************************)
LEMMA ResultStarts ==
    ASSUME Inv,
           \/ \E op \in {"action", "mcp"} : \/ \E x \in Responses : StartQuery(op, x)
                                            \/ \E s \in Statuses : StatementFails(op, s)
           \/ \E v \in Inventories : StartList(v)
    PROVE  Inv'
  <1>1. ASSUME NEW op \in {"action", "mcp"}, NEW x \in Responses, StartQuery(op, x) PROVE Inv'
    <2>1. IsCall(call)' /\ call'.op = op /\ call'.stage = "bound" /\ call'.asked = <<>>
      BY <1>1 DEF StartQuery, IsCall, Idle
    <2> QED BY <2>1, EmptyWalk, NoClaim DEF WalkInv, WalkIsBounded, OtherInv, At
  <1>2. ASSUME NEW op \in {"action", "mcp"}, NEW status, StatementFails(op, status) PROVE Inv'
    <2>1. IsCall(call)' /\ call'.op = op /\ call'.stage = "failed" /\ call'.asked = <<>>
      BY <1>2 DEF StatementFails, IsCall, Idle
    <2> QED BY <2>1, EmptyWalk, NoClaim DEF WalkInv, WalkIsBounded, OtherInv, At
  <1>3. ASSUME NEW v, StartList(v) PROVE Inv'
    <2>1. IsCall(call)' /\ call'.op = "list" /\ call'.stage = "trim" /\ call'.asked = <<>>
      BY <1>3 DEF StartList, IsCall, Idle
    <2> QED BY <2>1, EmptyWalk, NoClaim DEF WalkInv, WalkIsBounded, OtherInv, At
  <1> QED BY <1>1, <1>2, <1>3

LEMMA ResultSteps ==
    ASSUME Inv, Bound \/ Wrap \/ Trim
    PROVE  Inv'
  <1>1. IsCall(call) /\ WalkInv
    BY DEF Inv
  <1>2. CASE Bound
    <2>1. call.op \in {"action", "mcp"} /\ call.stage = "bound"
      BY <1>2 DEF Inv, OtherInv, Bound, At
    <2>2. /\ IsCall(call)' /\ call'.op = call.op /\ call'.asked = call.asked
          /\ call'.stage \in {"bound", "wrap"}
      BY <1>1, <1>2, <2>1 DEF Bound, IsCall
    <2> QED BY <1>1, <2>1, <2>2, NoClaim DEF WalkInv, WalkIsBounded, OtherInv, At
  <1>3. CASE Wrap
    <2>1. call.op \in {"action", "mcp"} /\ call.stage = "wrap"
      BY <1>3 DEF Inv, OtherInv, Wrap, At
    <2>2. /\ IsCall(call)' /\ call'.op = call.op /\ call'.asked = call.asked
          /\ call'.stage \in {"wrap", "done", "failed"}
      BY <1>1, <1>3, <2>1 DEF Wrap, Goto, IsCall
    <2> QED BY <1>1, <2>1, <2>2, NoClaim DEF WalkInv, WalkIsBounded, OtherInv, At
  <1>4. CASE Trim
    <2>1. call.op = "list" /\ call.stage = "trim"
      BY <1>4 DEF Inv, OtherInv, Trim, At
    <2>2. /\ IsCall(call)' /\ call'.op = call.op /\ call'.asked = call.asked
          /\ call'.stage \in {"trim", "done"}
      BY <1>1, <1>4, <2>1 DEF Trim, Goto, IsCall
    <2> QED BY <1>1, <2>1, <2>2, NoClaim DEF WalkInv, WalkIsBounded, OtherInv, At
  <1> QED BY <1>2, <1>3, <1>4
-----------------------------------------------------------------------------
LEMMA InvStep ==
    ASSUME Inv, [Next]_call
    PROVE  Inv'
  <1>1. CASE Start
    BY <1>1, ConnectionSteps, WarehouseSteps, DiscoverySteps, ControlsSteps, StartTableStep,
       ResultStarts DEF Start
  <1>2. CASE Advance
    BY <1>2, ConnectionSteps, WarehouseSteps, TableSteps, DiscoverySteps, ControlsSteps,
       SelectStep, ResultSteps, ReturnStep DEF Advance
  <1>3. CASE UNCHANGED call
    BY <1>3 DEF Inv, IsCall, WalkInv, WalkIsBounded, ValidationInv, RequestInv, OtherInv,
         VerdictIsJustified, StatementIsAsked, At
  <1> QED BY <1>1, <1>2, <1>3 DEF Next
-----------------------------------------------------------------------------
(***************************************************************************)
(* Folds.  The induction principles are stated for sets, and the existence *)
(* of a fold for a step that is a function.                                *)
(***************************************************************************)
\* Induction over the natural numbers.
LEMMA CountingUp ==
    ASSUME NEW S, 0 \in S, \A n \in Nat : n \in S => n + 1 \in S
    PROVE  Nat \subseteq S
  <1> SUFFICES ASSUME Nat \ S # {} PROVE FALSE
    OBVIOUS
  <1>1. PICK x \in Nat \ S : \A y \in Nat \ S : ~(<<y, x>> \in OpToRel(<, Nat))
    BY NatLessThanWellFounded, WFMin
  <1>2. \A y \in Nat \ S : ~(y < x)
    BY <1>1 DEF OpToRel
  <1>3. x - 1 \in Nat /\ x - 1 \notin Nat \ S
    BY <1>2
  <1> QED BY <1>3

LEMMA OneLess ==
    ASSUME NEW s, IsFiniteSet(s), NEW x \in s
    PROVE  Cardinality(s \ {x}) = Cardinality(s) - 1
  BY FS_RemoveElement

\* c says which element of a subset of D goes first.
Picks(c, D) == \A s \in SUBSET D : s # {} => c[s] \in s

\* g is the fold of step over the subsets of D.
IsFold(g, D, c, base, step) ==
    \A s \in SUBSET D : g[s] = IF s = {} THEN base ELSE step[c[s]][g[s \ {c[s]}]]

\* What holds of the empty set, and of a set if it does once c has picked.
Hereditary(T, D, c) ==
    {} \in T /\ \A s \in SUBSET D : s # {} /\ s \ {c[s]} \in T => s \in T

\* Induction over the subsets of a finite set.
LEMMA Emptying ==
    ASSUME NEW D, IsFiniteSet(D), NEW c, Picks(c, D), NEW T, Hereditary(T, D, c)
    PROVE  SUBSET D \subseteq T
  <1> DEFINE S == {n \in Nat : \A s \in SUBSET D : Cardinality(s) = n => s \in T}
  <1>0. \A s \in SUBSET D : IsFiniteSet(s) /\ Cardinality(s) \in Nat
    BY FS_Subset, FS_CardinalityType
  <1>1. 0 \in S
    BY <1>0, FS_EmptySet DEF Hereditary
  <1>2. ASSUME NEW n \in Nat, n \in S PROVE n + 1 \in S
    <2> SUFFICES ASSUME NEW s \in SUBSET D, Cardinality(s) = n + 1 PROVE s \in T
      OBVIOUS
    <2>1. s # {}
      BY FS_EmptySet
    <2>2. IsFiniteSet(s) /\ c[s] \in s
      BY <1>0, <2>1 DEF Picks
    <2>3. Cardinality(s \ {c[s]}) = Cardinality(s) - 1
      BY <2>2, OneLess
    <2>4. Cardinality(s \ {c[s]}) = n
      BY <2>3
    <2> QED BY <1>2, <2>1, <2>4 DEF Hereditary
  <1> HIDE DEF S
  <1>3. Nat \subseteq S
    BY <1>1, <1>2, CountingUp
  <1> QED BY <1>0, <1>3 DEF S

\* A fold over a finite set exists.
LEMMA FoldExists ==
    ASSUME NEW D, IsFiniteSet(D), NEW c, Picks(c, D),
           NEW V, NEW base \in V, NEW step \in [D -> [V -> V]]
    PROVE  \E g \in [SUBSET D -> V] : IsFold(g, D, c, base, step)
  <1> DEFINE Next1(g) == [s \in SUBSET D |-> IF s = {} THEN base ELSE step[c[s]][g[s \ {c[s]}]]]
             Upto(g, n) == \A s \in SUBSET D : Cardinality(s) <= n => g[s] = Next1(g)[s]
             S == {n \in Nat : \E g \in [SUBSET D -> V] : Upto(g, n)}
  <1>0. \A s \in SUBSET D : IsFiniteSet(s) /\ Cardinality(s) \in Nat
    BY FS_Subset, FS_CardinalityType
  <1>1. 0 \in S
    <2> DEFINE g == [s \in SUBSET D |-> base]
    <2>1. g \in [SUBSET D -> V]
      OBVIOUS
    <2>2. \A s \in SUBSET D : Cardinality(s) <= 0 => s = {}
      BY <1>0, FS_EmptySet
    <2>3. Upto(g, 0)
      BY <2>2
    <2> QED BY <2>1, <2>3
  <1>2. ASSUME NEW n \in Nat, n \in S PROVE n + 1 \in S
    <2>1. PICK g \in [SUBSET D -> V] : Upto(g, n)
      BY <1>2
    <2> DEFINE h == Next1(g)
    <2>2. h \in [SUBSET D -> V]
      BY DEF Picks
    <2>3. ASSUME NEW s \in SUBSET D, Cardinality(s) <= n + 1 PROVE h[s] = Next1(h)[s]
      <3>1. CASE s = {}
        BY <3>1
      <3>2. CASE s # {}
        <4> DEFINE t == s \ {c[s]}
        <4>1. t \in SUBSET D /\ Cardinality(t) <= n
          <5>1. IsFiniteSet(s) /\ c[s] \in s
            BY <1>0, <3>2 DEF Picks
          <5>2. Cardinality(t) = Cardinality(s) - 1
            BY <5>1, OneLess
          <5> QED BY <1>0, <2>3, <5>2
        <4>2. g[t] = h[t]
          BY <2>1, <4>1
        <4>3. h[s] = step[c[s]][g[t]]
          BY <3>2
        <4>4. Next1(h)[s] = step[c[s]][h[t]]
          BY <3>2
        <4> QED BY <4>2, <4>3, <4>4
      <3> QED BY <3>1, <3>2
    <2> HIDE DEF h
    <2>4. Upto(h, n + 1)
      BY <2>3
    <2> HIDE DEF Upto
    <2> QED BY <2>2, <2>4
  <1> HIDE DEF S
  <1>3. Cardinality(D) \in S
    BY <1>0, <1>1, <1>2, CountingUp
  <1>4. PICK g \in [SUBSET D -> V] : Upto(g, Cardinality(D))
    BY <1>3 DEF S
  <1>5. \A s \in SUBSET D : Cardinality(s) <= Cardinality(D)
    BY FS_Subset
  <1> QED BY <1>4, <1>5 DEF IsFold

\* The sum of a function to the natural numbers is one.
LEMMA SumIsNat ==
    ASSUME NEW D, IsFiniteSet(D), NEW f \in [D -> Nat]
    PROVE  SumFunction(f) \in Nat /\ (D = {} => SumFunction(f) = 0)
  <1> DEFINE c == [s \in SUBSET D |-> CHOOSE x \in s : TRUE]
             step == [x \in D |-> [v \in Nat |-> f[x] + v]]
             Sums(sum) == sum = [s \in SUBSET D |->
                                   IF s = {} THEN 0
                                   ELSE f[CHOOSE x \in s : TRUE]
                                        + sum[s \ {CHOOSE x \in s : TRUE}]]
             total == CHOOSE sum : Sums(sum)
  <1>1. SumFunction(f) = total[D]
    BY Zenon DEF SumFunction, SumFunctionOnSet, FoldFunctionOnSet, MapThenFoldSet
  <1>2. Picks(c, D)
    BY DEF Picks
  <1>3. 0 \in Nat /\ step \in [D -> [Nat -> Nat]]
    OBVIOUS
  <1>4. PICK g \in [SUBSET D -> Nat] : IsFold(g, D, c, 0, step)
    <2> HIDE DEF c, step
    <2> QED BY <1>2, <1>3, FoldExists
  <1>5. Sums(g)
    <2>1. \A s \in SUBSET D : s # {} => step[c[s]][g[s \ {c[s]}]] = f[c[s]] + g[s \ {c[s]}]
      BY <1>2 DEF Picks
    <2> QED BY <1>4, <2>1 DEF IsFold
  <1>6. Sums(total)
    BY <1>5
  <1> HIDE DEF total
  <1>7. SUBSET D \subseteq {s \in SUBSET D : total[s] \in Nat}
    <2> DEFINE T == {s \in SUBSET D : total[s] \in Nat}
    <2>1. Hereditary(T, D, c)
      <3>1. {} \in T
        BY <1>6
      <3>2. ASSUME NEW s \in SUBSET D, s # {}, s \ {c[s]} \in T PROVE s \in T
        BY <1>2, <1>6, <3>2 DEF Picks
      <3> HIDE DEF T, c
      <3> QED BY <3>1, <3>2 DEF Hereditary
    <2> HIDE DEF T, c
    <2>2. SUBSET D \subseteq T
      BY <1>2, <2>1, Emptying
    <2> QED BY <2>2 DEF T
  <1>8. D = {} => total[D] = 0
    BY <1>6
  <1> QED BY <1>1, <1>7, <1>8

\* The largest element of a bounded set.
LEMMA MaxIsMember ==
    ASSUME NEW n \in Nat, NEW s \in SUBSET (0..n), s # {}
    PROVE  Max(s) \in s /\ \A y \in s : y <= Max(s)
  <1> DEFINE below == {n - x : x \in s}
  <1>0. PICK z \in s : TRUE
    OBVIOUS
  <1>1. below # {} /\ below \subseteq Nat
    <2>1. n - z \in below
      OBVIOUS
    <2>2. \A x \in s : n - x \in Nat
      OBVIOUS
    <2> QED BY <2>1, <2>2
  <1>2. PICK k \in below : \A y \in below : ~(<<y, k>> \in OpToRel(<, Nat))
    BY <1>1, NatLessThanWellFounded, WFMin
  <1>3. \A y \in below : ~(y < k)
    BY <1>1, <1>2 DEF OpToRel
  <1>4. PICK x \in s : k = n - x
    BY <1>2
  <1>5. \A y \in s : y <= x
    <2> SUFFICES ASSUME NEW y \in s PROVE y <= x
      OBVIOUS
    <2>1. n - y \in below
      OBVIOUS
    <2>2. ~(n - y < n - x)
      BY <1>3, <1>4, <2>1
    <2> QED BY <2>2
  <1>6. \E v \in s : \A y \in s : v >= y
    BY <1>5
  <1>7. Max(s) \in s /\ \A y \in s : Max(s) >= y
    BY <1>6 DEF Max
  <1> QED BY <1>7

\* Folds from the left begin with the largest position.
Largests(n) == [s \in SUBSET (1..n) |-> Max(s)]

LEMMA LargestsPick ==
    ASSUME NEW n \in Nat
    PROVE  Picks(Largests(n), 1..n)
  <1> SUFFICES ASSUME NEW s \in SUBSET (1..n), s # {} PROVE Max(s) \in s
    BY DEF Picks, Largests
  <1>1. s \in SUBSET (0..n)
    OBVIOUS
  <1> QED BY <1>1, MaxIsMember

\* A fold from the left goes through the prefixes.
ByPrefix(g, n, base, step) ==
    /\ g[1..0] = base
    /\ \A m \in 1..n : g[1..m] = step[m][g[1..(m - 1)]]

LEMMA PrefixFold ==
    ASSUME NEW n \in Nat, NEW g, NEW base, NEW step,
           IsFold(g, 1..n, Largests(n), base, step)
    PROVE  ByPrefix(g, n, base, step)
  <1>1. 1..0 = {}
    OBVIOUS
  <1>2. g[1..0] = base
    BY <1>1 DEF IsFold
  <1>3. ASSUME NEW m \in 1..n PROVE g[1..m] = step[m][g[1..(m - 1)]]
    <2>1. 1..m \in SUBSET (1..n) /\ 1..m # {} /\ 1..m \in SUBSET (0..n)
      OBVIOUS
    <2>2. Max(1..m) = m
      <3>1. Max(1..m) \in 1..m /\ \A y \in 1..m : y <= Max(1..m)
        BY <2>1, MaxIsMember
      <3> QED BY <3>1
    <2>3. (1..m) \ {m} = 1..(m - 1)
      OBVIOUS
    <2>4. Largests(n)[1..m] = m
      BY <2>1, <2>2 DEF Largests
    <2> QED BY <2>1, <2>3, <2>4 DEF IsFold
  <1> QED BY <1>2, <1>3 DEF ByPrefix

\* Where two functions agree once they agree on what is left to fold, they
\* agree.
LEMMA SameFold ==
    ASSUME NEW n \in Nat, NEW g, NEW h, g[{}] = h[{}],
           \A s \in SUBSET (1..n) :
              s # {} /\ g[s \ {Max(s)}] = h[s \ {Max(s)}] => g[s] = h[s]
    PROVE  g[1..n] = h[1..n]
  <1> DEFINE T == {s \in SUBSET (1..n) : g[s] = h[s]}
  <1>1. Hereditary(T, 1..n, Largests(n))
    <2>1. {} \in T
      OBVIOUS
    <2>2. ASSUME NEW s \in SUBSET (1..n), s # {}, s \ {Largests(n)[s]} \in T PROVE s \in T
      BY <2>2 DEF Largests
    <2> HIDE DEF T
    <2> QED BY <2>1, <2>2 DEF Hereditary
  <1> HIDE DEF T
  <1>2. SUBSET (1..n) \subseteq T
    <2>1. IsFiniteSet(1..n) /\ Picks(Largests(n), 1..n)
      BY LargestsPick, FS_Interval
    <2> QED BY <1>1, <2>1, Emptying
  <1> QED BY <1>2 DEF T

\* There is a fold from the left.
LEMMA LeftFold ==
    ASSUME NEW n \in Nat, NEW V, NEW base \in V, NEW step \in [1..n -> [V -> V]]
    PROVE  \E g \in [SUBSET (1..n) -> V] :
              IsFold(g, 1..n, Largests(n), base, step) /\ ByPrefix(g, n, base, step)
  <1>1. IsFiniteSet(1..n) /\ Picks(Largests(n), 1..n)
    BY LargestsPick, FS_Interval
  <1>2. PICK g \in [SUBSET (1..n) -> V] : IsFold(g, 1..n, Largests(n), base, step)
    BY <1>1, FoldExists
  <1> QED BY <1>2, PrefixFold

\* Distinct, prefix by prefix.
LEMMA DistinctPrefixes ==
    ASSUME NEW N, NEW C \in Seq(N)
    PROVE  \E u \in [0..Len(C) -> Seq(N)] :
              /\ u[0] = <<>>
              /\ \A m \in 1..Len(C) : u[m] = IF Contains(u[m - 1], C[m]) THEN u[m - 1]
                                             ELSE Append(u[m - 1], C[m])
              /\ Distinct(C) = u[Len(C)]
  <1> DEFINE n == Len(C)
             D == DOMAIN C
             Keep(v, x) == IF Contains(v, C[x]) THEN v ELSE Append(v, C[x])
             step == [x \in 1..n |-> [v \in Seq(N) |-> Keep(v, x)]]
             Loop(h) == h = [s \in SUBSET D |-> IF s = {} THEN <<>>
                                                ELSE Keep(h[s \ {Max(s)}], Max(s))]
             total == CHOOSE h : Loop(h)
  <1>1. Distinct(C) = total[D]
    BY Zenon DEF Distinct, FoldLeft, MapThenFoldSet
  <1>2. n \in Nat /\ D = 1..n
    OBVIOUS
  <1>3. <<>> \in Seq(N) /\ step \in [1..n -> [Seq(N) -> Seq(N)]]
    OBVIOUS
  <1>4. PICK g \in [SUBSET (1..n) -> Seq(N)] :
           IsFold(g, 1..n, Largests(n), <<>>, step) /\ ByPrefix(g, n, <<>>, step)
    <2> HIDE DEF step, n
    <2> QED BY <1>2, <1>3, LeftFold
  <1>5. \A s \in SUBSET (1..n) : s # {} => g[s] = Keep(g[s \ {Max(s)}], Max(s))
    <2> SUFFICES ASSUME NEW s \in SUBSET (1..n), s # {}
                 PROVE  g[s] = Keep(g[s \ {Max(s)}], Max(s))
      OBVIOUS
    <2>1. Max(s) \in 1..n /\ Largests(n)[s] = Max(s)
      BY <1>2, LargestsPick DEF Picks, Largests
    <2>2. g[s] = step[Max(s)][g[s \ {Max(s)}]]
      BY <1>4, <2>1 DEF IsFold
    <2>3. g[s \ {Max(s)}] \in Seq(N)
      OBVIOUS
    <2> QED BY <2>1, <2>2, <2>3
  <1>6. Loop(g)
    BY <1>2, <1>4, <1>5 DEF IsFold
  <1>7. Loop(total)
    <2> HIDE DEF Loop
    <2> QED BY <1>6
  <1> HIDE DEF total
  <1>8. total[1..n] = g[1..n]
    <2>1. total[{}] = g[{}]
      BY <1>2, <1>6, <1>7
    <2>2. ASSUME NEW s \in SUBSET (1..n), s # {}, total[s \ {Max(s)}] = g[s \ {Max(s)}]
          PROVE  total[s] = g[s]
      <3>1. total[s] = Keep(total[s \ {Max(s)}], Max(s))
        BY <1>2, <1>7, <2>2
      <3> QED BY <1>5, <2>2, <3>1
    <2> QED BY <1>2, <2>1, <2>2, SameFold
  <1> DEFINE u == [m \in 0..n |-> g[1..m]]
  <1>9. u \in [0..n -> Seq(N)]
    BY <1>2
  <1>10. u[0] = <<>> /\ \A m \in 1..n : u[m] = step[m][u[m - 1]]
    <2> HIDE DEF step, n
    <2>1. g[1..0] = <<>> /\ \A m \in 1..n : g[1..m] = step[m][g[1..(m - 1)]]
      BY <1>4 DEF ByPrefix
    <2>2. u[0] = g[1..0] /\ \A m \in 1..n : u[m] = g[1..m] /\ u[m - 1] = g[1..(m - 1)]
      BY <1>2
    <2> HIDE DEF u
    <2> QED BY <2>1, <2>2
  <1>11. \A m \in 1..n : u[m - 1] \in Seq(N)
    BY <1>2
  <1>12. \A m \in 1..n : u[m] = Keep(u[m - 1], m)
    BY <1>10, <1>11
  <1>13. Distinct(C) = u[n]
    BY <1>1, <1>2, <1>8
  <1> HIDE DEF u
  <1> QED BY <1>9, <1>10, <1>12, <1>13

\* References, prefix by prefix.
LEMMA ReferencesPrefixes ==
    ASSUME NEW inventory \in Inventories
    PROVE  LET n == Smaller(Len(inventory), MaxTables) IN
           /\ n \in Nat
           /\ \E u \in [0..n -> Seq(1..n)] :
                /\ u[0] = <<>>
                /\ \A m \in 1..n : u[m] = IF inventory[m].ok THEN Append(u[m - 1], m)
                                           ELSE u[m - 1]
                /\ References(inventory) = u[n]
  <1> DEFINE n == Smaller(Len(inventory), MaxTables)
             P == [i \in 1..n |-> i]
             D == DOMAIN P
             Keep(v, x) == IF inventory[x].ok THEN Append(v, x) ELSE v
             step == [x \in 1..n |-> [v \in Seq(1..n) |-> Keep(v, x)]]
             Loop(h) == h = [s \in SUBSET D |-> IF s = {} THEN <<>>
                                                ELSE Keep(h[s \ {Max(s)}], P[Max(s)])]
             total == CHOOSE h : Loop(h)
  <1>1. References(inventory) = total[D]
    BY Zenon DEF References, FoldLeft, MapThenFoldSet
  <1>2. n \in Nat /\ D = 1..n
    BY InputsAssumption, LimitsAssumption DEF Smaller
  <1>3. <<>> \in Seq(1..n) /\ step \in [1..n -> [Seq(1..n) -> Seq(1..n)]]
    <2> HIDE DEF n
    <2>1. ASSUME NEW S, NEW x \in S, NEW v \in Seq(S) PROVE Keep(v, x) \in Seq(S)
      OBVIOUS
    <2>2. \A x \in 1..n, v \in Seq(1..n) : Keep(v, x) \in Seq(1..n)
      BY <2>1
    <2> HIDE DEF Keep
    <2> QED BY <2>2
  <1>4. PICK g \in [SUBSET (1..n) -> Seq(1..n)] :
           IsFold(g, 1..n, Largests(n), <<>>, step) /\ ByPrefix(g, n, <<>>, step)
    <2> HIDE DEF step, n
    <2> QED BY <1>2, <1>3, LeftFold
  <1> HIDE DEF n
  <1>5. \A s \in SUBSET (1..n) : s # {} => Max(s) \in 1..n /\ g[s] = Keep(g[s \ {Max(s)}], Max(s))
    <2> SUFFICES ASSUME NEW s \in SUBSET (1..n), s # {}
                 PROVE  Max(s) \in 1..n /\ g[s] = Keep(g[s \ {Max(s)}], Max(s))
      OBVIOUS
    <2>1. Max(s) \in 1..n /\ Largests(n)[s] = Max(s)
      BY <1>2, LargestsPick DEF Picks, Largests
    <2>2. g[s] = step[Max(s)][g[s \ {Max(s)}]]
      BY <1>4, <2>1 DEF IsFold
    <2>3. g[s \ {Max(s)}] \in Seq(1..n)
      OBVIOUS
    <2> QED BY <2>1, <2>2, <2>3
  <1>6. Loop(g)
    BY <1>2, <1>4, <1>5 DEF IsFold
  <1>7. Loop(total)
    <2> HIDE DEF Loop
    <2> QED BY <1>6
  <1> HIDE DEF total
  <1>8. total[1..n] = g[1..n]
    <2>1. total[{}] = g[{}]
      BY <1>2, <1>6, <1>7
    <2>2. ASSUME NEW s \in SUBSET (1..n), s # {}, total[s \ {Max(s)}] = g[s \ {Max(s)}]
          PROVE  total[s] = g[s]
      <3>1. total[s] = Keep(total[s \ {Max(s)}], P[Max(s)])
        BY <1>2, <1>7, <2>2
      <3>2. P[Max(s)] = Max(s)
        BY <1>5, <2>2
      <3>3. g[s] = Keep(g[s \ {Max(s)}], Max(s))
        BY <1>5, <2>2
      <3> HIDE DEF P, Keep
      <3> QED BY <2>2, <3>1, <3>2, <3>3
    <2> QED BY <1>2, <2>1, <2>2, SameFold
  <1> DEFINE u == [m \in 0..n |-> g[1..m]]
  <1>9. u \in [0..n -> Seq(1..n)]
    BY <1>2
  <1>10. u[0] = <<>> /\ \A m \in 1..n : u[m] = step[m][u[m - 1]]
    <2> HIDE DEF step
    <2>1. g[1..0] = <<>> /\ \A m \in 1..n : g[1..m] = step[m][g[1..(m - 1)]]
      BY <1>4 DEF ByPrefix
    <2>2. u[0] = g[1..0] /\ \A m \in 1..n : u[m] = g[1..m] /\ u[m - 1] = g[1..(m - 1)]
      BY <1>2
    <2> HIDE DEF u
    <2> QED BY <2>1, <2>2
  <1>11. \A m \in 1..n : u[m - 1] \in Seq(1..n)
    BY <1>2
  <1>12. \A m \in 1..n : u[m] = Keep(u[m - 1], m)
    BY <1>10, <1>11
  <1>13. References(inventory) = u[n]
    BY <1>1, <1>2, <1>8
  <1> HIDE DEF u
  <1> QED BY <1>2, <1>9, <1>10, <1>12, <1>13 DEF n

(***************************************************************************)
(* The columns of a result: positions, and the order they are counted in.  *)
(***************************************************************************)
Increasing(f) == \A i, j \in DOMAIN f : i < j => f[i] < f[j]

LEMMA PositionsFinite ==
    ASSUME NEW n \in Nat, NEW A \in SUBSET (1..n)
    PROVE  IsFiniteSet(A) /\ Cardinality(A) \in Nat
  <1>1. IsFiniteSet(1..n)
    BY FS_Interval
  <1>2. IsFiniteSet(A)
    BY <1>1, FS_Subset
  <1> QED BY <1>2, FS_CardinalityType

\* A set of positions can be counted in order ...
LEMMA CountedInOrder ==
    ASSUME NEW n \in Nat, NEW A \in SUBSET (1..n)
    PROVE  \E f \in [1..Cardinality(A) -> A] : Increasing(f)
  <1> DEFINE Counted(B) == \E f \in [1..Cardinality(B) -> B] : Increasing(f)
             S == {m \in Nat : \A B \in SUBSET (1..m) : Counted(B)}
  <1>1. 0 \in S
    <2> SUFFICES ASSUME NEW B \in SUBSET (1..0) PROVE Counted(B)
      OBVIOUS
    <2>0. 1..0 = {}
      OBVIOUS
    <2>1. B = {} /\ Cardinality(B) = 0
      BY <2>0, FS_EmptySet
    <2>2. [i \in {} |-> 0] \in [1..0 -> B] /\ Increasing([i \in {} |-> 0])
      BY DEF Increasing
    <2> QED BY <2>1, <2>2
  <1>2. ASSUME NEW m \in Nat, m \in S PROVE m + 1 \in S
    <2> SUFFICES ASSUME NEW B \in SUBSET (1..(m + 1)) PROVE Counted(B)
      OBVIOUS
    <2>1. CASE m + 1 \notin B
      <3>1. B \in SUBSET (1..m)
        BY <2>1
      <3> QED BY <1>2, <3>1
    <2>2. CASE m + 1 \in B
      <3> DEFINE R == B \ {m + 1}
                 k == Cardinality(R)
      <3>1. R \in SUBSET (1..m)
        OBVIOUS
      <3>2. IsFiniteSet(B) /\ IsFiniteSet(R)
        BY <3>1, PositionsFinite
      <3>3. k \in Nat /\ Cardinality(B) \in Nat
        BY <3>2, FS_CardinalityType
      <3>4. Cardinality(B) = k + 1
        <4>1. k = Cardinality(B) - 1
          BY <2>2, <3>2, OneLess
        <4> QED BY <3>3, <4>1
      <3>5. PICK f \in [1..k -> R] : Increasing(f)
        BY <1>2, <3>1
      <3> HIDE DEF k
      <3> DEFINE g == [i \in 1..(k + 1) |-> IF i <= k THEN f[i] ELSE m + 1]
      <3>6. g \in [1..Cardinality(B) -> B]
        BY <2>2, <3>3, <3>4
      <3>7. Increasing(g)
        <4> SUFFICES ASSUME NEW i \in 1..(k + 1), NEW j \in 1..(k + 1), i < j PROVE g[i] < g[j]
          BY DEF Increasing
        <4>0. i \in 1..k
          BY <3>3
        <4>1. i \in 1..k /\ g[i] = f[i] /\ f[i] \in 1..m
          <5>1. f[i] \in R
            BY <4>0
          <5>2. g[i] = f[i]
            BY <3>3, <4>0
          <5> QED BY <3>1, <4>0, <5>1, <5>2
        <4>2. CASE j <= k
          BY <3>3, <3>5, <4>1, <4>2 DEF Increasing
        <4>3. CASE ~(j <= k)
          BY <3>3, <4>1, <4>3
        <4> QED BY <4>2, <4>3
      <3> HIDE DEF g
      <3> QED BY <3>6, <3>7
    <2> QED BY <2>1, <2>2
  <1> HIDE DEF S
  <1>3. n \in S
    BY <1>1, <1>2, CountingUp
  <1> QED BY <1>3 DEF S

\* ... and whoever counts it in order misses none.
LEMMA NoneMissed ==
    ASSUME NEW n \in Nat, NEW A \in SUBSET (1..n), NEW f \in [1..Cardinality(A) -> A], Increasing(f)
    PROVE  /\ Cardinality(A) \in Nat
           /\ \A a \in A : \E i \in 1..Cardinality(A) : f[i] = a
  <1> DEFINE k == Cardinality(A)
             B == {f[i] : i \in 1..k}
  <1>1. IsFiniteSet(A) /\ k \in Nat
    BY PositionsFinite
  <1> HIDE DEF k
  <1>2. B \in SUBSET A
    BY DEF k
  <1>3. f \in [1..k -> A]
    BY DEF k
  <1>4. \A i, j \in 1..k : f[i] = f[j] => i = j
    <2> SUFFICES ASSUME NEW i \in 1..k, NEW j \in 1..k, f[i] = f[j], i # j PROVE FALSE
      OBVIOUS
    <2>1. f[i] \in 1..n /\ f[j] \in 1..n
      BY <1>3
    <2>2. i < j \/ j < i
      BY <1>1
    <2>3. f[i] < f[j] \/ f[j] < f[i]
      BY <1>3, <2>2 DEF Increasing
    <2> QED BY <2>1, <2>3
  <1>5. f \in Bijection(1..k, B)
    <2>1. f \in [1..k -> B]
      BY <1>3
    <2>2. IsInjective(f)
      BY <1>3, <1>4 DEF IsInjective
    <2>3. \A b \in B : \E i \in 1..k : f[i] = b
      OBVIOUS
    <2> HIDE DEF B
    <2> QED BY <2>1, <2>2, <2>3 DEF Bijection, Injection, Surjection
  <1>6. Cardinality(B) = k
    <2> HIDE DEF B
    <2> QED BY <1>1, <1>5, FS_CountingElements DEF ExistsBijection
  <1>7. B = A
    <2> HIDE DEF B
    <2> QED BY <1>1, <1>2, <1>6, FS_Subset DEF k
  <1>8. \A a \in A : \E i \in 1..k : f[i] = a
    BY <1>7
  <1> QED BY <1>1, <1>8 DEF k

\* The positions of the columns that stay.
Firsts(C) == {p \in DOMAIN C : \A q \in 1..(p - 1) : C[q] # C[p]}

\* F counts the positions in A in their order.
InOrder(F, A) ==
    /\ Len(F) \in Nat /\ F \in [1..Len(F) -> A] /\ Increasing(F)
    /\ \A a \in A : \E i \in 1..Len(F) : F[i] = a

LEMMA FirstPositionsInOrder ==
    ASSUME NEW x \in Responses
    PROVE  /\ InOrder(FirstPositions(x), Firsts(x.columns))
           /\ Len(FirstPositions(x)) <= Len(x.columns)
           /\ Len(FirstPositions(x)) = Len(x.columns) => Firsts(x.columns) = 1..Len(x.columns)
  <1> DEFINE A == Firsts(x.columns)
             F == FirstPositions(x)
             n == Len(x.columns)
  <1>1. n \in Nat /\ A \in SUBSET (1..n)
    BY InputsAssumption DEF Firsts
  <1>2. \E f \in [1..Cardinality(A) -> A] : Increasing(f)
    <2> HIDE DEF A, n
    <2> QED BY <1>1, CountedInOrder
  <1>3. F = CHOOSE f \in [1..Cardinality(A) -> A] : \A i, j \in DOMAIN f : i < j => f[i] < f[j]
    BY DEF FirstPositions, Firsts
  <1> HIDE DEF A, n, F
  <1>4. F \in [1..Cardinality(A) -> A] /\ Increasing(F)
    BY <1>2, <1>3 DEF Increasing
  <1>5. Cardinality(A) \in Nat /\ \A a \in A : \E i \in 1..Cardinality(A) : F[i] = a
    BY <1>1, <1>4, NoneMissed
  <1>6. Len(F) = Cardinality(A)
    BY <1>4, <1>5
  <1>7. Cardinality(A) <= n /\ (Cardinality(A) = n => A = 1..n)
    <2>1. IsFiniteSet(1..n) /\ Cardinality(1..n) = n
      BY <1>1, FS_Interval
    <2> QED BY <1>1, <2>1, FS_Subset
  <1>8. InOrder(F, A)
    BY <1>4, <1>5, <1>6 DEF InOrder
  <1> QED BY <1>6, <1>7, <1>8 DEF A, F, n

\* Every name has a first position.
LEMMA FirstOfName ==
    ASSUME NEW N, NEW C \in Seq(N), NEW p \in DOMAIN C
    PROVE  \E q \in Firsts(C) : q <= p /\ C[q] = C[p]
  <1> DEFINE same == {q \in DOMAIN C : C[q] = C[p]}
  <1>1. same \subseteq Nat /\ p \in same
    OBVIOUS
  <1>2. PICK q \in same : \A r \in same : ~(<<r, q>> \in OpToRel(<, Nat))
    BY <1>1, NatLessThanWellFounded, WFMin
  <1>3. \A r \in same : ~(r < q)
    BY <1>1, <1>2 DEF OpToRel
  <1>4. q \in Firsts(C)
    <2> SUFFICES ASSUME NEW r \in 1..(q - 1), C[r] = C[q] PROVE FALSE
      BY DEF Firsts
    <2>1. r \in same /\ r < q
      OBVIOUS
    <2> QED BY <1>3, <2>1
  <1>5. q <= p
    BY <1>1, <1>3
  <1> QED BY <1>4, <1>5

\* Distinct is the columns at the first positions.
LEMMA DistinctIsFirsts ==
    ASSUME NEW N, NEW C \in Seq(N), NEW F, InOrder(F, Firsts(C))
    PROVE  Distinct(C) = [j \in 1..Len(F) |-> C[F[j]]]
  <1> DEFINE n == Len(C)
             k == Len(F)
             part(c) == [j \in 1..c |-> C[F[j]]]
  <1>0. k \in Nat /\ n \in Nat /\ \A j \in 1..k : F[j] \in 1..n /\ F[j] \in Firsts(C)
    <2>1. Firsts(C) \subseteq 1..n
      BY DEF Firsts
    <2>2. k \in Nat /\ F \in [1..k -> Firsts(C)]
      BY DEF InOrder
    <2>3. n \in Nat
      OBVIOUS
    <2> HIDE DEF n, k
    <2> QED BY <2>1, <2>2, <2>3
  <1>1. PICK u \in [0..n -> Seq(N)] :
          /\ u[0] = <<>>
          /\ \A m \in 1..n : u[m] = IF Contains(u[m - 1], C[m]) THEN u[m - 1]
                                    ELSE Append(u[m - 1], C[m])
          /\ Distinct(C) = u[n]
    BY DistinctPrefixes
  <1> DEFINE Upto(m, c) == /\ \A j \in 1..k : F[j] <= m <=> j <= c
                           /\ u[m] = part(c)
             S == {m \in Nat : m <= n => \E c \in 0..k : Upto(m, c)}
  <1>2. 0 \in S
    <2>1. \A j \in 1..k : F[j] <= 0 <=> j <= 0
      BY <1>0
    <2>2. u[0] = part(0)
      BY <1>1
    <2> QED BY <1>0, <2>1, <2>2
  <1>3. ASSUME NEW m \in Nat, m \in S PROVE m + 1 \in S
    <2> HIDE DEF Upto
    <2> SUFFICES ASSUME m + 1 <= n PROVE \E c \in 0..k : Upto(m + 1, c)
      OBVIOUS
    <2>0. m + 1 \in 1..n /\ m \in 0..n /\ m <= n
      BY <1>0
    <2>1. PICK c \in 0..k : Upto(m, c)
      BY <1>3, <2>0
    <2> USE DEF Upto
    <2>2. u[m + 1] = IF Contains(u[m], C[m + 1]) THEN u[m] ELSE Append(u[m], C[m + 1])
      BY <1>0, <1>1, <2>0
    <2>3. Len(part(c)) = c /\ part(c) \in Seq(N)
      BY <1>0
    <2>4. CASE m + 1 \in Firsts(C)
      <3>1. PICK j \in 1..k : F[j] = m + 1
        BY <2>4 DEF InOrder
      <3>2. j = c + 1
        <4>1. ~(j <= c)
          BY <2>1, <3>1
        <4>2. ASSUME c + 1 < j PROVE FALSE
          <5>1. c + 1 \in 1..k
            BY <1>0, <3>1, <4>2
          <5>2. F[c + 1] < F[j]
            BY <3>1, <4>2, <5>1 DEF InOrder, Increasing
          <5>3. F[c + 1] <= m
            BY <1>0, <3>1, <5>1, <5>2
          <5> QED BY <2>1, <5>1, <5>3
        <4> QED BY <1>0, <4>1, <4>2
      <3>3. \A i \in 1..k : F[i] <= m + 1 <=> i <= c + 1
        <4> SUFFICES ASSUME NEW i \in 1..k PROVE F[i] <= m + 1 <=> i <= c + 1
          OBVIOUS
        <4>1. CASE i <= c + 1
          <5>1. i <= c \/ i = j
            BY <3>2, <4>1
          <5> QED BY <1>0, <2>1, <3>1, <4>1, <5>1
        <4>2. CASE ~(i <= c + 1)
          <5>1. F[j] < F[i]
            BY <3>1, <3>2, <4>2 DEF InOrder, Increasing
          <5> QED BY <1>0, <3>1, <4>2, <5>1
        <4> QED BY <4>1, <4>2
      <3>4. ~Contains(u[m], C[m + 1])
        <4> SUFFICES ASSUME NEW i \in 1..c, part(c)[i] = C[m + 1] PROVE FALSE
          BY <2>1, <2>3 DEF Contains
        <4>1. i \in 1..k /\ F[i] <= m
          BY <1>0, <2>1
        <4>2. F[i] \in 1..m /\ C[F[i]] = C[m + 1]
          BY <1>0, <4>1
        <4> QED BY <2>4, <4>2 DEF Firsts
      <3>5. u[m + 1] = part(c + 1)
        <4>1. u[m + 1] = Append(part(c), C[m + 1])
          BY <2>1, <2>2, <3>4
        <4>2. C[F[c + 1]] = C[m + 1]
          BY <3>1, <3>2
        <4>3. Append(part(c), C[m + 1]) = part(c + 1)
          BY <1>0, <2>3, <4>2
        <4> QED BY <4>1, <4>3
      <3>6. c + 1 \in 0..k
        BY <3>1, <3>2
      <3> QED BY <3>3, <3>5, <3>6
    <2>5. CASE m + 1 \notin Firsts(C)
      <3>1. PICK q \in Firsts(C) : q <= m + 1 /\ C[q] = C[m + 1]
        BY <2>0, FirstOfName
      <3>2. q <= m
        BY <2>0, <2>5, <3>1 DEF Firsts
      <3>3. PICK j \in 1..k : F[j] = q
        BY <3>1 DEF InOrder
      <3>4. j <= c
        BY <2>1, <3>2, <3>3
      <3>5. Contains(u[m], C[m + 1])
        <4>1. j \in 1..c /\ part(c)[j] = C[m + 1]
          BY <3>1, <3>3, <3>4
        <4> QED BY <2>1, <2>3, <4>1 DEF Contains
      <3>6. u[m + 1] = part(c)
        BY <2>1, <2>2, <3>5
      <3>7. \A i \in 1..k : F[i] <= m + 1 <=> i <= c
        <4> SUFFICES ASSUME NEW i \in 1..k PROVE F[i] <= m + 1 <=> i <= c
          OBVIOUS
        <4>1. F[i] # m + 1
          BY <1>0, <2>5
        <4>2. F[i] <= m + 1 <=> F[i] <= m
          BY <1>0, <4>1
        <4> QED BY <2>1, <4>2
      <3> QED BY <3>6, <3>7
    <2> QED BY <2>4, <2>5
  <1> HIDE DEF S
  <1>4. n \in S
    BY <1>0, <1>2, <1>3, CountingUp
  <1>5. PICK c \in 0..k : Upto(n, c)
    BY <1>0, <1>4 DEF S
  <1>6. c = k
    <2>1. \A j \in 1..k : j <= c
      BY <1>0, <1>5
    <2> QED BY <1>0, <2>1
  <1> QED BY <1>1, <1>5, <1>6
\* Where no name comes twice all columns stay.
LEMMA DistinctStays ==
    ASSUME NEW N, NEW C \in Seq(N), Firsts(C) = 1..Len(C)
    PROVE  Distinct(C) = C
  <1> DEFINE F == [j \in 1..Len(C) |-> j]
  <1>1. Len(C) \in Nat /\ Len(F) = Len(C)
    OBVIOUS
  <1>2. InOrder(F, Firsts(C))
    BY <1>1 DEF InOrder, Increasing
  <1>3. Distinct(C) = [j \in 1..Len(F) |-> C[F[j]]]
    <2> HIDE DEF F
    <2> QED BY <1>2, DistinctIsFirsts
  <1>4. \A j \in 1..Len(C) : F[j] = j
    OBVIOUS
  <1>5. [j \in 1..Len(F) |-> C[F[j]]] = [j \in 1..Len(C) |-> C[j]]
    BY <1>1, <1>4
  <1>6. C = [j \in 1..Len(C) |-> C[j]]
    OBVIOUS
  <1> QED BY <1>3, <1>5, <1>6

(***************************************************************************)
(* Parts of a result.                                                      *)
(***************************************************************************)
Cols(x, k) == [j \in 1..k |-> x.columns[FirstPositions(x)[j]]]

RowOf(x, i, k) == [name \in ToSet(Cols(x, k)) |-> CellOf(x, i, name)]

LossyPart(x, n, k) ==
    \/ Lossy(x) \/ n < Len(x.rows) \/ k < Len(FirstPositions(x))

LEMMA Element ==
    ASSUME NEW S, NEW s \in Seq(S), NEW i \in 1..Len(s)
    PROVE  s[i] \in S
  OBVIOUS

LEMMA PartIs ==
    ASSUME NEW x, NEW n, NEW k
    PROVE  Part(x, n, k) = [columns |-> Cols(x, k), rows |-> [i \in 1..n |-> RowOf(x, i, k)],
                            truncated |-> LossyPart(x, n, k)]
  BY DEF Part, Cols, RowOf, LossyPart

LEMMA RowsFacts ==
    ASSUME NEW x, NEW k, NEW n \in Nat
    PROVE  LET rows == [i \in 1..n |-> RowOf(x, i, k)] IN
           /\ rows \in Seq({RowOf(x, i, k) : i \in 1..n})
           /\ Len(rows) = n /\ DOMAIN rows = 1..n
  OBVIOUS

LEMMA ColsFacts ==
    ASSUME NEW x \in Responses, NEW k \in 0..Len(FirstPositions(x))
    PROVE  /\ Len(FirstPositions(x)) \in Nat /\ k \in Nat
           /\ Cols(x, k) \in Seq(ToSet(x.columns)) /\ Len(Cols(x, k)) = k
           /\ DOMAIN Cols(x, k) = 1..k
           /\ Firsts(Cols(x, k)) = 1..k
  <1> DEFINE F == FirstPositions(x)
             C == x.columns
             N == ToSet(C)
             P == Cols(x, k)
  <1>1. C \in Seq(N) /\ InOrder(F, Firsts(C))
    BY InputsAssumption, FirstPositionsInOrder
  <1>2. k \in Nat /\ k \in 0..Len(F) /\ Len(F) \in Nat /\ F \in [1..Len(F) -> Firsts(C)]
    BY <1>1 DEF InOrder
  <1>3. \A j \in 1..k : F[j] \in Firsts(C) /\ F[j] \in 1..Len(C)
    <2>1. Firsts(C) \subseteq 1..Len(C)
      BY <1>1 DEF Firsts
    <2> HIDE DEF F, C
    <2> QED BY <1>2, <2>1
  <1>4. \A j \in 1..k : C[F[j]] \in N
    BY <1>1, <1>3
  <1> HIDE DEF N, F, C
  <1>5. P = [j \in 1..k |-> C[F[j]]]
    BY DEF Cols, F, C
  <1>6. P \in Seq(N) /\ Len(P) = k /\ DOMAIN P = 1..k
    <2> HIDE DEF P
    <2> QED BY <1>2, <1>4, <1>5
  <1>7. ASSUME NEW i \in 1..k, NEW j \in 1..k, i < j PROVE P[i] # P[j]
    <2>1. F[i] < F[j]
      <3>1. i \in DOMAIN F /\ j \in DOMAIN F
        BY <1>2
      <3> QED BY <1>1, <1>7, <3>1 DEF InOrder, Increasing
    <2>2. F[i] \in 1..(F[j] - 1)
      BY <1>3, <2>1, <1>1
    <2>3. C[F[i]] # C[F[j]]
      BY <1>3, <2>2 DEF Firsts
    <2> QED BY <1>5, <2>3
  <1>8. Firsts(P) = 1..k
    <2> HIDE DEF P
    <2>1. \A j \in 1..k : \A q \in 1..(j - 1) : P[q] # P[j]
      BY <1>2, <1>7
    <2> QED BY <1>6, <2>1 DEF Firsts
  <1> QED BY <1>2, <1>6, <1>8 DEF F, N, C

LEMMA DistinctColumns ==
    ASSUME NEW x \in Responses
    PROVE  Distinct(x.columns) = Cols(x, Len(FirstPositions(x)))
  <1>1. x.columns \in Seq(ToSet(x.columns)) /\ InOrder(FirstPositions(x), Firsts(x.columns))
    BY InputsAssumption, FirstPositionsInOrder
  <1> QED BY <1>1, DistinctIsFirsts DEF Cols

\* Distinct leaves the columns of a part alone.
LEMMA PartIsDistinct ==
    ASSUME NEW x \in Responses, NEW k \in 0..Len(FirstPositions(x))
    PROVE  Distinct(Cols(x, k)) = Cols(x, k)
  BY ColsFacts, DistinctStays

LEMMA TakeCols ==
    ASSUME NEW x \in Responses, NEW k \in 0..Len(FirstPositions(x)), NEW m \in Nat
    PROVE  Take(Cols(x, k), m) = Cols(x, Smaller(k, m))
  <1>1. /\ k \in Nat /\ Cols(x, k) \in Seq(ToSet(x.columns)) /\ Len(Cols(x, k)) = k
    BY ColsFacts
  <1>2. CASE k <= m
    <2>1. Smaller(k, m) = k
      BY <1>1, <1>2 DEF Smaller
    <2> QED BY <1>1, <1>2, <2>1 DEF Take
  <1>3. CASE ~(k <= m)
    <2>1. Smaller(k, m) = m /\ m \in 0..k
      BY <1>1, <1>3 DEF Smaller
    <2>2. Take(Cols(x, k), m) = [j \in 1..m |-> Cols(x, k)[j]]
      BY <1>1, <1>3, <2>1 DEF Take
    <2>3. \A j \in 1..m : Cols(x, k)[j] = x.columns[FirstPositions(x)[j]]
      BY <1>1, <2>1 DEF Cols
    <2>4. Cols(x, m) = [j \in 1..m |-> x.columns[FirstPositions(x)[j]]]
      BY DEF Cols
    <2> QED BY <2>1, <2>2, <2>3, <2>4
  <1> QED BY <1>2, <1>3

\* A row of the statement has the value CellOf defines for each column.
LEMMA CellIsLast ==
    ASSUME NEW x \in Responses, NEW i \in 1..Len(x.rows), NEW name
    PROVE  CellOf(x, i, name) = IF name \in DOMAIN StatementRow(x, i) THEN StatementRow(x, i)[name]
                                ELSE Null
  <1> DEFINE C == x.columns
             w == Width(x, i)
             filled == 1..Smaller(w, Len(C))
             found == {p \in DOMAIN C : p <= w /\ C[p] = name}
             Last1(p) == C[p] = name /\ \A q \in filled : C[q] = name => q <= p
             last == CHOOSE p \in filled : Last1(p)
  <1>1. C \in Seq(ToSet(C)) /\ x.rows \in Seq([width : Nat, bytes : Nat])
    BY InputsAssumption
  <1>2. w \in Nat /\ Len(C) \in Nat /\ DOMAIN C = 1..Len(C)
    <2>1. x.rows[i] \in [width : Nat, bytes : Nat]
      BY <1>1, Element
    <2>2. x.rows[i].width \in Nat
      BY <2>1
    <2> QED BY <1>1, <2>2 DEF Width
  <1>3. StatementRow(x, i) = [nm \in {C[p] : p \in filled} |->
            <<i, CHOOSE p \in filled : C[p] = nm /\ \A q \in filled : C[q] = nm => q <= p>>]
    BY DEF StatementRow
  <1>4. DOMAIN StatementRow(x, i) = {C[p] : p \in filled}
    BY <1>3
  <1>5. name \in DOMAIN StatementRow(x, i) => StatementRow(x, i)[name] = <<i, last>>
    BY <1>3
  <1> HIDE DEF w, C
  <1>6. found = {p \in filled : C[p] = name}
    BY <1>2 DEF Smaller
  <1>7. CellOf(x, i, name) = IF found = {} THEN Null ELSE <<i, Max(found)>>
    BY DEF CellOf, C, w
  <1>8. CASE found = {}
    BY <1>4, <1>6, <1>7, <1>8
  <1>9. CASE found # {}
    <2>1. name \in DOMAIN StatementRow(x, i)
      BY <1>4, <1>6, <1>9
    <2>2. found \in SUBSET (0..Len(C))
      BY <1>2
    <2>3. Max(found) \in found /\ \A y \in found : y <= Max(found)
      <3> HIDE DEF found
      <3> QED BY <1>2, <1>9, <2>2, MaxIsMember
    <2>4. Max(found) \in filled /\ Last1(Max(found))
      BY <1>6, <2>3
    <2>5. last \in filled /\ Last1(last)
      <3> HIDE DEF Last1, filled
      <3> QED BY <2>4
    <2> HIDE DEF last
    <2>6. last <= Max(found) /\ Max(found) <= last
      BY <1>6, <2>3, <2>4, <2>5
    <2>7. last = Max(found)
      <3>1. last \in Nat /\ Max(found) \in Nat
        BY <1>2, <2>4, <2>5
      <3> QED BY <2>6, <3>1
    <2> HIDE DEF found
    <2> QED BY <1>5, <1>7, <1>9, <2>1, <2>7
  <1> QED BY <1>8, <1>9

RowLimit(x) == Smaller(Len(x.rows), MaxRows)
ColumnLimit(x) == Smaller(Len(FirstPositions(x)), MaxColumns)

LEMMA LimitsFacts ==
    ASSUME NEW x \in Responses
    PROVE  /\ Len(x.rows) \in Nat /\ Len(FirstPositions(x)) \in Nat /\ Len(x.columns) \in Nat
           /\ RowLimit(x) \in Nat /\ RowLimit(x) <= Len(x.rows) /\ RowLimit(x) <= MaxRows
           /\ ColumnLimit(x) \in Nat /\ ColumnLimit(x) <= Len(FirstPositions(x))
           /\ ColumnLimit(x) <= MaxColumns
           /\ Len(FirstPositions(x)) <= Len(x.columns)
  <1>1. Len(x.rows) \in Nat /\ Len(x.columns) \in Nat
    BY InputsAssumption
  <1>2. Len(FirstPositions(x)) \in Nat /\ Len(FirstPositions(x)) <= Len(x.columns)
    BY FirstPositionsInOrder DEF InOrder
  <1> QED BY <1>1, <1>2, LimitsAssumption DEF RowLimit, ColumnLimit, Smaller

LEMMA TakeRows ==
    ASSUME NEW S, NEW rows \in Seq(S), NEW m \in Nat
    PROVE  Take(rows, m) = [i \in 1..Smaller(Len(rows), m) |-> rows[i]]
  <1>1. CASE Len(rows) <= m
    <2>1. Smaller(Len(rows), m) = Len(rows)
      BY <1>1 DEF Smaller
    <2> QED BY <1>1, <2>1 DEF Take
  <1>2. CASE ~(Len(rows) <= m)
    BY <1>2 DEF Take, Smaller
  <1> QED BY <1>1, <1>2

\* What the statement returned is cut to the limits and nothing else.
LEMMA StartIsPart ==
    ASSUME NEW x \in Responses
    PROVE  Normalized(StatementResult(x)) = Part(x, RowLimit(x), ColumnLimit(x))
  <1> DEFINE R == StatementResult(x)
             C == x.columns
             L == Len(x.rows)
             N == RowLimit(x)
             K == ColumnLimit(x)
             F == FirstPositions(x)
             columns == Take(Distinct(R.columns), MaxColumns)
             rows == Take(R.rows, MaxRows)
  <1>0. /\ L \in Nat /\ Len(F) \in Nat /\ Len(C) \in Nat /\ N \in Nat /\ N <= L
        /\ K \in Nat /\ K <= Len(F) /\ Len(F) <= Len(C) /\ MaxColumns \in Nat /\ MaxRows \in Nat
    BY LimitsFacts, LimitsAssumption
  <1>1. /\ R.columns = C
        /\ R.rows = [i \in DOMAIN x.rows |-> StatementRow(x, i)]
        /\ R.truncated = (x.cut \/ \E i \in DOMAIN x.rows : Width(x, i) # Len(C))
    BY DEF StatementResult
  <1>2. DOMAIN x.rows = 1..L /\ C \in Seq(ToSet(C))
    BY InputsAssumption
  <1>3. columns = Cols(x, K)
    <2>1. Distinct(R.columns) = Cols(x, Len(F))
      BY <1>1, DistinctColumns
    <2>2. Len(F) \in 0..Len(F)
      BY <1>0
    <2>3. Take(Cols(x, Len(F)), MaxColumns) = Cols(x, Smaller(Len(F), MaxColumns))
      BY <1>0, <2>2, TakeCols
    <2> QED BY <2>1, <2>3 DEF ColumnLimit
  <1>4. rows = [i \in 1..N |-> StatementRow(x, i)]
    <2> DEFINE all == R.rows
    <2>1. all = [i \in 1..L |-> StatementRow(x, i)]
      BY <1>1, <1>2
    <2> HIDE DEF all, L, R
    <2>2. all \in Seq({StatementRow(x, i) : i \in 1..L}) /\ Len(all) = L
      BY <1>0, <2>1
    <2>3. Take(all, MaxRows) = [i \in 1..Smaller(L, MaxRows) |-> all[i]]
      BY <1>0, <2>2, TakeRows
    <2>4. N = Smaller(L, MaxRows)
      BY DEF RowLimit, L
    <2>5. \A i \in 1..N : all[i] = StatementRow(x, i)
      BY <1>0, <2>1
    <2> HIDE DEF N
    <2> QED BY <2>3, <2>4, <2>5 DEF all
  <1>5. Normalized(R) = [columns |-> columns, rows |-> RowsFor(rows, columns),
                         truncated |-> \/ R.truncated \/ Len(columns) < Len(R.columns)
                                       \/ Len(rows) < Len(R.rows)
                                       \/ \E i \in DOMAIN rows : ~(DOMAIN rows[i] \subseteq ToSet(columns))]
    BY DEF Normalized
  <1>6. Len(columns) = K /\ Len(R.columns) = Len(C)
    <2>1. K \in 0..Len(F)
      BY <1>0
    <2>2. Len(Cols(x, K)) = K
      BY <2>1, ColsFacts
    <2> QED BY <1>1, <1>3, <2>2
  <1>7. Len(rows) = N /\ Len(R.rows) = L /\ DOMAIN rows = 1..N
    <2>1. R.rows = [i \in 1..L |-> StatementRow(x, i)]
      BY <1>1, <1>2
    <2> HIDE DEF rows, R, L, N
    <2> QED BY <1>0, <1>4, <2>1
  <1> HIDE DEF rows, columns, R, N, K
  <1>8. RowsFor(rows, columns) = [i \in 1..N |-> RowOf(x, i, K)]
    <2>1. \A i \in 1..N : rows[i] = StatementRow(x, i) /\ i \in 1..Len(x.rows)
      BY <1>0, <1>4
    <2>2. ASSUME NEW i \in 1..N
          PROVE  [name \in ToSet(columns) |->
                    IF name \in DOMAIN rows[i] THEN rows[i][name] ELSE Null] = RowOf(x, i, K)
      <3>1. \A name : CellOf(x, i, name) = IF name \in DOMAIN rows[i] THEN rows[i][name] ELSE Null
        BY <2>1, CellIsLast
      <3> QED BY <1>3, <3>1 DEF RowOf
    <2> QED BY <1>7, <2>2 DEF RowsFor
  <1>9. (\E i \in DOMAIN rows : ~(DOMAIN rows[i] \subseteq ToSet(columns))) => K < Len(F)
    <2> SUFFICES ASSUME NEW i \in DOMAIN rows, NEW name \in DOMAIN rows[i], name \notin ToSet(columns),
                        ~(K < Len(F))
                 PROVE  FALSE
      OBVIOUS
    <2>1. K = Len(F)
      BY <1>0
    <2>2. rows[i] = StatementRow(x, i)
      BY <1>4, <1>7
    <2>3. PICK p \in DOMAIN C : C[p] = name
      <3>1. i \in 1..L
        BY <1>0, <1>7
      <3>2. Width(x, i) \in Nat
        <4>1. x.rows[i] \in [width : Nat, bytes : Nat]
          BY <3>1, InputsAssumption, Element
        <4> QED BY <4>1 DEF Width
      <3>3. DOMAIN StatementRow(x, i) = {C[p] : p \in 1..Smaller(Width(x, i), Len(C))}
        BY DEF StatementRow
      <3>4. 1..Smaller(Width(x, i), Len(C)) \subseteq DOMAIN C
        BY <1>0, <1>2, <3>2 DEF Smaller
      <3> QED BY <2>2, <3>3, <3>4
    <2>4. PICK q \in Firsts(C) : C[q] = name
      BY <1>2, <2>3, FirstOfName
    <2>5. PICK j \in 1..Len(F) : F[j] = q
      BY <2>4, FirstPositionsInOrder DEF InOrder
    <2>6. Cols(x, K)[j] = name /\ j \in DOMAIN Cols(x, K)
      BY <2>1, <2>4, <2>5 DEF Cols
    <2> QED BY <1>3, <2>6 DEF ToSet
  <1>10. (\/ R.truncated \/ Len(columns) < Len(R.columns) \/ Len(rows) < Len(R.rows)
          \/ \E i \in DOMAIN rows : ~(DOMAIN rows[i] \subseteq ToSet(columns)))
         = LossyPart(x, N, K)
    <2>1. Len(columns) < Len(R.columns) <=> K < Len(F) \/ Len(F) < Len(C)
      BY <1>0, <1>6
    <2>2. Lossy(x) <=> R.truncated \/ Len(F) < Len(C)
      BY <1>1 DEF Lossy
    <2>3. LossyPart(x, N, K) <=> Lossy(x) \/ N < L \/ K < Len(F)
      BY DEF LossyPart
    <2>4. R.truncated \in BOOLEAN /\ LossyPart(x, N, K) \in BOOLEAN
      BY <1>1 DEF LossyPart
    <2> QED BY <1>7, <1>9, <2>1, <2>2, <2>3, <2>4
  <1> QED BY <1>3, <1>5, <1>8, <1>10, PartIs DEF R, N, K

\* A part within the limits is left as it is by the layers that come after.
LEMMA PartStays ==
    ASSUME NEW x \in Responses, NEW n \in 0..RowLimit(x), NEW k \in 0..ColumnLimit(x)
    PROVE  Normalized(Part(x, n, k)) = Part(x, n, k)
  <1> DEFINE P == Part(x, n, k)
             cells == [i \in 1..n |-> RowOf(x, i, k)]
             columns == Take(Distinct(P.columns), MaxColumns)
             rows == Take(P.rows, MaxRows)
  <1>0. /\ n \in Nat /\ n <= MaxRows /\ k \in Nat /\ k <= MaxColumns
        /\ k \in 0..Len(FirstPositions(x)) /\ MaxColumns \in Nat /\ MaxRows \in Nat
    BY LimitsFacts, LimitsAssumption
  <1>1. P.columns = Cols(x, k) /\ P.rows = cells /\ P.truncated = LossyPart(x, n, k)
    BY PartIs
  <1>2. P = [columns |-> P.columns, rows |-> P.rows, truncated |-> P.truncated]
    BY PartIs
  <1>3. columns = Cols(x, k) /\ Len(columns) = k
    <2>1. Distinct(P.columns) = Cols(x, k)
      BY <1>0, <1>1, PartIsDistinct
    <2>2. Smaller(k, MaxColumns) = k
      BY <1>0 DEF Smaller
    <2>3. Take(Cols(x, k), MaxColumns) = Cols(x, k)
      BY <1>0, <2>2, TakeCols
    <2> QED BY <1>0, <2>1, <2>3, ColsFacts
  <1>4. cells \in Seq({RowOf(x, i, k) : i \in 1..n}) /\ Len(cells) = n /\ DOMAIN cells = 1..n
    BY <1>0, RowsFacts
  <1>5. rows = cells
    <2> HIDE DEF cells
    <2> QED BY <1>0, <1>1, <1>4 DEF Take
  <1>6. Normalized(P) = [columns |-> columns, rows |-> RowsFor(rows, columns),
                         truncated |-> \/ P.truncated \/ Len(columns) < Len(P.columns)
                                       \/ Len(rows) < Len(P.rows)
                                       \/ \E i \in DOMAIN rows : ~(DOMAIN rows[i] \subseteq ToSet(columns))]
    BY DEF Normalized
  <1>7. \A i \in 1..n : cells[i] = RowOf(x, i, k) /\ DOMAIN cells[i] = ToSet(Cols(x, k))
    BY DEF RowOf
  <1> HIDE DEF P, columns, rows, cells
  <1>8. RowsFor(rows, columns) = cells
    <2>1. ASSUME NEW i \in 1..n
          PROVE  [name \in ToSet(columns) |-> IF name \in DOMAIN rows[i] THEN rows[i][name] ELSE Null]
                   = RowOf(x, i, k)
      BY <1>3, <1>5, <1>7 DEF RowOf
    <2> QED BY <1>4, <1>5, <2>1 DEF RowsFor, cells
  <1>9. ~(Len(columns) < Len(P.columns)) /\ ~(Len(rows) < Len(P.rows))
    BY <1>0, <1>1, <1>3, <1>4, <1>5
  <1>10. ~ \E i \in DOMAIN rows : ~(DOMAIN rows[i] \subseteq ToSet(columns))
    BY <1>3, <1>4, <1>5, <1>7
  <1>11. P.truncated \in BOOLEAN
    BY <1>1 DEF LossyPart
  <1> QED BY <1>1, <1>2, <1>3, <1>6, <1>8, <1>9, <1>10, <1>11 DEF P

\* Cutting goes from a part to the next smaller one.
LEMMA CutRow ==
    ASSUME NEW x \in Responses, NEW n \in 1..RowLimit(x), NEW k \in 0..ColumnLimit(x)
    PROVE  /\ Cuttable(Part(x, n, k))
           /\ Cut(Part(x, n, k)) = Part(x, n - 1, k)
  <1> DEFINE P == Part(x, n, k)
             cells == [i \in 1..n |-> RowOf(x, i, k)]
  <1>0. n \in Nat /\ n - 1 < Len(x.rows) /\ RowLimit(x) \in Nat
    BY LimitsFacts
  <1>1. P = [columns |-> Cols(x, k), rows |-> cells, truncated |-> LossyPart(x, n, k)]
    BY PartIs
  <1>2. cells \in Seq({RowOf(x, i, k) : i \in 1..n}) /\ Len(cells) = n /\ cells # <<>>
    <2>1. cells \in Seq({RowOf(x, i, k) : i \in 1..n}) /\ Len(cells) = n
      BY <1>0
    <2> HIDE DEF cells
    <2>2. n # 0 /\ Len(<<>>) = 0
      OBVIOUS
    <2> QED BY <2>1, <2>2
  <1>3. Front(cells) = [i \in 1..(n - 1) |-> cells[i]]
    <2> HIDE DEF cells
    <2> QED BY <1>0, <1>2 DEF Front
  <1>4. [i \in 1..(n - 1) |-> cells[i]] = [i \in 1..(n - 1) |-> RowOf(x, i, k)]
    BY <1>0
  <1>5. LossyPart(x, n - 1, k) = TRUE
    BY <1>0 DEF LossyPart
  <1> HIDE DEF cells
  <1>6. Cuttable(P) /\ Cut(P) = [columns |-> Cols(x, k), rows |-> Front(cells), truncated |-> TRUE]
    <2> HIDE DEF P
    <2> QED BY <1>1, <1>2 DEF Cut, Cuttable
  <1> QED BY <1>3, <1>4, <1>5, <1>6, PartIs

LEMMA CutColumn ==
    ASSUME NEW x \in Responses, NEW k \in 1..ColumnLimit(x)
    PROVE  /\ Cuttable(Part(x, 0, k))
           /\ Cut(Part(x, 0, k)) = Part(x, 0, k - 1)
  <1> DEFINE P == Part(x, 0, k)
  <1>0. /\ k \in Nat /\ k \in 0..Len(FirstPositions(x)) /\ k - 1 < Len(FirstPositions(x))
    BY LimitsFacts
  <1>1. [i \in 1..0 |-> RowOf(x, i, k)] = <<>> /\ [i \in 1..0 |-> RowOf(x, i, k - 1)] = <<>>
    OBVIOUS
  <1>2. P = [columns |-> Cols(x, k), rows |-> <<>>, truncated |-> LossyPart(x, 0, k)]
    BY <1>1, PartIs
  <1>3. Cols(x, k) \in Seq(ToSet(x.columns)) /\ Len(Cols(x, k)) = k /\ Cols(x, k) # <<>>
    BY <1>0, ColsFacts
  <1>4. Front(Cols(x, k)) = [j \in 1..(k - 1) |-> Cols(x, k)[j]]
    BY <1>0, <1>3 DEF Front
  <1>5. [j \in 1..(k - 1) |-> Cols(x, k)[j]] = Cols(x, k - 1)
    BY <1>0 DEF Cols
  <1>6. LossyPart(x, 0, k - 1) = TRUE
    BY <1>0 DEF LossyPart
  <1>7. Cuttable(P) /\ Cut(P) = [columns |-> Front(Cols(x, k)), rows |-> <<>>, truncated |-> TRUE]
    <2> HIDE DEF P
    <2> QED BY <1>2, <1>3 DEF Cut, Cuttable
  <1> QED BY <1>1, <1>4, <1>5, <1>6, <1>7, PartIs

\* The length of a part is a number, and its reference counts once in it.
LEMMA PartHasLength ==
    ASSUME NEW x \in Responses, NEW n \in 0..RowLimit(x), NEW k \in 0..ColumnLimit(x)
    PROVE  \E b \in Nat : /\ \A ref \in Nat : Bytes(x, Part(x, n, k), ref) = b + ref
                          /\ n = 0 /\ k = 0 => b <= MetaBytes + FlagBytes
  <1> DEFINE P == Part(x, n, k)
             cells == [i \in 1..n |-> RowOf(x, i, k)]
             lengths == [i \in 1..n |-> 2 + RowBytes(x, RowOf(x, i, k))]
             flag == IF LossyPart(x, n, k) THEN FlagBytes ELSE 0
  <1>0. /\ n \in Nat /\ k \in Nat /\ n <= Len(x.rows) /\ Len(x.rows) \in Nat
        /\ k \in 0..Len(FirstPositions(x))
    BY LimitsFacts
  <1>1. /\ MetaBytes \in Nat /\ ColumnBytes \in Nat /\ FlagBytes \in Nat /\ flag \in Nat
    BY BytesAssumption
  <1>2. P.columns = Cols(x, k) /\ P.rows = cells /\ P.truncated = LossyPart(x, n, k)
    BY PartIs
  <1>3. Len(P.columns) = k
    BY <1>0, <1>2, ColsFacts
  <1>4. IsFiniteSet(1..n)
    BY <1>0, FS_Interval
  <1>5. ASSUME NEW i \in 1..n PROVE RowBytes(x, RowOf(x, i, k)) \in Nat
    <2> DEFINE names == ToSet(Cols(x, k))
               sizes == [name \in names |-> CellBytes(x, CellOf(x, i, name))]
    <2>1. IsFiniteSet(names)
      <3>1. DOMAIN Cols(x, k) = 1..k
        BY <1>0, ColsFacts
      <3>2. names = {Cols(x, k)[j] : j \in 1..k}
        BY <3>1 DEF ToSet
      <3>3. IsFiniteSet(1..k)
        BY <1>0, FS_Interval
      <3> DEFINE f == [j \in 1..k |-> Cols(x, k)[j]]
      <3>4. f \in Surjection(1..k, names)
        BY <3>2 DEF Surjection
      <3> HIDE DEF f, names
      <3> QED BY <3>3, <3>4, FS_Surjection DEF ExistsSurjection
    <2>2. \A name \in names : CellBytes(x, CellOf(x, i, name)) \in Nat
      <3>1. x.rows[i] \in [width : Nat, bytes : Nat]
        <4>1. x.rows \in Seq([width : Nat, bytes : Nat])
          BY InputsAssumption
        <4>2. i \in 1..Len(x.rows)
          BY <1>0
        <4> QED BY <4>1, <4>2, Element
      <3>2. x.rows[i].bytes \in Nat
        BY <3>1
      <3>3. \A name : CellOf(x, i, name) = Null \/ \E p : CellOf(x, i, name) = <<i, p>>
        BY DEF CellOf
      <3> QED BY <3>2, <3>3 DEF CellBytes
    <2>3. sizes \in [names -> Nat]
      BY <2>2
    <2>4. RowBytes(x, RowOf(x, i, k)) = SumFunction(sizes)
      <3>1. DOMAIN RowOf(x, i, k) = names /\ \A name \in names : RowOf(x, i, k)[name] = CellOf(x, i, name)
        BY DEF RowOf
      <3>2. [name \in DOMAIN RowOf(x, i, k) |-> CellBytes(x, RowOf(x, i, k)[name])] = sizes
        BY <3>1
      <3> HIDE DEF sizes
      <3> QED BY <3>2 DEF RowBytes
    <2> HIDE DEF sizes, names
    <2> QED BY <2>1, <2>3, <2>4, SumIsNat
  <1>6. lengths \in [1..n -> Nat]
    BY <1>5
  <1>7. SumFunction(lengths) \in Nat /\ (n = 0 => SumFunction(lengths) = 0)
    <2>1. n = 0 => 1..n = {}
      OBVIOUS
    <2> HIDE DEF lengths
    <2> QED BY <1>4, <1>6, <2>1, SumIsNat
  <1>8. [i \in DOMAIN P.rows |-> 2 + RowBytes(x, P.rows[i])] = lengths
    <2>1. DOMAIN cells = 1..n /\ \A i \in 1..n : cells[i] = RowOf(x, i, k)
      OBVIOUS
    <2> HIDE DEF P, cells
    <2> QED BY <1>2, <2>1
  <1> HIDE DEF P, lengths, flag
  <1>9. \A ref : Bytes(x, P, ref) = MetaBytes + ref + ColumnBytes * k + SumFunction(lengths) + flag
    BY <1>2, <1>3, <1>8 DEF Bytes, flag
  <1> DEFINE b == MetaBytes + ColumnBytes * k + SumFunction(lengths) + flag
  <1>10. ColumnBytes * k \in Nat /\ (k = 0 => ColumnBytes * k = 0)
    BY <1>0, <1>1
  <1>11. b \in Nat
    BY <1>1, <1>7, <1>10
  <1>12. \A ref \in Nat : Bytes(x, P, ref) = b + ref
    BY <1>1, <1>7, <1>9, <1>10
  <1>13. n = 0 /\ k = 0 => b <= MetaBytes + FlagBytes
    BY <1>1, <1>7, <1>10 DEF flag
  <1> HIDE DEF b
  <1> QED BY <1>11, <1>12, <1>13 DEF P

Fits(op, x, n, k) == Wire(op, x, Part(x, n, k)) <= MaxBytes

\* The first n rows of the first k columns are what is left after cuts none of
\* which could have been spared.
Pending(op, x, n, k) ==
    /\ n \in 0..RowLimit(x) /\ k \in 0..ColumnLimit(x)
    /\ n = 0 \/ k = ColumnLimit(x)
    /\ \A m \in (n + 1)..RowLimit(x) : ~Fits(op, x, m, ColumnLimit(x))
    /\ \A j \in (k + 1)..ColumnLimit(x) : ~Fits(op, x, 0, j)

\* A part that is too long for a layer on the way is too long for the wire.
LEMMA TooLong ==
    ASSUME NEW x \in Responses, NEW op \in {"action", "mcp"},
           NEW n \in 0..RowLimit(x), NEW k \in 0..ColumnLimit(x),
           NEW ref \in {PlaceholderBytes, RefBytes}, ~(Bytes(x, Part(x, n, k), ref) <= MaxBytes)
    PROVE  ~Fits(op, x, n, k)
  <1>1. PICK b \in Nat : \A r \in Nat : Bytes(x, Part(x, n, k), r) = b + r
    BY PartHasLength
  <1>2. /\ ref \in Nat /\ RefBytes \in Nat /\ EnvelopeBytes \in Nat /\ ReserveBytes \in Nat
        /\ MaxBytes \in Nat /\ ref <= RefBytes + EnvelopeBytes
        /\ 2 * EnvelopeBytes <= MaxBytes + ReserveBytes
    BY BytesAssumption, LimitsAssumption
  <1>3. Bytes(x, Part(x, n, k), RefBytes) = b + RefBytes /\ ~(b + ref <= MaxBytes)
    BY <1>1, <1>2
  <1>4. ~(b + RefBytes + EnvelopeBytes <= MaxBytes)
    BY <1>2, <1>3
  <1>5. ~(2 * (b + RefBytes) + ReserveBytes <= MaxBytes)
    BY <1>2, <1>4
  <1> QED BY <1>3, <1>4, <1>5 DEF Fits, Wire

\* Nothing is left to cut only when nothing has to be cut.
LEMMA NothingFits ==
    ASSUME NEW x \in Responses, NEW op \in {"action", "mcp"}
    PROVE  Fits(op, x, 0, 0)
  <1>1. 0 \in 0..RowLimit(x) /\ 0 \in 0..ColumnLimit(x)
    BY LimitsFacts
  <1>2. PICK b \in Nat : /\ \A r \in Nat : Bytes(x, Part(x, 0, 0), r) = b + r
                         /\ b <= MetaBytes + FlagBytes
    BY <1>1, PartHasLength
  <1>3. /\ RefBytes \in Nat /\ EnvelopeBytes \in Nat /\ ReserveBytes \in Nat /\ MetaBytes \in Nat
        /\ FlagBytes \in Nat /\ MaxBytes \in Nat
        /\ 2 * (MetaBytes + RefBytes + FlagBytes) + ReserveBytes <= MaxBytes
        /\ MetaBytes + RefBytes + FlagBytes + EnvelopeBytes <= MaxBytes
    BY BytesAssumption, LimitsAssumption
  <1>4. Bytes(x, Part(x, 0, 0), RefBytes) = b + RefBytes
    BY <1>2, <1>3
  <1>5. b + RefBytes + EnvelopeBytes <= MaxBytes /\ 2 * (b + RefBytes) + ReserveBytes <= MaxBytes
    BY <1>2, <1>3
  <1> QED BY <1>4, <1>5 DEF Fits, Wire

\* A part that does not fit is cut to the next one.
LEMMA CutIsPending ==
    ASSUME NEW x \in Responses, NEW op \in {"action", "mcp"}, NEW n, NEW k,
           Pending(op, x, n, k), ~Fits(op, x, n, k)
    PROVE  /\ Cuttable(Part(x, n, k))
           /\ \E m, j : Cut(Part(x, n, k)) = Part(x, m, j) /\ Pending(op, x, m, j)
  <1> DEFINE N == RowLimit(x)
             K == ColumnLimit(x)
  <1>1. N \in Nat /\ K \in Nat /\ n \in 0..N /\ k \in 0..K
    BY LimitsFacts DEF Pending
  <1>2. /\ n = 0 \/ k = K
        /\ \A m \in (n + 1)..N : ~Fits(op, x, m, K)
        /\ \A j \in (k + 1)..K : ~Fits(op, x, 0, j)
    BY DEF Pending
  <1>3. CASE n # 0
    <2>1. n \in 1..N /\ k = K
      BY <1>1, <1>2, <1>3
    <2>2. Cuttable(Part(x, n, k)) /\ Cut(Part(x, n, k)) = Part(x, n - 1, k)
      BY <1>1, <2>1, CutRow
    <2>3. n - 1 \in 0..N /\ k \in 0..K
      BY <1>1, <2>1
    <2>4. \A m \in (n - 1 + 1)..N : ~Fits(op, x, m, K)
      <3> SUFFICES ASSUME NEW m \in (n - 1 + 1)..N PROVE ~Fits(op, x, m, K)
        OBVIOUS
      <3>1. m = n \/ m \in (n + 1)..N
        BY <1>1
      <3> QED BY <1>2, <2>1, <3>1
    <2>5. \A j \in (k + 1)..K : ~Fits(op, x, 0, j)
      BY <1>2
    <2>6. Pending(op, x, n - 1, k)
      <3> HIDE DEF N, K
      <3> QED BY <2>1, <2>3, <2>4, <2>5 DEF Pending, N, K
    <2> QED BY <2>2, <2>6
  <1>4. CASE n = 0 /\ k # 0
    <2>1. k \in 1..K
      BY <1>1, <1>4
    <2>2. Cuttable(Part(x, n, k)) /\ Cut(Part(x, n, k)) = Part(x, 0, k - 1)
      BY <1>4, <2>1, CutColumn
    <2>3. 0 \in 0..N /\ k - 1 \in 0..K
      BY <1>1, <2>1
    <2>4. \A m \in (0 + 1)..N : ~Fits(op, x, m, K)
      BY <1>2, <1>4
    <2>5. \A j \in (k - 1 + 1)..K : ~Fits(op, x, 0, j)
      <3> SUFFICES ASSUME NEW j \in (k - 1 + 1)..K PROVE ~Fits(op, x, 0, j)
        OBVIOUS
      <3>1. j = k \/ j \in (k + 1)..K
        BY <1>1
      <3> QED BY <1>2, <1>4, <3>1
    <2>6. Pending(op, x, 0, k - 1)
      BY <2>3, <2>4, <2>5 DEF Pending
    <2> QED BY <2>2, <2>6
  <1>5. CASE n = 0 /\ k = 0
    BY <1>5, NothingFits
  <1> QED BY <1>3, <1>4, <1>5

\* The part at which cutting stops is the largest one that fits.
LEMMA StopsAtLargest ==
    ASSUME NEW x \in Responses, NEW op \in {"action", "mcp"}, NEW n, NEW k,
           Pending(op, x, n, k), Fits(op, x, n, k)
    PROVE  Part(x, n, k) = Largest(op, x)
  <1> DEFINE N == RowLimit(x)
             K == ColumnLimit(x)
             rows == {m \in 0..N : Fits(op, x, m, K)}
             columns == {j \in 0..K : Fits(op, x, 0, j)}
  <1>1. N \in Nat /\ K \in Nat /\ n \in 0..N /\ k \in 0..K
    BY LimitsFacts DEF Pending
  <1>2. /\ n = 0 \/ k = K
        /\ \A m \in (n + 1)..N : ~Fits(op, x, m, K)
        /\ \A j \in (k + 1)..K : ~Fits(op, x, 0, j)
    BY DEF Pending
  <1>3. Largest(op, x) = IF rows # {} THEN Part(x, Max(rows), K) ELSE Part(x, 0, Max(columns))
    BY DEF Largest, Fits, RowLimit, ColumnLimit
  <1> HIDE DEF N, K
  <1>4. CASE k = K
    <2>1. n \in rows /\ rows \in SUBSET (0..N)
      BY <1>1, <1>4
    <2>2. \A m \in rows : m <= n
      <3> SUFFICES ASSUME NEW m \in rows, ~(m <= n) PROVE FALSE
        OBVIOUS
      <3>1. m \in (n + 1)..N /\ Fits(op, x, m, K)
        BY <1>1
      <3> QED BY <1>2, <3>1
    <2>3. Max(rows) \in rows /\ \A m \in rows : m <= Max(rows)
      <3> HIDE DEF rows
      <3> QED BY <1>1, <2>1, MaxIsMember
    <2>4. Max(rows) = n
      <3>1. Max(rows) <= n /\ n <= Max(rows) /\ Max(rows) \in 0..N
        BY <2>1, <2>2, <2>3
      <3> QED BY <1>1, <3>1
    <2> HIDE DEF rows, columns
    <2> QED BY <1>3, <1>4, <2>1, <2>4
  <1>5. CASE k # K
    <2>1. n = 0 /\ k \in 0..K /\ k < K
      BY <1>1, <1>2, <1>5
    <2>2. rows = {}
      <3> SUFFICES ASSUME NEW m \in 0..N, Fits(op, x, m, K) PROVE FALSE
        OBVIOUS
      <3>1. CASE m = 0
        <4>1. K \in (k + 1)..K
          BY <1>1, <2>1
        <4> QED BY <1>2, <3>1, <4>1
      <3>2. CASE m # 0
        <4>1. m \in (n + 1)..N
          BY <1>1, <2>1, <3>2
        <4> QED BY <1>2, <4>1
      <3> QED BY <3>1, <3>2
    <2>3. k \in columns /\ columns \in SUBSET (0..K)
      BY <1>1, <2>1
    <2>4. \A j \in columns : j <= k
      <3> SUFFICES ASSUME NEW j \in columns, ~(j <= k) PROVE FALSE
        OBVIOUS
      <3>1. j \in (k + 1)..K /\ Fits(op, x, 0, j)
        BY <1>1
      <3> QED BY <1>2, <3>1
    <2>5. Max(columns) \in columns /\ \A j \in columns : j <= Max(columns)
      <3> HIDE DEF columns
      <3> QED BY <1>1, <2>3, MaxIsMember
    <2>6. Max(columns) = k
      <3>1. Max(columns) <= k /\ k <= Max(columns) /\ Max(columns) \in 0..K
        BY <2>3, <2>4, <2>5
      <3> QED BY <1>1, <3>1
    <2> HIDE DEF rows, columns
    <2> QED BY <1>3, <2>1, <2>2, <2>6
  <1> QED BY <1>4, <1>5

LEMMA NoneTwice ==
    ASSUME NEW C, Len(C) \in Nat, Firsts(C) = 1..Len(C),
           NEW p \in 1..Len(C), NEW q \in 1..Len(C), C[q] = C[p]
    PROVE  q = p
  <1>1. \A r \in 1..(p - 1) : C[r] # C[p]
    <2>1. p \in Firsts(C)
      OBVIOUS
    <2> QED BY <2>1 DEF Firsts
  <1>2. \A r \in 1..(q - 1) : C[r] # C[q]
    <2>1. q \in Firsts(C)
      OBVIOUS
    <2> QED BY <2>1 DEF Firsts
  <1>3. q \notin 1..(p - 1) /\ p \notin 1..(q - 1)
    BY <1>1, <1>2
  <1> QED BY <1>3

\* A part that is not marked as truncated is all there is.
LEMMA CompletePart ==
    ASSUME NEW x \in Responses, NEW n \in 0..RowLimit(x), NEW k \in 0..ColumnLimit(x),
           ~Part(x, n, k).truncated
    PROVE  LET P == Part(x, n, k) IN
           /\ ~x.cut /\ P.columns = x.columns /\ Len(P.rows) = Len(x.rows)
           /\ \A i \in DOMAIN P.rows :
                 {P.rows[i][name] : name \in DOMAIN P.rows[i]} = {<<i, p>> : p \in 1..Width(x, i)}
  <1> DEFINE P == Part(x, n, k)
             C == x.columns
             F == FirstPositions(x)
             cells == [i \in 1..n |-> RowOf(x, i, k)]
             Values(r) == {r[name] : name \in DOMAIN r}
  <1>0. /\ n \in Nat /\ k \in Nat /\ n <= Len(x.rows) /\ k <= Len(F) /\ k \in 0..Len(F)
        /\ Len(F) <= Len(C) /\ Len(C) \in Nat /\ Len(x.rows) \in Nat /\ Len(F) \in Nat
    BY LimitsFacts
  <1>1. P.columns = Cols(x, k) /\ P.rows = cells /\ P.truncated = LossyPart(x, n, k)
    BY PartIs
  <1>2. ~LossyPart(x, n, k)
    BY <1>1
  <1>3. /\ ~x.cut /\ n = Len(x.rows) /\ k = Len(F) /\ Len(F) = Len(C)
        /\ \A i \in DOMAIN x.rows : Width(x, i) = Len(C)
    BY <1>0, <1>2 DEF LossyPart, Lossy
  <1>4. Firsts(C) = 1..Len(C) /\ C \in Seq(ToSet(C))
    BY <1>3, FirstPositionsInOrder, InputsAssumption
  <1>5. Cols(x, k) = C
    BY <1>3, <1>4, DistinctColumns, DistinctStays
  <1>6. cells \in Seq({RowOf(x, i, k) : i \in 1..n}) /\ Len(cells) = n /\ DOMAIN cells = 1..n
    BY <1>0, RowsFacts
  <1>7. ASSUME NEW i \in 1..n
        PROVE  Values(cells[i]) = {<<i, p>> : p \in 1..Width(x, i)}
    <2>1. cells[i] = [name \in ToSet(C) |-> CellOf(x, i, name)]
      BY <1>5 DEF RowOf
    <2>2. Width(x, i) = Len(C)
      BY <1>0, <1>3, InputsAssumption
    <2>3. ASSUME NEW p \in 1..Len(C) PROVE CellOf(x, i, C[p]) = <<i, p>>
      <3> DEFINE found == {q \in DOMAIN C : q <= Width(x, i) /\ C[q] = C[p]}
      <3>1. \A q \in 1..Len(C) : C[q] = C[p] => q = p
        <4> HIDE DEF C
        <4> QED BY <1>0, <1>4, NoneTwice
      <3>2. found = {p}
        BY <1>0, <1>4, <2>2, <3>1
      <3>3. Max(found) = p
        BY <3>2 DEF Max
      <3> QED BY <3>2, <3>3 DEF CellOf
    <2>4. ToSet(C) = {C[p] : p \in 1..Len(C)}
      BY <1>4 DEF ToSet
    <2>5. Values(cells[i]) = {CellOf(x, i, name) : name \in ToSet(C)}
      BY <2>1
    <2>6. {CellOf(x, i, name) : name \in ToSet(C)} = {<<i, p>> : p \in 1..Len(C)}
      BY <2>3, <2>4
    <2> QED BY <2>2, <2>5, <2>6
  <1>8. ~x.cut /\ P.columns = C /\ Len(P.rows) = Len(x.rows) /\ DOMAIN P.rows = 1..n
    <2> HIDE DEF P, cells, Values
    <2> QED BY <1>1, <1>3, <1>5, <1>6
  <1>9. \A i \in 1..n : Values(P.rows[i]) = {<<i, p>> : p \in 1..Width(x, i)}
    <2> HIDE DEF P, cells, Values
    <2> QED BY <1>1, <1>7
  <1> QED BY <1>8, <1>9
-----------------------------------------------------------------------------
(***************************************************************************)
(* The length of an answer.  No property of sums is needed but that of the *)
(* empty one: the loops stop at a measured answer or at an empty one.      *)
(***************************************************************************)
LEMMA SumOfNone ==
    ASSUME NEW f, DOMAIN f = {}, f = [i \in {} |-> f[i]]
    PROVE  SumFunction(f) = 0
  <1>1. IsFiniteSet({}) /\ f \in [{} -> Nat]
    BY FS_EmptySet
  <1> QED BY <1>1, SumIsNat

\* The length of a result without rows.
LEMMA NoRows ==
    ASSUME NEW response, NEW result, result.rows = <<>>
    PROVE  Bytes(response, result, RefBytes)
             = MetaBytes + RefBytes + ColumnBytes * Len(result.columns) + 0
                 + (IF result.truncated THEN FlagBytes ELSE 0)
  <1> DEFINE f == [i \in DOMAIN result.rows |-> 2 + RowBytes(response, result.rows[i])]
  <1>1. DOMAIN f = {} /\ f = [i \in {} |-> f[i]]
    OBVIOUS
  <1>2. Bytes(response, result, RefBytes)
          = MetaBytes + RefBytes + ColumnBytes * Len(result.columns) + SumFunction(f)
                 + (IF result.truncated THEN FlagBytes ELSE 0)
    BY DEF Bytes
  <1> HIDE DEF f
  <1>3. SumFunction(f) = 0
    BY <1>1, SumOfNone
  <1> QED BY <1>2, <1>3

\* The same of a list.
LEMMA NoTables ==
    ASSUME NEW inventory, NEW result, result.rows = <<>>
    PROVE  ListBytes(inventory, result)
             = 2 * (MetaBytes + 0 + (IF result.truncated THEN FlagBytes ELSE 0)) + ReserveBytes
  <1> DEFINE f == [i \in DOMAIN result.rows |-> inventory[result.rows[i]].bytes]
  <1>1. DOMAIN f = {} /\ f = [i \in {} |-> f[i]]
    OBVIOUS
  <1>2. ListBytes(inventory, result)
          = 2 * (MetaBytes + SumFunction(f) + (IF result.truncated THEN FlagBytes ELSE 0))
            + ReserveBytes
    BY DEF ListBytes
  <1> HIDE DEF f
  <1>3. SumFunction(f) = 0
    BY <1>1, SumOfNone
  <1> QED BY <1>2, <1>3

\* An empty answer fits, on either wire.
LEMMA EmptyFits ==
    ASSUME NEW response, NEW result, result.columns = <<>>, result.rows = <<>>, result.truncated
    PROVE  2 * Bytes(response, result, RefBytes) + ReserveBytes <= MaxBytes
  <1>1. Len(<<>>) = 0
    OBVIOUS
  <1>2. Bytes(response, result, RefBytes) = MetaBytes + RefBytes + ColumnBytes * 0 + 0 + FlagBytes
    BY <1>1, NoRows
  <1>3. MetaBytes + RefBytes + ColumnBytes * 0 + 0 + FlagBytes = MetaBytes + RefBytes + FlagBytes
    BY BytesAssumption
  <1> QED BY <1>2, <1>3, BytesAssumption

LEMMA EmptyListFits ==
    ASSUME NEW inventory, NEW result, result.rows = <<>>, result.truncated
    PROVE  ListBytes(inventory, result) <= MaxBytes
  <1>1. ListBytes(inventory, result) = 2 * (MetaBytes + 0 + FlagBytes) + ReserveBytes
    BY NoTables
  <1>2. 2 * (MetaBytes + 0 + FlagBytes) + ReserveBytes <= MaxBytes
    <2>1. /\ MetaBytes \in Nat /\ RefBytes \in Nat /\ FlagBytes \in Nat /\ ReserveBytes \in Nat
          /\ MaxBytes \in Nat
          /\ 2 * (MetaBytes + RefBytes + FlagBytes) + ReserveBytes <= MaxBytes
      BY BytesAssumption, LimitsAssumption
    <2> QED BY <2>1
  <1> QED BY <1>1, <1>2

\* An answer leaves the loop measured, empty or as a failure.
LEMMA WrapFits ==
    ASSUME Inv, Wrap
    PROVE  FitsTheWire'
  <1>1. IsCall(call) /\ call.op \in {"action", "mcp"} /\ call.stage = "wrap"
    BY DEF Inv, OtherInv, Wrap, At
  <1>2. CASE Wire(call.op, call.input, call.result) <= MaxBytes
    <2>1. call' = [call EXCEPT !.stage = "done"]
      BY <1>2 DEF Wrap, Goto
    <2>2. call'.op = call.op /\ call'.input = call.input /\ call'.result = call.result
      BY <1>1, <2>1 DEF IsCall
    <2> QED BY <1>1, <1>2, <2>2 DEF FitsTheWire, Wire
  <1>3. CASE ~(Wire(call.op, call.input, call.result) <= MaxBytes) /\ Cuttable(call.result)
    <2>1. call'.stage = "wrap"
      BY <1>1, <1>3 DEF Wrap, IsCall
    <2> QED BY <2>1 DEF FitsTheWire
  <1>4. CASE /\ ~(Wire(call.op, call.input, call.result) <= MaxBytes) /\ ~Cuttable(call.result)
             /\ call.op = "action"
    <2>1. call'.stage = "failed"
      BY <1>1, <1>4 DEF Wrap, IsCall
    <2> QED BY <2>1 DEF FitsTheWire
  <1>5. CASE /\ ~(Wire(call.op, call.input, call.result) <= MaxBytes) /\ ~Cuttable(call.result)
             /\ call.op # "action"
    <2> DEFINE result == [Empty EXCEPT !.truncated = TRUE]
    <2>1. call' = [call EXCEPT !.stage = "done", !.result = result]
      BY <1>5 DEF Wrap
    <2>2. result.columns = <<>> /\ result.rows = <<>> /\ result.truncated
      BY DEF Empty
    <2> HIDE DEF result
    <2>3. call'.op = "mcp" /\ call'.input = call.input /\ call'.result = result
      BY <1>1, <1>5, <2>1 DEF IsCall
    <2> QED BY <2>2, <2>3, EmptyFits DEF FitsTheWire
  <1> QED BY <1>2, <1>3, <1>4, <1>5

LEMMA TrimFits ==
    ASSUME Inv, Trim
    PROVE  FitsTheWire'
  <1>1. IsCall(call) /\ call.op = "list" /\ call.stage = "trim"
    BY DEF Inv, OtherInv, Trim, At
  <1>2. CASE ListBytes(call.input, call.result) <= MaxBytes
    <2>1. call' = [call EXCEPT !.stage = "done"]
      BY <1>2 DEF Trim, Goto
    <2>2. call'.op = "list" /\ call'.input = call.input /\ call'.result = call.result
      BY <1>1, <2>1 DEF IsCall
    <2> QED BY <1>2, <2>2 DEF FitsTheWire
  <1>3. CASE ~(ListBytes(call.input, call.result) <= MaxBytes) /\ call.result.rows = <<>>
    <2> DEFINE result == [call.result EXCEPT !.truncated = TRUE]
    <2>1. call' = [call EXCEPT !.stage = "done", !.result = result]
      BY <1>1, <1>3 DEF Trim, IsCall
    <2>2. result.rows = <<>> /\ result.truncated
      BY <1>3
    <2> HIDE DEF result
    <2>3. call'.op = "list" /\ call'.input = call.input /\ call'.result = result
      BY <1>1, <2>1 DEF IsCall
    <2> QED BY <2>2, <2>3, EmptyListFits DEF FitsTheWire
  <1>4. CASE ~(ListBytes(call.input, call.result) <= MaxBytes) /\ call.result.rows # <<>>
    <2>1. call'.stage = "trim"
      BY <1>1, <1>4 DEF Trim, IsCall
    <2> QED BY <2>1 DEF FitsTheWire
  <1> QED BY <1>2, <1>3, <1>4

\* The steps of the calls that are neither queries nor lists.
OtherStep ==
    \/ \E s \in Statuses : CurrentUser(s) \/ WarehouseAnswers(s) \/ PageFails(s) \/ Discover(s)
    \/ \E p \in [hit : BOOLEAN, next : Tokens \cup {NoToken}] : Page(p)
    \/ \E s \in Statuses, n \in 0..1 : Probe(s, n)
    \/ Controls \/ SelectTableSQL

LEMMA OtherStepKeepsOp ==
    ASSUME Inv, OtherStep
    PROVE  /\ call.op \in {"connection", "warehouse", "table", "discovery", "select"}
           /\ call'.op = call.op
  <1>0. IsCall(call)
    BY DEF Inv
  <1>1. call.stage \in {"user", "warehouse", "page", "discover", "probe", "controls", "sql"}
    BY DEF OtherStep, CurrentUser, WarehouseAnswers, PageFails, Discover, Page, Probe, Controls,
           SelectTableSQL, At
  <1>2. call.op \in {"connection", "warehouse", "table", "discovery", "select"}
    BY <1>1 DEF Inv, ValidationInv, RequestInv, OtherInv, At
  <1>3. ASSUME NEW status \in Statuses, CurrentUser(status) \/ WarehouseAnswers(status)
                                        \/ PageFails(status) \/ Discover(status)
        PROVE  call'.op = call.op
    BY <1>0, <1>3 DEF CurrentUser, WarehouseAnswers, PageFails, Discover, Conclude, IsCall
  <1>4. ASSUME NEW page, Page(page) PROVE call'.op = call.op
    BY <1>0, <1>4 DEF Page, Conclude, Goto, IsCall
  <1>5. ASSUME NEW status, NEW n, Probe(status, n) PROVE call'.op = call.op
    BY <1>0, <1>5 DEF Probe, Conclude, IsCall
  <1>6. ASSUME NEW verdict, RefuseQuery(verdict) PROVE call'.op = call.op
    BY <1>0, <1>6 DEF RefuseQuery, IsCall
  <1>7. ASSUME Controls PROVE call'.op = call.op
    <2> DEFINE limit == DefaultLimit(call.limit)
               pass == call.pass + 1
               stage == IF call.pass = 2 THEN "sql" ELSE "controls"
    <2>1. \/ RefuseQuery("InvalidControls") \/ RefuseQuery("NoSchema")
          \/ call' = [call EXCEPT !.limit = limit, !.pass = pass, !.stage = stage]
      BY <1>7 DEF Controls
    <2> HIDE DEF limit, pass, stage
    <2>2. call' = [call EXCEPT !.limit = limit, !.pass = pass, !.stage = stage] => call'.op = call.op
      BY <1>0 DEF IsCall
    <2> QED BY <1>6, <2>1, <2>2
  <1>8. ASSUME SelectTableSQL PROVE call'.op = call.op
    <2>1. \/ \E verdict : RefuseQuery(verdict)
          \/ call' = [call EXCEPT !.stage = "done", !.result.columns = call.input.columns]
      BY <1>8, Zenon DEF SelectTableSQL
    <2> QED BY <1>0, <1>6, <2>1 DEF IsCall
  <1> QED BY <1>2, <1>3, <1>4, <1>5, <1>7, <1>8 DEF OtherStep

\* Only the two loops end in an answer that has a length to keep to.
LEMMA FitsStep ==
    ASSUME Inv, FitsTheWire, [Next]_call
    PROVE  FitsTheWire'
  <1>0. IsCall(call)
    BY DEF Inv
  <1>1. CASE Start
    <2>1. call'.stage # "done"
      BY <1>1 DEF Start, StartConnection, StartWarehouse, StartDiscovery, StartSelect, StartTable,
                  StartQuery, StatementFails, StartList, Idle
    <2> QED BY <2>1 DEF FitsTheWire
  <1>2. CASE Wrap
    BY <1>2, WrapFits
  <1>3. CASE Trim
    BY <1>3, TrimFits
  <1>4. CASE Bound
    <2>1. call'.stage # "done"
      BY <1>0, <1>4 DEF Bound, At, IsCall
    <2> QED BY <2>1 DEF FitsTheWire
  <1>5. CASE Return
    BY <1>5, IdleFields DEF Return, FitsTheWire
  <1>6. CASE OtherStep
    BY <1>6, OtherStepKeepsOp DEF FitsTheWire
  <1>7. CASE UNCHANGED call
    BY <1>7 DEF FitsTheWire
  <1> QED BY <1>1, <1>2, <1>3, <1>4, <1>5, <1>6, <1>7 DEF Next, Advance, OtherStep
-----------------------------------------------------------------------------
(***************************************************************************)
(* What is sent.                                                           *)
(***************************************************************************)
\* While it is bounded, and when it is sent, the answer to a query is a part
\* of the result, and everything larger was tried before it.
QueryInv ==
    call.op \in {"action", "mcp"} =>
        \/ At("failed") /\ call.result = Empty
        \/ /\ call.stage \in {"bound", "wrap", "done"} /\ call.input \in Responses
           /\ \E n, k : /\ call.result = Part(call.input, n, k)
                        /\ Pending(call.op, call.input, n, k)
                        /\ At("done") => Fits(call.op, call.input, n, k)

IsResult(r) == r = [columns |-> r.columns, rows |-> r.rows, truncated |-> r.truncated]

\* A list is either marked or still as it was collected.
ListInv ==
    call.op = "list" =>
        /\ call.stage \in {"trim", "done"} /\ call.input \in Inventories /\ IsResult(call.result)
        /\ \/ call.result.truncated = TRUE
           \/ call.result = Listed(call.input)

\* The fields of a call.
FieldsInv ==
    /\ call.op \in Ops \cup {"none"}
    /\ call.stage \in {"idle", "user", "warehouse", "page", "probe", "discover", "controls",
                       "sql", "bound", "wrap", "trim", "done", "failed"}
    /\ call.verdict \in Verdicts
    /\ call.met \subseteq Statuses

LEMMA StartKeepsAnswers ==
    ASSUME Start
    PROVE  QueryInv' /\ ListInv'
  <1>1. CASE \/ StartConnection \/ StartWarehouse
             \/ \E page \in Entries : StartDiscovery(page)
             \/ \E q \in Requests : StartSelect(q)
             \/ \E l \in Listings : StartTable(l)
    <2>1. call'.op \notin {"action", "mcp", "list"}
      BY <1>1 DEF StartConnection, StartWarehouse, StartDiscovery, StartSelect, StartTable, Idle
    <2> QED BY <2>1 DEF QueryInv, ListInv
  <1>2. ASSUME NEW op \in {"action", "mcp"}, NEW x \in Responses, StartQuery(op, x)
        PROVE  QueryInv' /\ ListInv'
    <2>1. /\ call'.op = op /\ call'.stage = "bound" /\ call'.input = x
          /\ call'.result = Part(x, RowLimit(x), ColumnLimit(x))
      BY <1>2, StartIsPart DEF StartQuery, Idle
    <2>2. Pending(op, x, RowLimit(x), ColumnLimit(x))
      BY LimitsFacts DEF Pending
    <2> QED BY <2>1, <2>2 DEF QueryInv, ListInv, At
  <1>3. ASSUME NEW op \in {"action", "mcp"}, NEW s, StatementFails(op, s)
        PROVE  QueryInv' /\ ListInv'
    <2>1. call'.op = op /\ call'.stage = "failed" /\ call'.result = Empty
      BY <1>3 DEF StatementFails, Idle
    <2> QED BY <2>1 DEF QueryInv, ListInv, At
  <1>4. ASSUME NEW v \in Inventories, StartList(v)
        PROVE  QueryInv' /\ ListInv'
    <2>1. call'.op = "list" /\ call'.stage = "trim" /\ call'.input = v /\ call'.result = Listed(v)
      BY <1>4 DEF StartList, Idle
    <2>2. IsResult(Listed(v))
      <3> DEFINE rows == References(v)
                 more == Len(v) > MaxTables
      <3>1. Listed(v) = [Empty EXCEPT !.rows = rows, !.truncated = more]
        BY DEF Listed
      <3> HIDE DEF rows, more
      <3> QED BY <3>1 DEF Empty, IsResult
    <2> QED BY <2>1, <2>2 DEF QueryInv, ListInv
  <1> QED BY <1>1, <1>2, <1>3, <1>4 DEF Start

\* A layer passes a part on or cuts it to the next one.
LEMMA BoundKeepsPending ==
    ASSUME Inv, QueryInv, Bound
    PROVE  QueryInv' /\ ListInv'
  <1> DEFINE x == call.input
             op == call.op
             ref == IF call.pass = 0 THEN PlaceholderBytes ELSE RefBytes
  <1>1. IsCall(call) /\ op \in {"action", "mcp"} /\ call.stage = "bound"
    BY DEF Inv, OtherInv, Bound, At
  <1>2. x \in Responses /\ \E n, k : call.result = Part(x, n, k) /\ Pending(op, x, n, k)
    BY <1>1 DEF QueryInv, At
  <1>3. PICK n, k : call.result = Part(x, n, k) /\ Pending(op, x, n, k)
    BY <1>2
  <1>4. n \in 0..RowLimit(x) /\ k \in 0..ColumnLimit(x)
    BY <1>3 DEF Pending
  <1>5. call'.op = op /\ call'.input = x /\ call'.stage \in {"bound", "wrap"}
    BY <1>1 DEF Bound, IsCall
  <1>6. \E m, j : call'.result = Part(x, m, j) /\ Pending(op, x, m, j)
    <2>1. CASE Bytes(x, call.result, ref) <= MaxBytes
      <3>1. call'.result = Normalized(call.result)
        BY <1>1, <2>1 DEF Bound, IsCall
      <3> QED BY <1>2, <1>3, <1>4, <3>1, PartStays
    <2>2. CASE ~(Bytes(x, call.result, ref) <= MaxBytes)
      <3>1. ~Fits(op, x, n, k)
        BY <1>1, <1>2, <1>3, <1>4, <2>2, TooLong
      <3>2. Cuttable(Part(x, n, k))
        BY <1>1, <1>2, <1>3, <3>1, CutIsPending
      <3>3. call'.result = Cut(call.result)
        BY <1>1, <1>3, <2>2, <3>2 DEF Bound, IsCall
      <3> QED BY <1>1, <1>2, <1>3, <3>1, <3>3, CutIsPending
    <2> QED BY <2>1, <2>2
  <1> QED BY <1>1, <1>2, <1>5, <1>6 DEF QueryInv, ListInv, At

LEMMA WrapKeepsPending ==
    ASSUME Inv, QueryInv, Wrap
    PROVE  QueryInv' /\ ListInv'
  <1> DEFINE x == call.input
             op == call.op
  <1>1. IsCall(call) /\ op \in {"action", "mcp"} /\ call.stage = "wrap"
    BY DEF Inv, OtherInv, Wrap, At
  <1>2. x \in Responses /\ \E n, k : call.result = Part(x, n, k) /\ Pending(op, x, n, k)
    BY <1>1 DEF QueryInv, At
  <1>3. PICK n, k : call.result = Part(x, n, k) /\ Pending(op, x, n, k)
    BY <1>2
  <1>4. CASE Fits(op, x, n, k)
    <2>1. /\ call'.op = op /\ call'.input = x /\ call'.stage = "done"
          /\ call'.result = Part(x, n, k)
      BY <1>1, <1>3, <1>4 DEF Wrap, Goto, Fits, IsCall
    <2> QED BY <1>1, <1>2, <1>3, <1>4, <2>1 DEF QueryInv, ListInv, At
  <1>5. CASE ~Fits(op, x, n, k)
    <2>1. /\ Cuttable(Part(x, n, k))
          /\ \E m, j : Cut(Part(x, n, k)) = Part(x, m, j) /\ Pending(op, x, m, j)
      BY <1>1, <1>2, <1>3, <1>5, CutIsPending
    <2>2. /\ call'.op = op /\ call'.input = x /\ call'.stage = "wrap"
          /\ call'.result = Cut(Part(x, n, k))
      BY <1>1, <1>3, <1>5, <2>1 DEF Wrap, Fits, IsCall
    <2> QED BY <1>1, <1>2, <2>1, <2>2 DEF QueryInv, ListInv, At
  <1> QED BY <1>4, <1>5

LEMMA TrimMarks ==
    ASSUME Inv, ListInv, Trim
    PROVE  QueryInv' /\ ListInv'
  <1>1. IsCall(call) /\ call.op = "list" /\ call.stage = "trim" /\ call.input \in Inventories
    BY DEF Inv, OtherInv, Trim, At, ListInv
  <1>2. call'.op = "list" /\ call'.input = call.input /\ call'.stage \in {"trim", "done"}
    BY <1>1 DEF Trim, Goto, IsCall
  <1>3. IsResult(call.result) /\ (call.result.truncated = TRUE \/ call.result = Listed(call.input))
    BY <1>1 DEF ListInv
  <1>4. \/ call'.result = call.result
        \/ call'.result = [call.result EXCEPT !.truncated = TRUE]
        \/ call'.result = Cut(call.result) /\ call.result.rows # <<>>
    BY <1>1 DEF Trim, Goto, IsCall
  <1>5. \/ call'.result = call.result
        \/ IsResult(call'.result) /\ call'.result.truncated = TRUE
    BY <1>3, <1>4 DEF Cut, IsResult
  <1> QED BY <1>1, <1>2, <1>3, <1>5 DEF QueryInv, ListInv

LEMMA AnswersStep ==
    ASSUME Inv, QueryInv, ListInv, [Next]_call
    PROVE  QueryInv' /\ ListInv'
  <1>1. CASE Start
    BY <1>1, StartKeepsAnswers
  <1>2. CASE Wrap
    BY <1>2, WrapKeepsPending
  <1>3. CASE Trim
    BY <1>3, TrimMarks
  <1>4. CASE Bound
    BY <1>4, BoundKeepsPending
  <1>5. CASE Return
    BY <1>5, IdleFields DEF Return, QueryInv, ListInv
  <1>6. CASE OtherStep
    BY <1>6, OtherStepKeepsOp DEF QueryInv, ListInv
  <1>7. CASE UNCHANGED call
    BY <1>7 DEF QueryInv, ListInv, At
  <1> QED BY <1>1, <1>2, <1>3, <1>4, <1>5, <1>6, <1>7 DEF Next, Advance, OtherStep
-----------------------------------------------------------------------------
\* Of an inventory that is within the limit no Table is missed.
LEMMA ReferencesAll ==
    ASSUME NEW v \in Inventories, Len(v) <= MaxTables
    PROVE  ToSet(References(v)) = {i \in DOMAIN v : v[i].ok}
  <1> DEFINE n == Len(v)
             ok(m) == {i \in 1..m : v[i].ok}
  <1>1. n \in Nat /\ DOMAIN v = 1..n /\ Smaller(n, MaxTables) = n
    BY InputsAssumption, LimitsAssumption DEF Smaller
  <1>2. \E u \in [0..n -> Seq(1..n)] :
           /\ u[0] = <<>>
           /\ \A m \in 1..n : u[m] = IF v[m].ok THEN Append(u[m - 1], m) ELSE u[m - 1]
           /\ References(v) = u[n]
    BY <1>1, ReferencesPrefixes
  <1>3. PICK u \in [0..n -> Seq(1..n)] :
           /\ u[0] = <<>>
           /\ \A m \in 1..n : u[m] = IF v[m].ok THEN Append(u[m - 1], m) ELSE u[m - 1]
           /\ References(v) = u[n]
    BY <1>2
  <1> HIDE DEF n
  <1> DEFINE S == {m \in Nat : m <= n => ToSet(u[m]) = ok(m)}
  <1>4. 0 \in S
    BY <1>1, <1>3 DEF ToSet
  <1>5. ASSUME NEW m \in Nat, m \in S PROVE m + 1 \in S
    <2> SUFFICES ASSUME m + 1 <= n PROVE ToSet(u[m + 1]) = ok(m + 1)
      OBVIOUS
    <2>1. m \in 0..n /\ m + 1 \in 1..n /\ (m + 1) - 1 = m /\ 1..(m + 1) = (1..m) \cup {m + 1}
      BY <1>1
    <2>2. u[m] \in Seq(1..n) /\ ToSet(u[m]) = ok(m)
      BY <1>1, <1>5, <2>1
    <2>3. u[m + 1] = IF v[m + 1].ok THEN Append(u[m], m + 1) ELSE u[m]
      BY <1>3, <2>1
    <2>4. ToSet(Append(u[m], m + 1)) = ToSet(u[m]) \cup {m + 1}
      <3> DEFINE s == u[m]
                 e == m + 1
      <3>1. s \in Seq(1..n) /\ e \in 1..n
        BY <2>1, <2>2
      <3> HIDE DEF s, e
      <3>2. /\ Len(Append(s, e)) = Len(s) + 1 /\ Len(s) \in Nat /\ DOMAIN s = 1..Len(s)
            /\ DOMAIN Append(s, e) = 1..(Len(s) + 1)
            /\ \A i \in 1..Len(s) : Append(s, e)[i] = s[i]
            /\ Append(s, e)[Len(s) + 1] = e
        BY <3>1
      <3>3. 1..(Len(s) + 1) = (1..Len(s)) \cup {Len(s) + 1}
        BY <3>2
      <3>4. ToSet(Append(s, e)) = ToSet(s) \cup {e}
        BY <3>2, <3>3 DEF ToSet
      <3> QED BY <3>4 DEF s, e
    <2>5. CASE v[m + 1].ok
      <3>1. ok(m + 1) = ok(m) \cup {m + 1}
        BY <2>1, <2>5
      <3> QED BY <2>2, <2>3, <2>4, <2>5, <3>1
    <2>6. CASE ~v[m + 1].ok
      <3>1. ok(m + 1) = ok(m)
        BY <2>1, <2>6
      <3> QED BY <2>2, <2>3, <2>6, <3>1
    <2> QED BY <2>5, <2>6
  <1>6. n \in S
    <2> HIDE DEF S
    <2> QED BY <1>1, <1>4, <1>5, CountingUp
  <1> QED BY <1>1, <1>3, <1>6
-----------------------------------------------------------------------------
LEMMA ClassifyFields ==
    ASSUME NEW status PROVE Classify(status) \in Verdicts
  BY DEF Classify, Verdicts

LEMMA StartFields ==
    ASSUME Start
    PROVE  FieldsInv'
  <1>1. /\ call'.op \in Ops /\ call'.verdict = "None" /\ call'.met \subseteq Statuses
        /\ call'.stage \in {"user", "warehouse", "page", "discover", "controls", "bound", "trim",
                            "failed"}
    <2>1. CASE \/ StartConnection \/ StartWarehouse
               \/ \E page \in Entries : StartDiscovery(page)
               \/ \E q \in Requests : StartSelect(q)
               \/ \E l \in Listings : StartTable(l)
      BY <2>1 DEF StartConnection, StartWarehouse, StartDiscovery, StartSelect, StartTable, Idle, Ops
    <2>2. ASSUME NEW op \in {"action", "mcp"}, NEW x, StartQuery(op, x)
          PROVE  call'.op = op /\ call'.verdict = "None" /\ call'.met = {} /\ call'.stage = "bound"
      BY <2>2 DEF StartQuery, Idle
    <2>3. ASSUME NEW op \in {"action", "mcp"}, NEW s \in Statuses, StatementFails(op, s)
          PROVE  call'.op = op /\ call'.verdict = "None" /\ call'.met = {s} /\ call'.stage = "failed"
      BY <2>3 DEF StatementFails, Idle
    <2>4. ASSUME NEW v, StartList(v)
          PROVE  call'.op = "list" /\ call'.verdict = "None" /\ call'.met = {} /\ call'.stage = "trim"
      BY <2>4 DEF StartList, Idle
    <2>5. {"action", "mcp", "list"} \subseteq Ops
      BY DEF Ops
    <2> QED BY <2>1, <2>2, <2>3, <2>4, <2>5 DEF Start
  <1> QED BY <1>1 DEF FieldsInv, Verdicts

LEMMA ConcludeFields ==
    ASSUME IsCall(call), FieldsInv, NEW status \in Statuses, NEW verdict \in Verdicts,
           Conclude(status, verdict)
    PROVE  FieldsInv'
  <1>1. /\ call'.op = call.op /\ call'.stage = "done" /\ call'.met = call.met \cup {status}
        /\ call'.verdict = verdict
    BY DEF Conclude, IsCall
  <1> QED BY <1>1 DEF FieldsInv

LEMMA RefuseFields ==
    ASSUME IsCall(call), FieldsInv, NEW verdict \in Verdicts, RefuseQuery(verdict)
    PROVE  FieldsInv'
  <1>1. /\ call'.op = call.op /\ call'.stage = "failed" /\ call'.met = call.met
        /\ call'.verdict = verdict
    BY DEF RefuseQuery, IsCall
  <1> QED BY <1>1 DEF FieldsInv

\* A step that says where the call goes next and leaves the rest alone.
LEMMA SameFields ==
    ASSUME FieldsInv, call'.op = call.op, call'.verdict = call.verdict, call'.met = call.met,
           call'.stage \in {call.stage, "probe", "controls", "sql", "bound", "wrap", "trim", "done",
                            "failed"}
    PROVE  FieldsInv'
  BY DEF FieldsInv

LEMMA OtherStepFields ==
    ASSUME IsCall(call), FieldsInv, OtherStep
    PROVE  FieldsInv'
  <1>0. /\ {"None", "Ready", "AccessDenied", "ResourceNotFound", "UnsupportedTableType",
            "ValidationFailed", "InvalidControls", "NoSchema", "NotInSchema"} \subseteq Verdicts
        /\ "ok" \in Statuses
    BY DEF Verdicts, Statuses
  <1>1. ASSUME NEW status \in Statuses, CurrentUser(status) PROVE FieldsInv'
    <2>1. CASE status = "notFound" /\ call.pass = 0
      <3>1. /\ call'.op = call.op /\ call'.stage = call.stage /\ call'.verdict = call.verdict
            /\ call'.met = call.met \cup {status}
        BY <1>1, <2>1 DEF CurrentUser, IsCall
      <3> QED BY <3>1 DEF FieldsInv
    <2>2. CASE ~(status = "notFound" /\ call.pass = 0)
      <3>1. Conclude(status, "Ready") \/ Conclude(status, Classify(status))
        BY <1>1, <2>2 DEF CurrentUser
      <3> QED BY <1>0, <3>1, ClassifyFields, ConcludeFields
    <2> QED BY <2>1, <2>2
  <1>2. ASSUME NEW status \in Statuses, WarehouseAnswers(status) \/ PageFails(status)
        PROVE  FieldsInv'
    <2>1. Conclude(status, "Ready") \/ Conclude(status, Classify(status))
      BY <1>2 DEF WarehouseAnswers, PageFails
    <2> QED BY <1>0, <2>1, ClassifyFields, ConcludeFields
  <1>3. ASSUME NEW status \in Statuses, Discover(status) PROVE FieldsInv'
    <2>1. /\ call'.op = call.op /\ call'.verdict = call.verdict /\ call'.met = {status}
          /\ call'.stage \in {"done", "failed"}
      BY <1>3 DEF Discover, IsCall
    <2> QED BY <2>1 DEF FieldsInv
  <1>4. ASSUME NEW page, Page(page) PROVE FieldsInv'
    <2>1. \/ \E verdict \in {"UnsupportedTableType", "ResourceNotFound", "ValidationFailed"} :
                Conclude("ok", verdict)
          \/ Goto("probe")
          \/ call' = [call EXCEPT !.asked = Append(@, page.next)]
      BY <1>4 DEF Page
    <2>2. CASE \E verdict \in {"UnsupportedTableType", "ResourceNotFound", "ValidationFailed"} :
                  Conclude("ok", verdict)
      BY <1>0, <2>2, ConcludeFields
    <2>3. CASE Goto("probe") \/ call' = [call EXCEPT !.asked = Append(@, page.next)]
      <3>1. /\ call'.op = call.op /\ call'.verdict = call.verdict /\ call'.met = call.met
            /\ call'.stage \in {call.stage, "probe"}
        BY <2>3 DEF Goto, IsCall
      <3> QED BY <3>1, SameFields
    <2> QED BY <2>1, <2>2, <2>3
  <1>5. ASSUME NEW status \in Statuses, NEW n, Probe(status, n) PROVE FieldsInv'
    <2>1. \/ Conclude(status, "Ready") \/ Conclude(status, "ValidationFailed")
          \/ Conclude(status, Classify(status))
      BY <1>5 DEF Probe
    <2> QED BY <1>0, <2>1, ClassifyFields, ConcludeFields
  <1>6. CASE Controls
    <2> DEFINE limit == DefaultLimit(call.limit)
               pass == call.pass + 1
               stage == IF call.pass = 2 THEN "sql" ELSE "controls"
    <2>1. \/ RefuseQuery("InvalidControls") \/ RefuseQuery("NoSchema")
          \/ call' = [call EXCEPT !.limit = limit, !.pass = pass, !.stage = stage]
      BY <1>6 DEF Controls
    <2>2. stage \in {"controls", "sql"}
      OBVIOUS
    <2> HIDE DEF limit, pass, stage
    <2>3. ASSUME call' = [call EXCEPT !.limit = limit, !.pass = pass, !.stage = stage]
          PROVE  FieldsInv'
      <3>1. /\ call'.op = call.op /\ call'.verdict = call.verdict /\ call'.met = call.met
            /\ call'.stage = stage
        BY <2>3 DEF IsCall
      <3> QED BY <2>2, <3>1, SameFields
    <2> QED BY <1>0, <2>1, <2>3, RefuseFields
  <1>7. CASE SelectTableSQL
    <2>1. \/ RefuseQuery("InvalidControls") \/ RefuseQuery("NotInSchema")
          \/ call' = [call EXCEPT !.stage = "done", !.result.columns = call.input.columns]
      BY <1>7, Zenon DEF SelectTableSQL
    <2>2. ASSUME call' = [call EXCEPT !.stage = "done", !.result.columns = call.input.columns]
          PROVE  FieldsInv'
      <3>1. /\ call'.op = call.op /\ call'.verdict = call.verdict /\ call'.met = call.met
            /\ call'.stage = "done"
        BY <2>2 DEF IsCall
      <3> QED BY <3>1, SameFields
    <2> QED BY <1>0, <2>1, <2>2, RefuseFields
  <1> QED BY <1>1, <1>2, <1>3, <1>4, <1>5, <1>6, <1>7 DEF OtherStep

LEMMA FieldsStep ==
    ASSUME Inv, FieldsInv, [Next]_call
    PROVE  FieldsInv'
  <1>0. IsCall(call)
    BY DEF Inv
  <1>1. CASE Start
    BY <1>1, StartFields
  <1>2. CASE Bound \/ Wrap \/ Trim
    <2>1. /\ call'.op = call.op /\ call'.verdict = call.verdict /\ call'.met = call.met
          /\ call'.stage \in {call.stage, "bound", "wrap", "done", "failed"}
      BY <1>0, <1>2 DEF Bound, Wrap, Trim, Goto, IsCall
    <2> QED BY <2>1, SameFields
  <1>3. CASE Return
    BY <1>3 DEF Return, FieldsInv, Idle, Verdicts
  <1>4. CASE OtherStep
    BY <1>0, <1>4, OtherStepFields
  <1>5. CASE UNCHANGED call
    BY <1>5 DEF FieldsInv
  <1> QED BY <1>1, <1>2, <1>3, <1>4, <1>5 DEF Next, Advance, OtherStep
-----------------------------------------------------------------------------
\* A part is a table within the limits.
LEMMA PartIsTable ==
    ASSUME NEW x \in Responses, NEW n \in 0..RowLimit(x), NEW k \in 0..ColumnLimit(x)
    PROVE  LET P == Part(x, n, k) IN
           /\ Len(P.columns) <= MaxColumns /\ Len(P.rows) <= MaxRows
           /\ \A i \in DOMAIN P.rows : DOMAIN P.rows[i] = ToSet(P.columns)
  <1> DEFINE P == Part(x, n, k)
             cells == [i \in 1..n |-> RowOf(x, i, k)]
  <1>1. /\ n \in Nat /\ k \in Nat /\ n <= MaxRows /\ k <= MaxColumns
        /\ k \in 0..Len(FirstPositions(x))
    BY LimitsFacts, LimitsAssumption
  <1>2. P.columns = Cols(x, k) /\ P.rows = cells
    BY PartIs
  <1>3. Len(Cols(x, k)) = k
    BY <1>1, ColsFacts
  <1>4. Len(cells) = n /\ DOMAIN cells = 1..n
    BY <1>1, RowsFacts
  <1>5. \A i \in 1..n : DOMAIN cells[i] = ToSet(Cols(x, k))
    BY DEF RowOf
  <1> HIDE DEF P, cells
  <1> QED BY <1>1, <1>2, <1>3, <1>4, <1>5 DEF P

LEMMA AnswersAreTyped ==
    ASSUME FieldsInv, QueryInv
    PROVE  TypeOK
  <1>1. ASSUME call.op \in {"action", "mcp"}
        PROVE  /\ Len(call.result.columns) <= MaxColumns
               /\ Len(call.result.rows) <= MaxRows
               /\ \A i \in DOMAIN call.result.rows :
                     DOMAIN call.result.rows[i] = ToSet(call.result.columns)
    <2>1. CASE call.result = Empty
      BY <2>1, LimitsAssumption DEF Empty
    <2>2. CASE call.input \in Responses /\ \E n, k : /\ call.result = Part(call.input, n, k)
                                                      /\ Pending(call.op, call.input, n, k)
      <3>1. PICK n, k : call.result = Part(call.input, n, k) /\ Pending(call.op, call.input, n, k)
        BY <2>2
      <3>2. n \in 0..RowLimit(call.input) /\ k \in 0..ColumnLimit(call.input)
        BY <3>1 DEF Pending
      <3> QED BY <2>2, <3>1, <3>2, PartIsTable
    <2> QED BY <1>1, <2>1, <2>2 DEF QueryInv
  <1> QED BY <1>1 DEF TypeOK, FieldsInv

LEMMA SentIsLargest ==
    ASSUME QueryInv
    PROVE  AnswerIsLargest
  <1> SUFFICES ASSUME call.op \in {"action", "mcp"}, call.stage = "done"
               PROVE  call.result = Largest(call.op, call.input)
    BY DEF AnswerIsLargest
  <1>1. call.input \in Responses /\ \E n, k : /\ call.result = Part(call.input, n, k)
                                               /\ Pending(call.op, call.input, n, k)
                                               /\ Fits(call.op, call.input, n, k)
    BY DEF QueryInv, At
  <1> QED BY <1>1, StopsAtLargest

LEMMA UnmarkedIsComplete ==
    ASSUME QueryInv, ListInv
    PROVE  TruncationIsReported
  <1> SUFFICES ASSUME call.stage = "done", ~call.result.truncated
               PROVE  /\ call.op \in {"action", "mcp"} =>
                            /\ ~call.input.cut
                            /\ call.result.columns = call.input.columns
                            /\ Len(call.result.rows) = Len(call.input.rows)
                            /\ \A i \in DOMAIN call.result.rows :
                                  {call.result.rows[i][name] : name \in DOMAIN call.result.rows[i]}
                                     = {<<i, p>> : p \in 1..Width(call.input, i)}
                      /\ call.op = "list" =>
                            ToSet(call.result.rows) = {i \in DOMAIN call.input : call.input[i].ok}
    BY DEF TruncationIsReported
  <1>1. CASE call.op \in {"action", "mcp"}
    <2>1. call.input \in Responses /\ \E n, k : /\ call.result = Part(call.input, n, k)
                                                 /\ Pending(call.op, call.input, n, k)
      BY <1>1 DEF QueryInv, At
    <2>2. PICK n, k : call.result = Part(call.input, n, k) /\ Pending(call.op, call.input, n, k)
      BY <2>1
    <2>3. n \in 0..RowLimit(call.input) /\ k \in 0..ColumnLimit(call.input)
      BY <2>2 DEF Pending
    <2> QED BY <1>1, <2>1, <2>2, <2>3, CompletePart
  <1>2. CASE call.op = "list"
    <2>1. call.input \in Inventories /\ call.result = Listed(call.input)
      BY <1>2 DEF ListInv
    <2> DEFINE v == call.input
               rows == References(v)
               more == Len(v) > MaxTables
    <2>2. Listed(v) = [Empty EXCEPT !.rows = rows, !.truncated = more]
      BY DEF Listed
    <2>3. call.result.rows = rows /\ call.result.truncated = more
      <3> HIDE DEF v, rows, more
      <3>1. /\ [Empty EXCEPT !.rows = rows, !.truncated = more].rows = rows
            /\ [Empty EXCEPT !.rows = rows, !.truncated = more].truncated = more
        BY DEF Empty
      <3> QED BY <2>1, <2>2, <3>1 DEF v
    <2>4. Len(v) <= MaxTables
      <3>1. Len(v) \in Nat /\ MaxTables \in Nat
        BY <2>1, InputsAssumption, LimitsAssumption
      <3>2. ~more
        <4> HIDE DEF more
        <4> QED BY <2>3
      <3> HIDE DEF v
      <3> QED BY <3>1, <3>2
    <2> QED BY <1>2, <2>1, <2>3, <2>4, ReferencesAll
  <1> QED BY <1>1, <1>2
-----------------------------------------------------------------------------
\* The inductive invariant: what a call has learned and passed so far is
\* enough to vouch for what it will conclude.
THEOREM InvCorrect == Spec => []Inv
  <1>1. Init => Inv
    BY InitHolds
  <1>2. Inv /\ [Next]_call => Inv'
    BY InvStep
  <1> QED BY <1>1, <1>2, PTL DEF Spec

\* getTableSummary asks no service for a page twice, or for more pages than
\* its limit.
THEOREM WalkCorrect == Spec => []WalkIsBounded
  <1>1. Inv => WalkIsBounded
    BY DEF Inv, WalkInv
  <1> QED BY <1>1, InvCorrect, PTL

\* ValidateConnection and ValidateTable give the verdicts a user acts on only
\* where the workspace's answers are reason for them.
THEOREM VerdictCorrect == Spec => []VerdictIsJustified
  <1>1. Inv => VerdictIsJustified
    BY DEF Inv
  <1> QED BY <1>1, InvCorrect, PTL

\* SelectTableSQL selects what was asked for, once each, inside the schema and
\* under the limit; controls that are not in order stop at the front end.
THEOREM StatementCorrect == Spec => []StatementIsAsked
  <1>1. Inv => StatementIsAsked
    BY DEF Inv
  <1> QED BY <1>1, InvCorrect, PTL

\* boundResultEnvelope, boundMCPQueryOutput and boundMCPListOutput send nothing
\* longer than the limit, whatever the result was.
THEOREM WireCorrect == Spec => []FitsTheWire
  <1>1. Init => FitsTheWire
    BY IdleFields DEF Init, FitsTheWire
  <1>2. Inv /\ FitsTheWire /\ [Next]_call => FitsTheWire'
    BY FitsStep
  <1> QED BY <1>1, <1>2, InvCorrect, PTL DEF Spec

\* The inductive invariant of the answers: what is on its way is the largest
\* part of the result of ExecuteTableQuery that was not refused yet, or the
\* list of ListTablesBounded until it is marked.
THEOREM AnswersCorrect == Spec => [](QueryInv /\ ListInv)
  <1>1. Init => QueryInv /\ ListInv
    BY IdleFields DEF Init, QueryInv, ListInv
  <1>2. Inv /\ QueryInv /\ ListInv /\ [Next]_call => QueryInv' /\ ListInv'
    BY AnswersStep
  <1> QED BY <1>1, <1>2, InvCorrect, PTL DEF Spec

\* The calls keep to their stages, and what the three layers make of a result
\* is a table within the limits, every row of which has its columns for keys.
THEOREM TypeCorrect == Spec => []TypeOK
  <1>1. Init => FieldsInv
    BY DEF Init, FieldsInv, Idle, Verdicts
  <1>2. Inv /\ FieldsInv /\ [Next]_call => FieldsInv'
    BY FieldsStep
  <1>3. FieldsInv /\ QueryInv => TypeOK
    BY AnswersAreTyped
  <1> QED BY <1>1, <1>2, <1>3, InvCorrect, AnswersCorrect, PTL DEF Spec

\* BoundQueryResult in the backend, the tenant executor and the front end, and
\* then boundResultEnvelope or boundMCPQueryOutput, together send the longest
\* part of the result that fits the wire.
THEOREM LargestCorrect == Spec => []AnswerIsLargest
  <1>1. QueryInv => AnswerIsLargest
    BY SentIsLargest
  <1> QED BY <1>1, AnswersCorrect, PTL

\* An answer of query_table or list_tables that is not marked as truncated
\* holds every cell the statement returned, or every Table there is.
THEOREM TruncationCorrect == Spec => []TruncationIsReported
  <1>1. QueryInv /\ ListInv => TruncationIsReported
    BY UnmarkedIsComplete
  <1> QED BY <1>1, AnswersCorrect, PTL

=============================================================================
