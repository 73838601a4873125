------------------------------ MODULE Gateway -------------------------------
(***************************************************************************)
(* The server from its environment to its answers: it boots with an        *)
(* accepted configuration (Config), takes each request down the chain of   *)
(* middleware that cmd/server/main.go installs and app/router.go extends,  *)
(* and up again with whatever the handler did.  The handlers of budgets    *)
(* and reports are those of Planning; of the others only the way they end  *)
(* matters here.                                                           *)
(*                                                                         *)
(* Going down and coming up are one step each: the chain touches nothing   *)
(* that another request can see.  In between the handler runs, statement   *)
(* by statement, and the context of the request may end.                   *)
(***************************************************************************)
EXTENDS Config, Negotiation, Planning

CONSTANTS
  Environments,  \* pairs of the variables of the process and those of the .env file
  Visits,        \* requests that touch no table
  Operations,    \* requests for the handlers of Planning
  NoReq, NoReply, NoOp

HeaderNames == {"X-Request-ID", "security", "no-store", "no-cache", "CORS", "Vary",
                "WWW-Authenticate"}

\* The requests of Planning's handlers, as routes and bodies give them.
ASSUME GatewayAssumption ==
  /\ \A q \in Visits : q.op = NoOp
  /\ \A q \in Visits \cup Operations :
       q.accept \in Seq([type : STRING, sub : STRING, suffix : STRING, q : STRING])
  /\ \A q \in Operations :
       \/ (q.op.do = "create" /\ q.op.key \in Keys /\ q.op.valid \in BOOLEAN)
       \/ (q.op.do = "update" /\ q.op.id \in Budgets /\ q.op.key \in Keys
           /\ q.op.valid \in BOOLEAN)
       \/ (q.op.do = "delete" /\ q.op.id \in Budgets)
       \/ (q.op.do = "report" /\ q.op.range \in Ranges)
  /\ NoReply \notin [status : 200..599, headers : SUBSET HeaderNames]

VARIABLES
  server,   \* "off", "refused", "panicked", "booted" or "up"
  env, cfg, \* the environment until the server listens, and what Load made of it
  req,      \* per connection: its request
  at,       \* "idle", "handling", "rejected" or "answered"
  ctx,      \* the context of the request: "live", "deadline" or "gone"
  trail,    \* the middleware entered, the headers set, and what was sent on the way down
  reply,    \* what the client gets
  counted   \* the status the request was counted under; 0 is not at all

bootVars == <<server, env, cfg>>
connVars == <<req, at, ctx, trail, reply, counted>>
vars == <<bootVars, connVars, planVars>>

Reply(status, headers) == [status |-> status, headers |-> headers]
NoTrail == [headers |-> {}, entered |-> <<>>, sent |-> NoReply]

Init ==
  /\ server = "off" /\ env \in Environments /\ cfg = <<>>
  /\ req = [r \in Reqs |-> NoReq] /\ at = [r \in Reqs |-> "idle"]
  /\ ctx = [r \in Reqs |-> "live"] /\ trail = [r \in Reqs |-> NoTrail]
  /\ reply = [r \in Reqs |-> NoReply] /\ counted = [r \in Reqs |-> 0]
  /\ PlanInit

-----------------------------------------------------------------------------
(***************************************************************************)
(* The start.                                                              *)
(***************************************************************************)
Environment == LoadDotEnv(env.process, env.file)

Boot ==
  /\ server = "off"
  /\ cfg' = Load(Environment)
  /\ server' = IF ~Accepted(Environment) THEN "refused"
               ELSE IF SetModePanics(Load(Environment)) THEN "panicked" ELSE "booted"
  /\ UNCHANGED <<env, connVars, planVars>>

\* Of the configuration the middleware asks for these.
Listen ==
  /\ server = "booted" /\ server' = "up"
  /\ cfg' = [metrics  |-> cfg["HTTP_METRICS_ENABLED"] = 1,
             deadline |-> cfg["HTTP_REQUEST_TIMEOUT"] > 0,
             token    |-> cfg["HTTP_METRICS_TOKEN"] # ""]
  /\ env' = NoReq
  /\ UNCHANGED <<connVars, planVars>>

-----------------------------------------------------------------------------
(***************************************************************************)
(* The way down.                                                           *)
(***************************************************************************)
\* Routes with a body, and the media type it has to have.
BodyTypes == [login |-> Json, budgetWrite |-> Json, import |-> Form]

\* Routes with a declared answer, and the types that are offered for it.
JsonRoutes == {"login", "me", "budgetWrite", "budgetDelete", "report", "import"}
Offers(q) == IF q.route = "export" THEN Formats(q.format) ELSE {Json}

UnderAPI(q) == q.route \in JsonRoutes \cup {"export", "noRouteAPI", "noMethodAPI"}

\* Faulty variant: the metrics are inside the recovery of panics.
GlobalChainRecoverFirst(c) ==
  <<"RequestID", "RequestTimeout", "Logger", "Recovery">> \o
  (IF c.metrics THEN <<"HTTPMetrics">> ELSE <<>>) \o
  <<"SecurityHeaders", "NoStoreAPI", "CORS", "BodyLimit", "ContentType", "Accept">>
\* Faulty variant: foreign origins are refused before the headers are set.
GlobalChainCORSFirst(c) ==
  (IF c.metrics THEN <<"RequestID", "HTTPMetrics">> ELSE <<"RequestID">>) \o
  <<"RequestTimeout", "Logger", "Recovery", "SecurityHeaders", "CORS", "NoStoreAPI",
    "BodyLimit", "ContentType", "Accept">>

GlobalChain(c) ==
  (IF c.metrics THEN <<"RequestID", "HTTPMetrics">> ELSE <<"RequestID">>) \o
  <<"RequestTimeout", "Logger", "Recovery", "SecurityHeaders", "NoStoreAPI", "CORS",
    "BodyLimit", "ContentType", "Accept">>

\* /metrics is registered before the global middleware, with a chain of its own.
MetricsChain(c) == <<"RequestID", "Recovery", "SecurityHeaders", "NoCache">> \o
                   (IF c.token THEN <<"MetricsToken">> ELSE <<>>)

RouteChain(q) ==
  CASE q.route \in {"noRoute", "noRouteAPI", "metrics"} -> <<"NoRoute">>
    [] q.route = "noMethodAPI"                           -> <<"NoMethod">>
    [] q.route = "livez"                                 -> <<"NoCache">>
    [] q.route = "login"                                 -> <<"NoStore">>
    [] OTHER                                             -> <<"NoStore", "RequireAuth">>

Chain(q, c) == IF q.route = "metrics" /\ c.metrics THEN MetricsChain(c)
               ELSE GlobalChain(c) \o RouteChain(q)

\* The middlewares that answer with a status of their own; 0 lets the request pass.
Origin(q) == IF q.origin = "foreign" THEN 403
             ELSE IF q.origin = "listed" /\ q.preflight THEN 204 ELSE 0

\* A body whose length is declared; a streamed one is noticed when it is read.
BodyLimit(q) == IF q.size = "declared" THEN 413 ELSE 0

ContentType(q) ==
  IF q.route \in DOMAIN BodyTypes /\ ~ContentTypeAllowed(q.type, BodyTypes[q.route])
  THEN 415 ELSE 0

Accept(q) ==
  IF q.route \in JsonRoutes \cup {"export"} /\ ~AcceptsAny(q.accept, Offers(q)) THEN 406 ELSE 0

\* A missing token and a wrong one; revoked tokens are Auth's.
Bearer(q) == IF q.bearer # "good" THEN 401 ELSE 0

Verdict(m, q) ==
  CASE m = "CORS"                            -> Origin(q)
    [] m = "BodyLimit"                       -> BodyLimit(q)
    [] m = "ContentType"                     -> ContentType(q)
    [] m = "Accept"                          -> Accept(q)
    [] m \in {"RequireAuth", "MetricsToken"} -> Bearer(q)
    [] m = "NoRoute"                         -> 404
    [] m = "NoMethod"                        -> 405
    [] OTHER                                 -> 0

\* The headers it sets before it answers or lets pass.
Headers(m, q) ==
  CASE m = "RequestID"                                  -> {"X-Request-ID"}
    [] m = "SecurityHeaders"                            -> {"security"}
    [] m = "NoStore"                                    -> {"no-store"}
    [] m \in {"NoStoreAPI", "NoRoute", "NoMethod"} /\ UnderAPI(q) -> {"no-store"}
    [] m = "NoCache"                                    -> {"no-cache"}
    [] m = "CORS" /\ q.origin = "listed"                -> {"CORS"}
    [] m = "Accept" /\ q.route \in JsonRoutes \cup {"export"} -> {"Vary"}
    [] m \in {"RequireAuth", "MetricsToken"} /\ Bearer(q) # 0 -> {"WWW-Authenticate"}
    [] OTHER                                            -> {}

\* The request gets as far as the first middleware that answers.
Down(q, c) ==
  LET chain == Chain(q, c)
      answering == {i \in DOMAIN chain : Verdict(chain[i], q) # 0}
      last == IF answering = {} THEN Len(chain) ELSE Min(answering)
      headers == UNION {Headers(chain[i], q) : i \in 1..last}
  IN  [headers |-> headers, entered |-> SubSeq(chain, 1, last),
       sent |-> IF answering = {} THEN NoReply ELSE Reply(Verdict(chain[last], q), headers)]

\* Bound: a request that touches no table is alone, at a server whose tables are
\* empty, since it can tell no difference; the others meet one configuration.
WithTables == server = "up" /\ cfg.metrics /\ cfg.deadline /\ ~cfg.token
NoneAlone == \A r \in Reqs : at[r] # "idle" => req[r].op # NoOp

\* Bound: budgets and summaries share nothing, so a server has the requests and
\* the changes of one of them only.
IsReport(op) == op.do = "report"
OnBudgets == used # {} \/ kind # InitKind
             \/ \E r \in Reqs : at[r] # "idle" /\ ~IsReport(req[r].op)
OnSummaries == \/ \E p \in Periods : snap[p] # NoRow \/ seen[p] # {}
               \/ \E s \in Slots : HasRows(figures[s])
               \/ \E r \in Reqs : at[r] # "idle" /\ IsReport(req[r].op)

MayVisit == (\A r \in Reqs : at[r] = "idle") /\ changes = 0 /\ ~OnBudgets /\ ~OnSummaries
MayOperate(op) == WithTables /\ NoneAlone /\ IF IsReport(op) THEN ~OnBudgets ELSE ~OnSummaries

LedgerMoves ==
  /\ WithTables /\ NoneAlone
  /\ \/ ~OnSummaries /\ CategoriesChange
     \/ ~OnBudgets /\ FiguresChange
  /\ UNCHANGED <<bootVars, connVars>>

Begin(r, op) ==
  CASE op.do = "create" -> BeginCreate(r, op.key, op.valid)
    [] op.do = "update" -> BeginUpdate(r, op.id, op.key, op.valid)
    [] op.do = "delete" -> BeginDelete(r, op.id)
    [] op.do = "report" -> BeginReport(r, op.range)

Arrive(r, q) ==
  /\ server = "up" /\ at[r] = "idle"
  /\ req' = [req EXCEPT ![r] = q]
  /\ LET t == Down(q, cfg)
     IN  /\ trail' = [trail EXCEPT ![r] = t]
         /\ at' = [at EXCEPT ![r] = IF t.sent = NoReply THEN "handling" ELSE "rejected"]
         /\ IF t.sent = NoReply /\ q.op # NoOp THEN Begin(r, q.op) ELSE UNCHANGED planVars
  /\ UNCHANGED <<bootVars, ctx, reply, counted>>

-----------------------------------------------------------------------------
(***************************************************************************)
(* The handler.                                                            *)
(***************************************************************************)
\* Bound: to the tables it is the same why a statement is cut.
Ways(op) == IF ~cfg.deadline THEN {"gone"}
            ELSE IF op = NoOp THEN {"deadline", "gone"} ELSE {"deadline"}

\* The deadline of the request passes, or its client goes away.
Expire(r) ==
  /\ at[r] = "handling" /\ ctx[r] = "live"
  /\ \E why \in Ways(req[r].op) : ctx' = [ctx EXCEPT ![r] = why]
  /\ UNCHANGED <<bootVars, req, at, trail, reply, counted, planVars>>

Handle(r) == Step(r) /\ UNCHANGED <<bootVars, connVars>>

\* The database fails, or gives up a statement because the context has ended.
Fail(r) ==
  /\ \/ Interrupt(r, "failed")
     \/ ctx[r] # "live" /\ (Interrupt(r, "cut") \/ LoseAnswer(r))
  /\ UNCHANGED <<bootVars, connVars>>

\* How a handler ends: what it wrote, and the panic it ended with.
Ends(status, panic) == [status |-> status, panic |-> panic]

ContextStatus(r) == IF ctx[r] = "deadline" THEN 504 ELSE 499

\* writeBudgetError, InternalError
StatusOf(r) ==
  CASE job[r].result = "ok"       -> 200
    [] job[r].result = "created"  -> 201
    [] job[r].result = "invalid"  -> 400
    [] job[r].result = "notFound" -> 404
    [] job[r].result = "failed"   -> 500
    [] job[r].result = "cut"      -> ContextStatus(r)

\* Any handler may reply, leave the answer to its callers (0: a HEAD, or an
\* early return), or panic before or after it has written; a body that is too
\* large is noticed when it is read.
Endings(r) ==
  IF req[r].op # NoOp THEN {Ends(StatusOf(r), "none")}
  ELSE IF req[r].size = "streamed" THEN {Ends(413, "none")}
  ELSE {Ends(s, p) : s \in {0, 200}, p \in {"none", "bug", "brokenPipe"}} \cup {Ends(500, "none")}
       \cup (IF ctx[r] = "live" THEN {} ELSE {Ends(ContextStatus(r), "none")})

-----------------------------------------------------------------------------
(***************************************************************************)
(* The way up.                                                             *)
(***************************************************************************)
\* u: the panic under way, what was sent, the status counted.
Recover(u, headers) ==
  [u EXCEPT !.panic = "none",
            !.sent = IF u.panic = "brokenPipe" \/ @ # NoReply THEN @ ELSE Reply(500, headers)]

\* A status is 200 until somebody sets another one.
StatusSent(u) == IF u.sent = NoReply THEN 200 ELSE u.sent.status

\* What a middleware does when the next one returns to it.
Return(r, u, m) ==
  CASE m = "Recovery" /\ u.panic # "none" -> Recover(u, trail[r].headers)
    [] m = "RequestTimeout" /\ u.panic = "none" /\ cfg.deadline
         /\ u.sent = NoReply /\ ctx[r] # "live" ->
         [u EXCEPT !.sent = Reply(ContextStatus(r), trail[r].headers)]
    [] m = "HTTPMetrics" /\ u.panic = "none" -> [u EXCEPT !.counted = StatusSent(u)]
    [] OTHER -> u

Written(r, ending) ==
  IF trail[r].sent # NoReply THEN trail[r].sent
  ELSE IF ending.status = 0 THEN NoReply ELSE Reply(ending.status, trail[r].headers)

Up(r, ending) ==
  LET n == Len(trail[r].entered)
      up[k \in 0..n] ==  \* when k of them have returned
        IF k = 0 THEN [panic |-> ending.panic, sent |-> Written(r, ending), counted |-> 0]
        ELSE Return(r, up[k - 1], trail[r].entered[n - k + 1])
  IN  up[n]

\* Faulty variant: the timeout does not wait for the handler to return.
ReturnedOrLate(r) ==
  at[r] = "rejected" \/ (at[r] = "handling" /\ (pc[r] \in {"idle", "done"} \/ ctx[r] # "live"))

Returned(r) == at[r] = "rejected" \/ (at[r] = "handling" /\ pc[r] \in {"idle", "done"})

Answer(r) ==
  /\ Returned(r)
  /\ \E ending \in IF at[r] = "rejected" THEN {Ends(0, "none")} ELSE Endings(r) :
       LET u == Up(r, ending)
       IN  /\ reply' = [reply EXCEPT ![r] = IF u.sent = NoReply
                                            THEN Reply(200, trail[r].headers) ELSE u.sent]
           /\ counted' = [counted EXCEPT ![r] = u.counted]
  /\ at' = [at EXCEPT ![r] = "answered"]
  /\ ctx' = [ctx EXCEPT ![r] = "live"] /\ trail' = [trail EXCEPT ![r] = NoTrail]
  /\ UNCHANGED <<bootVars, req, planVars>>

\* The connection takes the next request.
Close(r) ==
  /\ at[r] = "answered"
  /\ at' = [at EXCEPT ![r] = "idle"] /\ req' = [req EXCEPT ![r] = NoReq]
  /\ reply' = [reply EXCEPT ![r] = NoReply] /\ counted' = [counted EXCEPT ![r] = 0]
  /\ pc' = [pc EXCEPT ![r] = "idle"] /\ job' = [job EXCEPT ![r] = NoJob]
  /\ UNCHANGED <<bootVars, ctx, trail, Tables, History>>

Next ==
  \/ Boot \/ Listen
  \/ \E r \in Reqs : \/ MayVisit /\ \E q \in Visits : Arrive(r, q)
                     \/ \E q \in Operations : MayOperate(q.op) /\ Arrive(r, q)
                     \/ Expire(r) \/ Handle(r) \/ Fail(r) \/ Answer(r) \/ Close(r)
  \/ LedgerMoves

Spec == Init /\ [][Next]_vars

-----------------------------------------------------------------------------
TypeOK ==
  /\ server \in {"off", "refused", "panicked", "booted", "up"}
  /\ at \in [Reqs -> {"idle", "handling", "rejected", "answered"}]
  /\ ctx \in [Reqs -> {"live", "deadline", "gone"}]
  /\ \A r \in Reqs : at[r] = "answered" => reply[r].status \in 200..599
  /\ \A r \in Reqs : pc[r] \notin {"idle", "done"} => at[r] = "handling"
  /\ PlanTypeOK

\* A number, duration or boolean somebody set is used as it was written, or
\* the server does not start; and one that starts dies of its configuration
\* only if GIN_MODE is spelled in capitals, which Validate lets pass.
\* config.go:225-294, main.go:186-201; readme.md:246
StartsAsWritten ==
  /\ server \in {"booted", "panicked"} => \A v \in Parsed :
       ~Blank(Environment[v]) => LET texts == Texts[LoadRules[v].text]
         IN  Environment[v] \in DOMAIN texts /\ cfg[v] = texts[Environment[v]]
  /\ server = "panicked" => Environment["GIN_MODE"] \notin {"absent", "blank", "debug", "release", "test"}

\* Whoever answers a request, its answer has the headers that were promised:
\* every answer an id and the browser headers, the API no-store, the probes
\* no-cache, and an origin on the list its CORS headers.
\* main.go:109-123, cmd/server/README.md:9
EveryAnswerGuarded ==
  \A r \in Reqs : at[r] = "answered" =>
    LET q == req[r]
    IN  /\ {"X-Request-ID", "security"} \subseteq reply[r].headers
        /\ UnderAPI(q) => "no-store" \in reply[r].headers
        /\ q.route = "livez" /\ q.origin = "none" /\ q.size # "declared"
             => "no-cache" \in reply[r].headers
        /\ q.origin = "listed" /\ q.route # "metrics" => "CORS" \in reply[r].headers

\* A request is counted under the status its client gets, panics, refusals and
\* timeouts included.
\* metrics.go:40-56, recovery.go, request_timeout.go
CountedAsAnswered ==
  \A r \in Reqs : at[r] = "answered" /\ cfg.metrics /\ req[r].route # "metrics"
                    => counted[r] = reply[r].status

\* What passes offers a type the weights of the header want, in whatever order its
\* ranges come; what is refused with 406 offers none, except one that a weight of
\* "nan" on the first of its most specific ranges hides.
\* accept.go:31-58, 73-158
NegotiatedByWeight ==
  \A r \in Reqs :
    /\ at[r] = "handling" /\ req[r].route \in JsonRoutes \cup {"export"}
         => Wants(req[r].accept, Offers(req[r]))
    /\ at[r] = "rejected" /\ trail[r].sent.status = 406
         => \A media \in Offers(req[r]) :
              Wants(req[r].accept, {media}) => Shadowed(req[r].accept, media)

=============================================================================
