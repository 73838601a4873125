------------------------------ MODULE MCGateway ------------------------------
(***************************************************************************)
(* Instances of Gateway for TLC.  Environments and requests come in        *)
(* families: what interacts varies together, the rest stays as in a plain  *)
(* deployment or request.                                                  *)
(***************************************************************************)
EXTENDS Gateway

CONSTANTS c1, b1

-----------------------------------------------------------------------------
(* Environments. *)

Unset == [v \in Vars |-> "absent"]
Plain == ("ADMIN_USERNAME" :> "admin" @@ "ADMIN_PASSWORD" :> "strong"
          @@ "JWT_SECRET" :> "long") @@ Unset

\* The environments es with every text of raws for variable v.
With(es, v, raws) == {(v :> raw) @@ e : e \in es, raw \in raws}
Varying(v, raws) == With({Plain}, v, raws)

Raws == {"absent", "blank", "junk", "-1", "0", "1", "31536000", "-1s", "0s", "15s",
         "true", "false"}
Alone == UNION {Varying(v, Raws) : v \in Parsed}
Pool == With(Varying("DB_MAX_OPEN_CONNS", {"absent", "1", "5"}),
             "DB_MAX_IDLE_CONNS", {"absent", "1", "5"})
Transport == With(With(Varying("HTTP_HSTS_MAX_AGE_SECONDS", {"absent", "0", "5", "31536000"}),
                       "HTTP_HSTS_INCLUDE_SUBDOMAINS", {"absent", "true"}),
                  "HTTP_HSTS_PRELOAD", {"absent", "true"})
Secrets == With(With(Varying("JWT_SECRET", {"absent", "short", "development", "long"}),
                     "ADMIN_PASSWORD", {"development", "strong"}),
                "REDIS_PASSWORD", {"blank", "strong"})
Deployment == With(With(Secrets, "REDIS_ADDR", {"absent", "remote", "junk"}),
  "CORS_ALLOW_ORIGINS", {"absent", ",", "public", "Public:443", "wildcard", "path"})
Texted == UNION {
  Varying("GIN_MODE", {"blank", "debug", "Release", "prod"}),
  Varying("PORT", {"blank", "8080", "0", "junk"}),
  Varying("DB_DRIVER", {"blank", "MySQL", "sqlite"}),
  Varying("TRUSTED_PROXIES", {"private", "everywhere"}),
  Varying("HTTP_CROSS_ORIGIN_EMBEDDER_POLICY", {"require-corp", "none"}),
  With(With(Varying("HTTP_METRICS_ENABLED", {"true"}),
            "HTTP_METRICS_TOKEN", {"absent", "token68", "junk"}),
       "HTTP_REQUEST_TIMEOUT", {"absent", "0s"})}

\* Set by the process alone, by the file alone, and by both.
ModelEnvironments ==
  {[process |-> e, file |-> Unset] : e \in Alone \cup Pool \cup Transport \cup Deployment \cup Texted}
  \cup {[process |-> Unset, file |-> Plain]}
  \cup {[process |-> "JWT_TTL" :> t @@ Unset, file |-> "JWT_TTL" :> u @@ Plain] :
         t, u \in {"absent", "blank", "junk", "15s"}}

-----------------------------------------------------------------------------
(* Requests. *)

Item(media, q) == [type |-> media.type, sub |-> media.sub, suffix |-> media.suffix, q |-> q]
AnyApplication == [type |-> "application", sub |-> "*", suffix |-> ""]
AnyJson == [type |-> "application", sub |-> "*", suffix |-> "json"]
Rubbish == [type |-> "", sub |-> "", suffix |-> ""]

Ranges1 == {Item(m, q) : m \in {Json, Csv, Problem, Anything, AnyApplication, AnyJson, Rubbish},
                          q \in {"absent", "0", "0.5", "nan", "junk"}}
Accepts == {<<x>> : x \in Ranges1}
  \cup {<<x, y>> : x, y \in {Item(m, q) : m \in {Json, Csv, Anything, AnyApplication},
                                           q \in {"absent", "0", "0.5", "nan"}}}

Body(media, boundary) == [type |-> media.type, sub |-> media.sub, suffix |-> media.suffix,
                          boundary |-> boundary]
RightType(route) == IF route \notin DOMAIN BodyTypes THEN <<>>
                    ELSE <<Body(BodyTypes[route], route = "import")>>

Request(route) ==
  [route |-> route, format |-> "", origin |-> "none", preflight |-> FALSE, size |-> "ok",
   type |-> RightType(route), accept |-> <<>>, bearer |-> "good", op |-> NoOp]

ModelRoutes == {"login", "me", "budgetWrite", "import", "export", "livez", "metrics",
                "noRoute", "noRouteAPI", "noMethodAPI"}
Bodied == DOMAIN BodyTypes

ByTransport == {[Request(route) EXCEPT !.origin = o, !.size = s, !.bearer = b] :
  route \in ModelRoutes, o \in {"none", "listed", "foreign"}, s \in {"ok", "declared"},
  b \in {"none", "bad", "good"}}
Preflights == {[Request("noMethodAPI") EXCEPT !.origin = o, !.preflight = TRUE] :
  o \in {"listed", "foreign"}}
Streamed == {[Request(route) EXCEPT !.size = "streamed"] : route \in Bodied}
ByType == {[Request(route) EXCEPT !.type = t] : route \in Bodied,
  t \in {<<>>, <<Body(Json, FALSE), Body(Json, FALSE)>>}
        \cup {<<Body(m, b)>> : m \in {Json, Problem, Csv, Form}, b \in BOOLEAN}}
ByAccept == {[Request("me") EXCEPT !.accept = a] : a \in Accepts}
  \cup {[Request("export") EXCEPT !.accept = a, !.format = f] :
          a \in Accepts, f \in {"", "xlsx", "pdf"}}

Key(c) == [month |-> "2024-05", cat |-> c]
Writes == {[do |-> "create", key |-> Key(c1), valid |-> TRUE],
           [do |-> "update", id |-> b1, key |-> Key(c1), valid |-> FALSE]}
  \cup {[do |-> "update", id |-> b1, key |-> Key(c), valid |-> TRUE] : c \in {c1, WholeMonth}}

\* The first day has two parts: one report ends inside it, the other begins there.
ModelSlots == {<<1, 1>>, <<1, 2>>, <<2, 1>>}
ModelRanges == {{<<1, 1>>}, {<<1, 2>>, <<2, 1>>}}

ModelOperations ==
  {[Request("budgetWrite") EXCEPT !.op = w] : w \in Writes}
  \cup {[Request("budgetDelete") EXCEPT !.op = [do |-> "delete", id |-> b1]]}
  \cup {[Request("report") EXCEPT !.op = [do |-> "report", range |-> s]] : s \in ModelRanges}

ModelVisits == ByTransport \cup Preflights \cup Streamed \cup ByType \cup ByAccept

ModelKinds == c1 :> "expense"
ModelFigures == {[inc |-> 0, exp |-> 0], [inc |-> 1, exp |-> 0], [inc |-> 0, exp |-> 1]}
Symmetry == Permutations(Reqs)

=============================================================================
