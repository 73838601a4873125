------------------------------- MODULE Config -------------------------------
(***************************************************************************)
(* From the environment to an accepted configuration: config/config.go and *)
(* the start of cmd/server/main.go.                                        *)
(*                                                                         *)
(* LoadStrict reads every variable twice, by two tables written            *)
(* independently: Load turns it into a value and falls back to a default   *)
(* when it cannot, validateEnvValues refuses what cannot be used.  Then    *)
(* Validate looks at the values together.  An environment maps each        *)
(* variable to the text it is set to; a text stands for its class.         *)
(***************************************************************************)
EXTENDS Integers, TLC

\* What the parsers of strconv and time make of the texts that they accept.
Texts == [
  int      |-> "-1" :> -1 @@ "0" :> 0 @@ "1" :> 1 @@ "5" :> 5 @@ "31536000" :> 31536000,
  duration |-> "-1s" :> -1 @@ "0s" :> 0 @@ "0" :> 0 @@ "15s" :> 15,
  bool     |-> "true" :> 1 @@ "1" :> 1 @@ "false" :> 0 @@ "0" :> 0]

Blank(raw) == raw \in {"absent", "blank"}

\* A rule is a parser and the smallest value that is let through.
Rule(text, min) == [text |-> text, min |-> min]
AnyInt == Rule("int", -1)
NonNegativeInt == Rule("int", 0)
PositiveInt == Rule("int", 1)
Duration == Rule("duration", 1)
NonNegativeDuration == Rule("duration", 0)
Bool == Rule("bool", 0)

Fits(rule, raw) == raw \in DOMAIN Texts[rule.text] /\ Texts[rule.text][raw] >= rule.min

\* How Load reads each variable that is a number, a duration or a boolean.
LoadRules == [
  DB_MAX_OPEN_CONNS |-> PositiveInt, DB_MAX_IDLE_CONNS |-> PositiveInt,
  DB_CONN_MAX_LIFETIME |-> Duration, DB_CONN_MAX_IDLE_TIME |-> Duration,
  REDIS_DB |-> AnyInt,
  HTTP_READ_TIMEOUT |-> Duration, HTTP_READ_HEADER_TIMEOUT |-> Duration,
  HTTP_WRITE_TIMEOUT |-> Duration, HTTP_IDLE_TIMEOUT |-> Duration,
  HTTP_SHUTDOWN_TIMEOUT |-> Duration, HTTP_REQUEST_TIMEOUT |-> NonNegativeDuration,
  HTTP_MAX_HEADER_BYTES |-> PositiveInt, HTTP_MAX_BODY_BYTES |-> PositiveInt,
  HTTP_METRICS_ENABLED |-> Bool, HTTP_METRICS_MAX_REQUESTS_IN_FLIGHT |-> PositiveInt,
  HTTP_METRICS_TIMEOUT |-> Duration,
  HTTP_HSTS_MAX_AGE_SECONDS |-> NonNegativeInt,
  HTTP_HSTS_INCLUDE_SUBDOMAINS |-> Bool, HTTP_HSTS_PRELOAD |-> Bool,
  LOGIN_RATE_LIMIT_MAX_FAILURES |-> NonNegativeInt,
  LOGIN_RATE_LIMIT_WINDOW |-> NonNegativeDuration,
  JWT_TTL |-> Duration, JWT_CLOCK_SKEW |-> NonNegativeDuration]

Parsed == DOMAIN LoadRules

\* The defaults; those whose value no rule looks at are 60.
Default == [v \in Parsed |->
  CASE v = "DB_MAX_OPEN_CONNS" -> 25
    [] v = "DB_MAX_IDLE_CONNS" -> 10
    [] v \in {"REDIS_DB", "HTTP_METRICS_ENABLED", "HTTP_HSTS_MAX_AGE_SECONDS",
              "HTTP_HSTS_INCLUDE_SUBDOMAINS", "HTTP_HSTS_PRELOAD"} -> 0
    [] OTHER -> 60]

\* Variables that Load takes as text, and what it puts for a blank one.
TextDefault == [
  PORT |-> "8080", DB_DRIVER |-> "postgres", GIN_MODE |-> "release",
  REDIS_ADDR |-> "loopback", REDIS_PASSWORD |-> "development",
  CORS_ALLOW_ORIGINS |-> "local", TRUSTED_PROXIES |-> "",
  ADMIN_USERNAME |-> "", ADMIN_PASSWORD |-> "", JWT_SECRET |-> "",
  HTTP_METRICS_TOKEN |-> "", HTTP_CROSS_ORIGIN_EMBEDDER_POLICY |-> ""]

Vars == Parsed \cup DOMAIN TextDefault

\* An empty list of origins is as good as none at all.
LoadText(v, raw) ==
  IF Blank(raw) \/ (v = "CORS_ALLOW_ORIGINS" /\ raw = ",")
                \/ (v = "HTTP_CROSS_ORIGIN_EMBEDDER_POLICY" /\ raw # "require-corp")
  THEN TextDefault[v] ELSE raw

\* The variables of the process win over those of the .env file, empty ones too.
LoadDotEnv(process, file) ==
  [v \in Vars |-> IF process[v] = "absent" THEN file[v] ELSE process[v]]

Load(env) ==
  [v \in Vars |-> IF v \in DOMAIN TextDefault THEN LoadText(v, env[v])
                  ELSE IF Fits(LoadRules[v], env[v]) THEN Texts[LoadRules[v].text][env[v]]
                  ELSE Default[v]]

-----------------------------------------------------------------------------
(***************************************************************************)
(* validateEnvValues: each variable alone, as text.                        *)
(***************************************************************************)
\* The table of checks, in the words of the code.
CheckRules == [
  DB_MAX_OPEN_CONNS |-> PositiveInt, DB_MAX_IDLE_CONNS |-> PositiveInt,
  DB_CONN_MAX_LIFETIME |-> Duration, DB_CONN_MAX_IDLE_TIME |-> Duration,
  REDIS_DB |-> AnyInt,
  HTTP_READ_TIMEOUT |-> Duration, HTTP_READ_HEADER_TIMEOUT |-> Duration,
  HTTP_WRITE_TIMEOUT |-> Duration, HTTP_IDLE_TIMEOUT |-> Duration,
  HTTP_SHUTDOWN_TIMEOUT |-> Duration, HTTP_REQUEST_TIMEOUT |-> NonNegativeDuration,
  HTTP_MAX_HEADER_BYTES |-> PositiveInt, HTTP_MAX_BODY_BYTES |-> PositiveInt,
  HTTP_HSTS_MAX_AGE_SECONDS |-> NonNegativeInt,
  HTTP_HSTS_INCLUDE_SUBDOMAINS |-> Bool, HTTP_HSTS_PRELOAD |-> Bool,
  HTTP_METRICS_ENABLED |-> Bool, HTTP_METRICS_MAX_REQUESTS_IN_FLIGHT |-> PositiveInt,
  HTTP_METRICS_TIMEOUT |-> Duration,
  LOGIN_RATE_LIMIT_MAX_FAILURES |-> NonNegativeInt,
  LOGIN_RATE_LIMIT_WINDOW |-> NonNegativeDuration,
  JWT_TTL |-> Duration, JWT_CLOCK_SKEW |-> NonNegativeDuration]

ValidPort(raw) == raw \in {"8080", "1", "5"}

\* Faulty variant: a check of the sign that forgets whether there is a number.
ValidEnvValuesIfNumbers(env) ==
  /\ \A v \in DOMAIN CheckRules :
       env[v] \in DOMAIN Texts[CheckRules[v].text] => Fits(CheckRules[v], env[v])
  /\ Blank(env["PORT"]) \/ ValidPort(env["PORT"])
  /\ env["HTTP_CROSS_ORIGIN_EMBEDDER_POLICY"] \in {"absent", "blank", "require-corp"}
  /\ env["HTTP_METRICS_TOKEN"] \in {"absent", "blank", "token68"}

ValidEnvValues(env) ==
  /\ \A v \in DOMAIN CheckRules : Blank(env[v]) \/ Fits(CheckRules[v], env[v])
  /\ Blank(env["PORT"]) \/ ValidPort(env["PORT"])
  /\ env["HTTP_CROSS_ORIGIN_EMBEDDER_POLICY"] \in {"absent", "blank", "require-corp"}
  /\ env["HTTP_METRICS_TOKEN"] \in {"absent", "blank", "token68"}

-----------------------------------------------------------------------------
(***************************************************************************)
(* Validate: the values together.                                          *)
(***************************************************************************)
ValidDatabase(c) ==
  /\ c["DB_DRIVER"] \in {"postgres", "pgsql", "mysql", "MySQL"}
  /\ c["DB_MAX_OPEN_CONNS"] > 0 /\ c["DB_MAX_IDLE_CONNS"] > 0
  /\ c["DB_MAX_IDLE_CONNS"] <= c["DB_MAX_OPEN_CONNS"]
  /\ c["DB_CONN_MAX_LIFETIME"] > 0 /\ c["DB_CONN_MAX_IDLE_TIME"] > 0

ValidRedis(c) ==
  /\ c["REDIS_ADDR"] \in {"loopback", "remote"}
  /\ c["REDIS_DB"] >= 0
  /\ c["REDIS_ADDR"] = "loopback" \/ c["REDIS_PASSWORD"] # ""

\* GIN_MODE is compared in lower case, and used as it is written.
ValidGinMode(c) == c["GIN_MODE"] \in {"debug", "release", "test", "Release"}

ValidTransportSecurity(c) ==
  LET age == c["HTTP_HSTS_MAX_AGE_SECONDS"]
      subdomains == c["HTTP_HSTS_INCLUDE_SUBDOMAINS"] = 1
  IN  /\ age >= 0
      /\ subdomains => age > 0
      /\ c["HTTP_HSTS_PRELOAD"] = 1 => age >= 31536000 /\ subdomains

ValidHTTP(c) ==
  /\ ValidGinMode(c)
  /\ \A v \in {"HTTP_READ_TIMEOUT", "HTTP_READ_HEADER_TIMEOUT", "HTTP_WRITE_TIMEOUT",
               "HTTP_IDLE_TIMEOUT", "HTTP_SHUTDOWN_TIMEOUT", "HTTP_MAX_HEADER_BYTES",
               "HTTP_MAX_BODY_BYTES", "HTTP_METRICS_MAX_REQUESTS_IN_FLIGHT",
               "HTTP_METRICS_TIMEOUT"} : c[v] > 0
  /\ c["HTTP_REQUEST_TIMEOUT"] >= 0
  /\ c["HTTP_METRICS_TOKEN"] \in {"", "token68"}
  /\ c["HTTP_CROSS_ORIGIN_EMBEDDER_POLICY"] \in {"", "require-corp"}
  /\ c["TRUSTED_PROXIES"] \in {"", "private"}
  /\ ValidTransportSecurity(c)

ValidSessions(c) ==
  /\ c["LOGIN_RATE_LIMIT_MAX_FAILURES"] >= 0 /\ c["LOGIN_RATE_LIMIT_WINDOW"] >= 0
  /\ c["JWT_SECRET"] \in {"development", "long"}
  /\ c["JWT_TTL"] > 0 /\ c["JWT_CLOCK_SKEW"] >= 0
  /\ c["ADMIN_USERNAME"] # "" /\ c["ADMIN_PASSWORD"] # ""

\* An origin that is not the local machine: no example secrets then.
HasPublicOrigin(c) == c["CORS_ALLOW_ORIGINS"] \in {"public", "Public:443", "wildcard"}

NoExampleSecrets(c) ==
  /\ c["JWT_SECRET"] # "development" /\ c["ADMIN_PASSWORD"] # "development"
  /\ c["REDIS_PASSWORD"] # "development" \/ c["REDIS_ADDR"] = "loopback"

Validate(c) ==
  /\ ValidPort(c["PORT"]) /\ ValidDatabase(c) /\ ValidRedis(c) /\ ValidHTTP(c)
  /\ ValidSessions(c) /\ (HasPublicOrigin(c) => NoExampleSecrets(c))

\* An origin is a scheme, a host and perhaps a port: a wildcard is none.
ValidOrigins(c) == c["CORS_ALLOW_ORIGINS"] \in {"local", "public", "Public:443"}

LoadStrict(env) == ValidEnvValues(env) /\ Validate(Load(env))
Accepted(env) == LoadStrict(env) /\ ValidOrigins(Load(env))

\* gin.SetMode knows the modes by their names in lower case, and panics.
SetModePanics(c) == c["GIN_MODE"] \notin {"debug", "release", "test"}

=============================================================================
