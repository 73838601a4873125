------------------------------- MODULE Client -------------------------------
(***************************************************************************)
(* The session and the lists of the web and the mobile client:             *)
(* web/shared/api/client.ts, web/components/AuthGate.tsx, the login and    *)
(* the transactions page, mobile/src/features/auth/useSession.ts,          *)
(* mobile/src/shared/api/client.ts and mobile/App.tsx.                     *)
(*                                                                         *)
(* The tabs of a browser share one stored token; the mobile client is one  *)
(* tab.  A request carries the token stored when it is sent, the server    *)
(* answers it when it likes or not at all, and answers arrive in any       *)
(* order.  The clients wait 30 seconds for the head of an answer and for   *)
(* ever for its body.  The head of any 401 clears whatever token is stored *)
(* by then, and the session checks clear it once more after the body.      *)
(***************************************************************************)
EXTENDS Integers, FiniteSets

CONSTANTS
  Tabs,       \* the first one is the screen of the mobile client
  Phone,      \* that tab
  Users, Filters,
  FirstFilter,
  MaxTokens,  \* bound: logins that may succeed
  MaxSent,    \* bound: what the user and the server start
  None

ASSUME ClientAssumption ==
  /\ Phone \in Tabs /\ FirstFilter \in Filters /\ IsFiniteSet(Tabs) /\ None \notin Tabs
  /\ MaxTokens \in Nat \ {0} /\ MaxSent \in Nat

VARIABLES
  platform,   \* "web" or "mobile"
  token,      \* the stored token; 0 is none
  screen,     \* per tab: "closed", "login", "checking" or "app"
  filter,     \* per tab: the filters of its list
  shown,      \* per tab: whose list it shows and for which filters, or None
  calls,      \* requests in flight
  live,       \* tokens the server accepts
  owner,      \* whose token each one is
  sent,       \* bound counter
  nextId,     \* requests are numbered as they are sent
  newest,     \* history, per tab: the latest load that has ended
  misled,     \* history: tabs with a reason to show the wrong list
  abandoned   \* history: tokens no tab keeps, with a reason

vars == <<platform, token, screen, filter, shown, calls, live, owner, sent, nextId,
          newest, misled, abandoned>>

Tokens == 1..MaxTokens
MyTabs == IF platform = "web" THEN Tabs ELSE {Phone}
Kinds == {"me", "check", "load", "login", "logout"}
Call == [id : Nat, kind : Kinds, tab : Tabs \cup {None}, token : {0} \cup Tokens,
         arg : Users \cup Filters \cup {None}, got : {0} \cup Tokens,
         answer : {"none", "ok", "unauthorized", "unverified", "error", "failed",
                   "refused", "leaving"}]

NewCall(i, k, t, tk, a) == [id |-> i, kind |-> k, tab |-> t, token |-> tk, arg |-> a,
                            got |-> 0, answer |-> "none"]

\* A page load drops what the tab waits for; the server may have it still.
Orphaned(cs, t) == {IF c.tab = t THEN [c EXCEPT !.tab = None] ELSE c : c \in cs}

Init ==
  /\ platform \in {"web", "mobile"}
  /\ token = 0 /\ live = {}
  /\ screen = [t \in Tabs |-> "closed"]
  /\ filter = [t \in Tabs |-> FirstFilter]
  /\ shown = [t \in Tabs |-> None]
  /\ calls = {}
  /\ owner = [k \in Tokens |-> None]
  /\ sent = 0 /\ nextId = 1
  /\ newest = [t \in Tabs |-> 0]
  /\ misled = {} /\ abandoned = {}

Spend == sent < MaxSent /\ sent' = sent + 1

\* Tab t shows screen s and sends one request, of kind k, with the token that
\* is stored now (token'); the requests cs are still in flight.
Send(t, s, k, cs, a) ==
  /\ screen' = [screen EXCEPT ![t] = s]
  /\ calls' = cs \cup {NewCall(nextId, k, t, token', a)}
  /\ nextId' = nextId + 1
Quiet(t, s, cs) ==
  /\ screen' = [screen EXCEPT ![t] = s]
  /\ calls' = cs /\ UNCHANGED nextId

\* The login page: an old token is tried first.
Land(t, cs) ==
  IF token' # 0 /\ platform = "web" THEN Send(t, "login", "check", cs, None)
  ELSE Quiet(t, "login", cs)

\* A token that is stored no longer, for a reason.
GiveUp == abandoned' = IF token # 0 /\ token \in live /\ token' # token
                       THEN abandoned \cup {token} ELSE abandoned

(***************************************************************************)
(* The user                                                                *)
(***************************************************************************)

\* A page behind AuthGate is loaded, or the mobile client is started.
Visit(t) ==
  /\ t \in MyTabs /\ Spend
  /\ UNCHANGED token
  /\ LET cs == Orphaned(calls, t) IN
     IF token = 0 THEN Quiet(t, "login", cs) ELSE Send(t, "checking", "me", cs, None)
  /\ shown' = [shown EXCEPT ![t] = None]
  /\ filter' = [filter EXCEPT ![t] = FirstFilter]
  /\ UNCHANGED <<platform, live, owner, newest, misled, abandoned>>

\* The login page is loaded.
OpenLogin(t) ==
  /\ t \in MyTabs /\ platform = "web" /\ Spend
  /\ UNCHANGED token
  /\ Land(t, Orphaned(calls, t))
  /\ shown' = [shown EXCEPT ![t] = None]
  /\ filter' = [filter EXCEPT ![t] = FirstFilter]
  /\ UNCHANGED <<platform, live, owner, newest, misled, abandoned>>

\* onSubmit, signIn; None is a wrong password.  The button of the web page waits
\* for the login under way, that of the phone does not.
SubmitLogin(t, u) ==
  /\ screen[t] = "login" /\ Spend
  /\ platform = "web" => ~\E c \in calls : c.kind = "login" /\ c.tab = t
  /\ UNCHANGED token
  /\ Send(t, "login", "login", calls, u)
  /\ UNCHANGED <<platform, filter, shown, live, owner, newest, misled, abandoned>>

\* logout: the token is cleared first and revoked then, as well as it goes.
Logout(t) ==
  /\ screen[t] = "app" /\ Spend
  /\ token' = 0
  /\ IF token = 0
     THEN Quiet(t, "login", calls)
     ELSE /\ calls' = calls \cup {NewCall(nextId, "logout", t, token, None)}
          /\ nextId' = nextId + 1
          /\ screen' = IF platform = "web" THEN screen ELSE [screen EXCEPT ![t] = "login"]
  /\ shown' = IF token = 0 THEN [shown EXCEPT ![t] = None] ELSE shown
  /\ misled' = IF token = 0 THEN misled ELSE misled \cup Tabs
  /\ UNCHANGED <<platform, filter, live, owner, newest, abandoned>>

\* Mistake: the effect does not depend on the filters.
ChangeFilterOnly(t, f) ==
  /\ screen[t] = "app" /\ Spend
  /\ f # filter[t]
  /\ filter' = [filter EXCEPT ![t] = f]
  /\ UNCHANGED <<platform, token, screen, shown, calls, live, owner, nextId, newest, misled, abandoned>>

\* setFilters, setTxFilters: the effect loads the list again.
ChangeFilter(t, f) ==
  /\ screen[t] = "app" /\ Spend
  /\ f # filter[t]
  /\ UNCHANGED token
  /\ filter' = [filter EXCEPT ![t] = f]
  /\ Send(t, "app", "load", calls, f)
  /\ UNCHANGED <<platform, shown, live, owner, newest, misled, abandoned>>

(***************************************************************************)
(* The server                                                              *)
(***************************************************************************)

Answered(c, a) == calls' = (calls \ {c}) \cup {a}

\* A token expires, or is revoked from elsewhere.
Expire ==
  /\ Spend
  /\ \E k \in live : live' = live \ {k}
  /\ UNCHANGED <<platform, token, screen, filter, shown, calls, owner, nextId, newest,
                 misled, abandoned>>

\* The login is accepted and its token made, whether the answer arrives or not.
AnswerLogin(c) ==
  /\ c.kind = "login" /\ c.answer = "none"
  /\ IF c.arg = None
     THEN Answered(c, [c EXCEPT !.answer = "unauthorized"]) /\ UNCHANGED <<live, owner, abandoned>>
     ELSE \E k \in Tokens : \E heard \in BOOLEAN :
            /\ \A j \in Tokens : j < k <=> owner[j] # None
            /\ owner' = [owner EXCEPT ![k] = c.arg]
            /\ live' = live \cup {k}
            /\ abandoned' = IF heard THEN abandoned ELSE abandoned \cup {k}
            /\ Answered(c, IF heard THEN [c EXCEPT !.answer = "ok", !.got = k]
                           ELSE [c EXCEPT !.answer = "failed"])
  /\ UNCHANGED <<platform, token, screen, filter, shown, sent, nextId, newest, misled>>

\* Mistake: the logout is acknowledged and the token stays valid.
AnswerLogoutOnly(c) ==
  /\ c.kind = "logout" /\ c.answer = "none"
  /\ Answered(c, [c EXCEPT !.answer = "ok"])
  /\ UNCHANGED <<platform, token, screen, filter, shown, live, owner, sent, nextId, newest, misled,
                 abandoned>>

AnswerLogout(c) ==
  /\ c.kind = "logout" /\ c.answer = "none"
  /\ live' = live \ {c.token}
  /\ Answered(c, [c EXCEPT !.answer = "ok"])
  /\ UNCHANGED <<platform, token, screen, filter, shown, owner, sent, nextId, newest, misled,
                 abandoned>>

\* RequireAuthWithRevocation answers 401 for a token it knows to be dead, and for
\* any when Redis does not tell it whether the token was revoked.
AnswerRead(c) ==
  /\ c.kind \in {"me", "check", "load"} /\ c.answer = "none"
  /\ \E a \in IF c.token \in live THEN {"ok", "unverified"} ELSE {"unauthorized"} :
       Answered(c, [c EXCEPT !.answer = a])
  /\ UNCHANGED <<platform, token, screen, filter, shown, live, owner, sent, nextId, newest,
                 misled, abandoned>>

\* The network fails or the 30 seconds are over; the server answers with another
\* error.  A logout may fail at its token check, too, and nobody looks.
Fails(c) ==
  /\ c.answer = "none"
  /\ \E a \in IF c.kind \in {"me", "check"} THEN {"failed", "error"} ELSE {"failed"} :
       Answered(c, [c EXCEPT !.answer = a])
  /\ abandoned' = IF c.kind = "logout" THEN abandoned \cup {c.token} ELSE abandoned
  /\ UNCHANGED <<platform, token, screen, filter, shown, live, owner, sent, nextId, newest, misled>>

(***************************************************************************)
(* An answer arrives                                                       *)
(***************************************************************************)

\* Nobody waits for the answer any more.
Lost(c) ==
  /\ c.tab = None /\ c.answer # "none"
  /\ calls' = calls \ {c}
  /\ abandoned' = IF c.got # 0 THEN abandoned \cup {c.got} ELSE abandoned
  /\ UNCHANGED <<platform, token, screen, filter, shown, live, owner, sent, nextId, newest, misled>>

\* The browser replaces the page of tab t by the login page.
Unload(t, cs) ==
  /\ Land(t, Orphaned(cs, t))
  /\ shown' = [shown EXCEPT ![t] = None]

\* The stored token is cleared, whichever it is.
DropToken ==
  /\ token' = 0 /\ GiveUp
  /\ misled' = IF token = 0 THEN misled ELSE misled \cup Tabs

\* The head of a 401, handleUnauthorized and notifySessionInvalidated: the token
\* is cleared; the browser leaves for the login page, the phone shows it.  For
\* /me the body of the answer is read next.
Unauthorized(c) ==
  LET leaving == platform = "web" /\ screen[c.tab] # "login" IN
  /\ c.answer \in {"unauthorized", "unverified"} /\ c.tab # None
  /\ DropToken
  /\ IF c.kind \in {"me", "check"}
     THEN /\ Answered(c, [c EXCEPT !.answer = IF leaving THEN "leaving" ELSE "refused"])
          /\ UNCHANGED <<screen, shown, nextId>>
     ELSE IF leaving THEN Unload(c.tab, calls \ {c})
     ELSE Quiet(c.tab, "login", calls \ {c}) /\ UNCHANGED shown
  /\ UNCHANGED <<platform, filter, live, owner, sent, newest>>

\* The body has arrived: AuthGate, boot and the login page clear the token that
\* is stored by now.
DropAgain(c) ==
  LET rest == calls \ {c} IN
  /\ c.answer \in {"refused", "leaving"} /\ c.tab # None
  /\ DropToken
  /\ IF c.answer = "leaving" THEN Unload(c.tab, rest)
     ELSE /\ Quiet(c.tab, IF c.kind = "me" THEN "login" ELSE screen[c.tab], rest)
          /\ UNCHANGED shown
  /\ UNCHANGED <<platform, filter, live, owner, sent, newest>>

\* The browser has left the page before the body arrived.
Leave(c) ==
  /\ c.answer = "leaving" /\ c.tab # None
  /\ UNCHANGED token
  /\ Unload(c.tab, calls \ {c})
  /\ UNCHANGED <<platform, filter, live, owner, sent, newest, misled, abandoned>>

\* Mistake: AuthGate lets the error pass.
CheckFailsUnseen(c) ==
  /\ c.answer \in {"failed", "error"} /\ c.tab # None /\ c.kind \in {"me", "check"}
  /\ calls' = calls \ {c}
  /\ UNCHANGED <<platform, token, screen, filter, shown, live, owner, sent, nextId, newest, misled,
                 abandoned>>

\* AuthGate, boot and the login page drop the token on any other error too.
CheckFails(c) ==
  LET rest == calls \ {c} IN
  /\ c.answer \in {"failed", "error"} /\ c.tab # None /\ c.kind \in {"me", "check"}
  /\ DropToken
  /\ Quiet(c.tab, IF c.kind = "me" THEN "login" ELSE screen[c.tab], rest)
  /\ UNCHANGED <<platform, filter, shown, live, owner, sent, newest>>

\* Mistake: every error ends the session.
CallFailsHard(c) ==
  /\ c.answer = "failed" /\ c.tab # None /\ c.kind \in {"load", "login"}
  /\ token' = 0 /\ GiveUp
  /\ Quiet(c.tab, "login", calls \ {c})
  /\ misled' = misled \cup Tabs
  /\ UNCHANGED <<platform, filter, shown, live, owner, sent, newest>>

\* A list or a login that fails leaves an error message.
CallFails(c) ==
  /\ c.answer = "failed" /\ c.tab # None /\ c.kind \in {"load", "login"}
  /\ calls' = calls \ {c}
  /\ IF c.kind = "load"
     THEN /\ misled' = misled \cup {c.tab}
          /\ newest' = [newest EXCEPT ![c.tab] = IF c.id > @ THEN c.id ELSE @]
     ELSE UNCHANGED <<misled, newest>>
  /\ UNCHANGED <<platform, token, screen, filter, shown, live, owner, sent, nextId, abandoned>>

\* The token is good: the page opens and loads its list, and the login page
\* gives way to it.
Checked(c) ==
  LET rest == calls \ {c} IN
  /\ c.answer = "ok" /\ c.tab # None /\ c.kind \in {"me", "check"}
  /\ UNCHANGED token
  /\ IF c.kind = "me" THEN Send(c.tab, "app", "load", rest, filter[c.tab])
     ELSE IF screen[c.tab] = "login" THEN Send(c.tab, "checking", "me", rest, None)
     ELSE Quiet(c.tab, screen[c.tab], rest)
  /\ misled' = IF token = c.token THEN misled ELSE misled \cup {c.tab}
  /\ UNCHANGED <<platform, filter, shown, live, owner, sent, newest, abandoned>>

\* setToken; the browser goes to a page behind AuthGate, the phone loads.
LoggedIn(c) ==
  LET rest == calls \ {c} IN
  /\ c.answer = "ok" /\ c.tab # None /\ c.kind = "login"
  /\ token' = c.got /\ GiveUp
  /\ IF platform = "web" THEN Send(c.tab, "checking", "me", rest, None)
     ELSE Send(c.tab, "app", "load", rest, filter[c.tab])
  /\ misled' = misled \cup (Tabs \ {c.tab})
  /\ UNCHANGED <<platform, filter, shown, live, owner, sent, newest>>

\* Mistake: a load without an owner is shown.
LoadedBare(c) ==
  /\ c.answer = "ok" /\ c.tab # None /\ c.kind = "load"
  /\ calls' = calls \ {c}
  /\ shown' = [shown EXCEPT ![c.tab] = c.arg]
  /\ UNCHANGED <<platform, token, screen, filter, live, owner, sent, nextId, newest, misled,
                 abandoned>>

\* setTransactions and the like, for whatever request answered last.
Loaded(c) ==
  LET inOrder == c.id > newest[c.tab] IN
  /\ c.answer = "ok" /\ c.tab # None /\ c.kind = "load"
  /\ calls' = calls \ {c}
  /\ shown' = [shown EXCEPT ![c.tab] = [user |-> owner[c.token], filter |-> c.arg]]
  /\ newest' = [newest EXCEPT ![c.tab] = IF inOrder THEN c.id ELSE @]
  /\ misled' = IF inOrder /\ c.token = token THEN misled \ {c.tab} ELSE misled \cup {c.tab}
  /\ UNCHANGED <<platform, token, screen, filter, live, owner, sent, nextId, abandoned>>

\* After the answer to a logout, whichever it is: the browser goes to the
\* login page, the phone ends the session it has by now and clears its lists.
LoggedOut(c) ==
  LET rest == calls \ {c} IN
  /\ c.answer \in {"ok", "failed"} /\ c.tab # None /\ c.kind = "logout"
  /\ UNCHANGED token
  /\ Land(c.tab, rest)
  /\ shown' = [shown EXCEPT ![c.tab] = None]
  /\ misled' = misled \cup {c.tab}
  /\ UNCHANGED <<platform, filter, live, owner, sent, newest, abandoned>>

Answer(c) == AnswerLogin(c) \/ AnswerLogout(c) \/ AnswerRead(c) \/ Fails(c)
Receive(c) ==
  \/ Lost(c) \/ Unauthorized(c) \/ DropAgain(c) \/ Leave(c) \/ CheckFails(c) \/ CallFails(c)
  \/ Checked(c) \/ LoggedIn(c) \/ Loaded(c) \/ LoggedOut(c)

Next ==
  \/ \E t \in Tabs : Visit(t) \/ OpenLogin(t) \/ Logout(t)
  \/ \E t \in Tabs, u \in Users \cup {None} : SubmitLogin(t, u)
  \/ \E t \in Tabs, f \in Filters : ChangeFilter(t, f)
  \/ Expire
  \/ \E c \in calls : Answer(c) \/ Receive(c)

\* A request a page waits for gets the head of an answer, or fetchAPI ends it
\* after 30 seconds and the page learns of that.  No timer runs for the body.
Fairness ==
  /\ WF_vars(\E c \in calls : c.tab # None /\ Answer(c))
  /\ WF_vars(\E c \in calls : c.answer = "failed" /\ CheckFails(c))

Spec == Init /\ [][Next]_vars /\ Fairness

(***************************************************************************)
(* Properties                                                              *)
(***************************************************************************)

TypeOK ==
  /\ platform \in {"web", "mobile"} /\ token \in {0} \cup Tokens
  /\ screen \in [Tabs -> {"closed", "login", "checking", "app"}]
  /\ filter \in [Tabs -> Filters]
  /\ shown \in [Tabs -> [user : Users, filter : Filters] \cup {None}]
  /\ calls \subseteq Call
  /\ live \subseteq Tokens /\ abandoned \subseteq Tokens
  /\ owner \in [Tokens -> Users \cup {None}]
  /\ sent \in 0..MaxSent /\ nextId \in Nat /\ newest \in [Tabs -> Nat] /\ misled \subseteq Tabs

\* A token the server still accepts is the stored one, or on its way, or one
\* the client has given up: overwritten by another login, dropped with a late
\* 401 or a check that failed, lost with its answer, or not revoked because
\* the logout did not reach the server (logout, handleUnauthorized).
LiveTokensAccounted ==
  live \subseteq {token} \cup abandoned
                 \cup {c.got : c \in calls} \cup {c.token : c \in {d \in calls : d.kind = "logout"}}

\* The list of a page is the one its filters ask for, of the user whose token
\* is stored, once its loads have answered: unless loads overtook each other,
\* one failed, or the session has changed under the page.
ScreenTellsTheTruth ==
  \A t \in MyTabs :
    (screen[t] = "app" /\ t \notin misled /\ ~\E c \in calls : c.tab = t) =>
      shown[t] = [user |-> owner[token], filter |-> filter[t]]

\* A session the server accepts ends only when the user ends it, when /me
\* fails for another reason, when the server could not check the token of a
\* request, or when a 401 to something else arrives: to a request with an older
\* token, of which even the body may come after a new login, or to a wrong
\* password in another tab (handleUnauthorized, AuthGate).
LiveSessionEndsForCause ==
  [][(token \in live /\ token' = 0) =>
       \/ \E c \in calls' \ calls : c.kind = "logout" /\ c.token = token
       \/ \E c \in calls \ calls' :
            \/ c.kind \in {"me", "check"} /\ c.answer \in {"failed", "error"}
            \/ c.answer = "unverified"
            \/ c.answer = "unauthorized" /\ (c.token # token \/ c.kind = "login")
            \/ c.answer \in {"refused", "leaving"} /\ c.token # token]_vars

\* The head of an answer to /me has come, and its body may not follow.
Reading(t) == \E c \in calls : c.tab = t /\ c.kind = "me" /\ c.answer \notin {"none", "failed"}

\* A page that waits for /me opens or gives way to the login page, unless an
\* answer has begun that does not end: nothing else keeps it waiting (fetchAPI,
\* AuthGate, boot).
CheckingEnds == \A t \in Tabs : screen[t] = "checking" ~> (screen[t] # "checking" \/ Reading(t))

=============================================================================
