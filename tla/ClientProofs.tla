---------------------------- MODULE ClientProofs ----------------------------
(***************************************************************************)
(* Proofs about Client, for any number of tabs, users, filters, logins and *)
(* requests: what the session of the clients and the lists they show keep  *)
(* to, whatever the order in which answers arrive.                         *)
(*                                                                         *)
(* The invariant follows each request from the moment it is sent: its      *)
(* number, the token it carries, what its answer says of that token, and,  *)
(* for the list on the screen, that the last load a tab has sent asks for  *)
(* what the tab shows.                                                     *)
(***************************************************************************)
EXTENDS Client, WellFoundedInduction, TLAPS

Reads == {"me", "check", "load"}

\* Requests are numbered as they are sent.
Numbered ==
  /\ nextId >= 1
  /\ \A c \in calls : c.id < nextId
  /\ \A c, d \in calls : c.id = d.id => c = d
  /\ \A t \in Tabs : newest[t] < nextId

\* A token somebody holds has an owner.
Given(k) == k # 0 => owner[k] # None
Known ==
  /\ Given(token)
  /\ \A k \in live : owner[k] # None
  /\ \A c \in calls : Given(c.token) /\ Given(c.got)

\* A 401 whose body is being read.
Refusals == {"refused", "leaving"}

\* What a request and its answer say of each other and of its token.
Shape(c) ==
  /\ c.kind = "login" => c.arg \in Users \cup {None}
  /\ c.kind = "load" => c.arg \in Filters
  /\ c.kind = "logout" =>
       /\ c.token # 0 /\ c.answer \in {"none", "ok", "failed"}
       /\ c.answer = "ok" => c.token \notin live
       /\ c.answer = "failed" => c.token \in abandoned
  /\ c.got # 0 <=> (c.kind = "login" /\ c.answer = "ok")
  /\ c.answer \in Refusals => c.kind \in {"me", "check"}
  /\ c.kind \in Reads => /\ c.answer = "ok" => c.token # 0
                         /\ c.answer = "unauthorized" => c.token \notin live

\* A token on its way is nobody else's.
Fresh ==
  \A c \in calls : c.got # 0 =>
    /\ c.got # token
    /\ \A d \in calls : d.token # c.got /\ (d # c => d.got # c.got)

\* Once the stored token is sent, every later request carries it too.
InSession ==
  \A c, d \in calls : c.id < d.id /\ token # 0 /\ c.token = token => d.token = token

\* While the body of a 401 is read, the token it spoke of is stored no longer.
Cleared == \A c \in calls : c.answer \in Refusals /\ token # 0 => c.token # token

CallInv == Numbered /\ Known /\ (\A c \in calls : Shape(c)) /\ Fresh /\ InSession /\ Cleared

\* The last load that tab t has sent, if it is in flight and none after it has
\* ended, asks for what the filters say; and the tab either waits for such a
\* load or shows the right list, unless it has a reason not to.
Loads(t) == {c \in calls : c.kind = "load" /\ c.tab = t}
Last(c, t) == c.id > newest[t] /\ \A d \in Loads(t) : d.id <= c.id
LastAsks(t) == \A c \in Loads(t) : Last(c, t) => c.arg = filter[t]
Waits(t) == \E c \in Loads(t) : Last(c, t) /\ c.arg = filter[t] /\ c.token = token
Right(t) ==
  /\ \A c \in Loads(t) : c.id <= newest[t]
  /\ token # 0
  /\ shown[t] = [user |-> owner[token], filter |-> filter[t]]
ScreenOK(t) ==
  screen[t] = "app" => LastAsks(t) /\ (t \notin misled => Waits(t) \/ Right(t))

ClientInv ==
  TypeOK /\ CallInv /\ LiveTokensAccounted /\ \A t \in Tabs : ScreenOK(t)

-----------------------------------------------------------------------------
(* The set of requests in flight.                                          *)

\* The fields of a call and their types.
LEMMA CallFields ==
  ASSUME NEW c \in Call
  PROVE  /\ c.id \in Nat /\ c.kind \in Kinds /\ c.tab \in Tabs \cup {None}
         /\ c.token \in {0} \cup Tokens /\ c.arg \in Users \cup Filters \cup {None}
         /\ c.got \in {0} \cup Tokens
         /\ c.answer \in {"none", "ok", "unauthorized", "unverified", "error", "failed",
                         "refused", "leaving"}
BY DEF Call

\* Requests that no page waits for are the same but for their tab.
Kin(d, c) ==
  /\ d.id = c.id /\ d.kind = c.kind /\ d.token = c.token /\ d.arg = c.arg
  /\ d.got = c.got /\ d.answer = c.answer
  /\ d.tab = c.tab \/ d.tab = None

Dropped(c) == [c EXCEPT !.tab = None]

\* A call whose page is gone differs from itself in its tab only.
LEMMA DroppedKin ==
  ASSUME NEW c \in Call
  PROVE  Dropped(c) \in Call /\ Kin(Dropped(c), c) /\ Dropped(c).tab = None
<1>1. Dropped(c) \in Call  BY DEF Dropped, Call
<1>2. Kin(Dropped(c), c) /\ Dropped(c).tab = None  BY DEF Dropped, Call, Kin
<1> QED BY <1>1, <1>2

\* What a request is when it leaves the client.
LEMMA NewCallIs ==
  ASSUME NEW i \in Nat, NEW k \in Kinds, NEW t \in Tabs, NEW tk \in {0} \cup Tokens,
         NEW a \in Users \cup Filters \cup {None}
  PROVE  LET n == NewCall(i, k, t, tk, a)
         IN  /\ n \in Call
             /\ n.id = i /\ n.kind = k /\ n.tab = t /\ n.token = tk /\ n.arg = a
             /\ n.got = 0 /\ n.answer = "none"
BY DEF NewCall, Call

\* cs is some of the requests in flight, some of them dropped.
From(cs) ==
  /\ cs \subseteq Call
  /\ \A d \in cs : \E c \in calls : Kin(d, c)
  /\ \A d, e \in cs : d.id = e.id => d = e

\* Calls taken away leave calls that were there.
LEMMA FromRest ==
  ASSUME TypeOK, Numbered, NEW R \in SUBSET calls
  PROVE  From(R)
<1>1. \A d \in R : Kin(d, d)  BY DEF Kin
<1> QED BY <1>1 DEF From, TypeOK, Numbered

\* A page load takes the tab away from the calls of that tab and from no other.
LEMMA FromOrphaned ==
  ASSUME TypeOK, Numbered, NEW R \in SUBSET calls, NEW t \in Tabs
  PROVE  /\ From(Orphaned(R, t))
         /\ \A d \in Orphaned(R, t) : d.tab # t /\ (d.tab # None => d \in R)
         /\ \A c \in R : /\ c.tab # t => c \in Orphaned(R, t)
                         /\ \E d \in Orphaned(R, t) : Kin(d, c)
<1> DEFINE Image(c) == IF c.tab = t THEN Dropped(c) ELSE c
           cs == {Image(c) : c \in R}
<1>1. cs = Orphaned(R, t)  BY DEF Orphaned, Dropped
<1>2. R \subseteq Call /\ None # t  BY ClientAssumption DEF TypeOK
<1>3. \A c \in R : /\ Image(c) \in Call /\ Kin(Image(c), c) /\ Image(c).tab # t
                   /\ Image(c).tab # None => Image(c) = c
  <2> SUFFICES ASSUME NEW c \in R
               PROVE  /\ Image(c) \in Call /\ Kin(Image(c), c) /\ Image(c).tab # t
                      /\ Image(c).tab # None => Image(c) = c
    OBVIOUS
  <2>1. c \in Call  BY <1>2
  <2>2. CASE c.tab = t  BY <1>2, <2>1, <2>2, DroppedKin
  <2>3. CASE c.tab # t  BY <2>1, <2>3 DEF Kin
  <2> QED BY <2>2, <2>3
<1>4. \A c \in R : c.tab # t => Image(c) = c  OBVIOUS
<1> HIDE DEF Image
<1>5. \A c, e \in R : Image(c).id = Image(e).id => Image(c) = Image(e)
  <2> SUFFICES ASSUME NEW c \in R, NEW e \in R, Image(c).id = Image(e).id
               PROVE  Image(c) = Image(e)
    OBVIOUS
  <2>1. c.id = e.id  BY <1>3 DEF Kin
  <2>2. c = e  BY <2>1 DEF Numbered
  <2> QED BY <2>2
<1>6. From(cs)
  <2>1. cs \subseteq Call  BY <1>3
  <2>2. \A d \in cs : \E c \in calls : Kin(d, c)  BY <1>3
  <2>3. \A d, e \in cs : d.id = e.id => d = e  BY <1>5
  <2> QED BY <2>1, <2>2, <2>3 DEF From
<1>7. \A d \in cs : d.tab # t /\ (d.tab # None => d \in R)  BY <1>3
<1>8. \A c \in R : (c.tab # t => c \in cs) /\ \E d \in cs : Kin(d, c)
  BY <1>3, <1>4
<1> HIDE DEF cs
<1> QED BY <1>1, <1>6, <1>7, <1>8

-----------------------------------------------------------------------------
(* How requests are sent, answered and received.                           *)

\* A request that is being sent.
SentNow(n) ==
  /\ n \in Call /\ n.id = nextId /\ n.got = 0 /\ n.answer = "none"
  /\ n.token = token' \/ (token' = 0 /\ n.token = token)
  /\ n.kind = "login" => n.arg \in Users \cup {None}
  /\ n.kind = "load" => n.arg \in Filters
  /\ n.kind = "logout" => n.token # 0

\* The stored token stays, goes, or is the one a request that ends has brought.
TokenMoves(cs) ==
  \/ token' = token
  \/ token' = 0
  \/ \E g \in calls : g.got # 0 /\ token' = g.got /\ \A d \in cs : d.id # g.id

\* The requests cs go on and those of N, one at most, are sent.
Moved(cs, N) ==
  /\ From(cs) /\ calls' = cs \cup N
  /\ \A n \in N : SentNow(n)
  /\ \A m, n \in N : m = n
  /\ (N = {} /\ nextId' = nextId) \/ nextId' = nextId + 1

\* Old calls with others' answers, and new ones, are calls.
LEMMA MovedType ==
  ASSUME TypeOK, NEW cs, NEW N, Moved(cs, N)
  PROVE  calls' \subseteq Call /\ nextId' \in Nat
BY DEF Moved, From, SentNow, TypeOK

\* The kinds of requests that Send sends, with what they ask.
Asks(k, a) ==
  /\ k \in Kinds \ {"logout"} /\ a \in Users \cup Filters \cup {None}
  /\ k = "login" => a \in Users \cup {None}
  /\ k = "load" => a \in Filters
IsCall(n, k, t, a) == n.kind = k /\ n.tab = t /\ n.token = token' /\ n.arg = a

\* Send adds one call, numbered next, to those the step keeps.
LEMMA Sends ==
  ASSUME TypeOK, token' \in {0} \cup Tokens, NEW t \in Tabs, NEW s, NEW k, NEW cs, NEW a,
         From(cs), Asks(k, a), Send(t, s, k, cs, a)
  PROVE  \E n \in Call : Moved(cs, {n}) /\ IsCall(n, k, t, a)
<1>0. PICK i \in Nat, tk \in {0} \cup Tokens : i = nextId /\ tk = token'  BY DEF TypeOK
<1> DEFINE n == NewCall(i, k, t, tk, a)
<1>1. /\ n \in Call /\ n.id = nextId /\ n.kind = k /\ n.tab = t /\ n.token = token'
      /\ n.arg = a /\ n.got = 0 /\ n.answer = "none"
  BY <1>0, NewCallIs DEF Asks
<1>2. calls' = cs \cup {n} /\ nextId' = nextId + 1  BY <1>0 DEF Send
<1> HIDE DEF n
<1>3. SentNow(n)  BY <1>1 DEF SentNow, Asks
<1> QED BY <1>1, <1>2, <1>3 DEF Moved, IsCall

\* A screen that asks nothing adds no call.
LEMMA Quiets ==
  ASSUME NEW t, NEW s, NEW cs, From(cs), Quiet(t, s, cs)
  PROVE  Moved(cs, {})
BY DEF Quiet, Moved

\* What holds of the calls holds after any step that keeps, drops or adds calls, as long
\* as the stored token moves as TokenMoves says.
LEMMA CallsMove ==
  ASSUME TypeOK, TypeOK', CallInv, NEW cs, NEW N, Moved(cs, N), owner' = owner, live' \subseteq live, abandoned \subseteq abandoned',
         \A t \in Tabs : newest'[t] < nextId, TokenMoves(cs)
  PROVE  CallInv'
<1>0. /\ From(cs) /\ calls' = cs \cup N
      /\ \A n \in N : SentNow(n)
      /\ \A m, n \in N : m = n
      /\ (N = {} /\ nextId' = nextId) \/ nextId' = nextId + 1
  BY DEF Moved
<1>1. /\ \A d \in cs : d \in Call /\ \E c \in calls : Kin(d, c)
      /\ \A d, e \in cs : d.id = e.id => d = e
  BY <1>0 DEF From
<1>2. /\ \A c \in calls : c \in Call /\ c.id < nextId /\ Shape(c)
                          /\ Given(c.token) /\ Given(c.got)
      /\ nextId \in Nat /\ nextId >= 1
  BY DEF TypeOK, CallInv, Known, Numbered
<1>3. \A d \in cs : d.id \in Nat /\ d.id < nextId  BY <1>1, <1>2, CallFields DEF Kin
<1>4. \A n \in N : n.id = nextId /\ n.got = 0  BY <1>0 DEF SentNow
<1>5. Numbered'
  <2>1. nextId' >= 1 /\ nextId <= nextId' /\ nextId' \in Nat  BY <1>0, <1>2
  <2>2. \A c \in cs \cup N : c.id < nextId'
    <3>1. \A c \in N : nextId' = nextId + 1  BY <1>0
    <3> QED BY <1>2, <1>3, <1>4, <2>1, <3>1
  <2>3. \A c, d \in cs \cup N : c.id = d.id => c = d  BY <1>0, <1>1, <1>2, <1>3, <1>4
  <2>4. \A t \in Tabs : newest'[t] < nextId'
    <3> SUFFICES ASSUME NEW t \in Tabs PROVE newest'[t] < nextId'
      OBVIOUS
    <3>1. newest'[t] < nextId /\ newest'[t] \in Nat  BY DEF TypeOK
    <3> QED BY <1>2, <2>1, <3>1
  <2> QED BY <1>0, <2>1, <2>2, <2>3, <2>4 DEF Numbered
<1>6. Given(token)'
  BY <1>2 DEF TokenMoves, CallInv, Known, Given
<1>7. Known'
  <2>1. \A k \in live' : owner'[k] # None  BY DEF CallInv, Known
  <2>2. \A c \in cs : Given(c.token)' /\ Given(c.got)'  BY <1>1, <1>2 DEF Kin, Given
  <2>3. \A c \in N : Given(c.token)' /\ Given(c.got)'
    BY <1>0, <1>4, <1>6 DEF SentNow, Given, CallInv, Known
  <2> QED BY <1>0, <1>6, <2>1, <2>2, <2>3 DEF Known
<1>8. ASSUME NEW c \in calls' PROVE Shape(c)'
  <2>1. CASE c \in N
    <3>1. c \in Call /\ c.answer = "none" /\ c.got = 0  BY <1>0, <2>1 DEF SentNow
    <3> QED BY <1>0, <2>1, <3>1 DEF SentNow, Shape, Refusals
  <2>2. CASE c \in cs
    <3>1. PICK b \in calls : Kin(c, b)  BY <1>1, <2>2
    <3>2. Shape(b)  BY <1>2
    <3> QED BY <3>1, <3>2 DEF Kin, Shape
  <2> QED BY <1>0, <2>1, <2>2
<1>9. \A c \in calls : c.got # 0 => \A b \in calls : b.token # c.got /\ (b.id # c.id => b.got # c.got)
  BY DEF CallInv, Fresh
<1>10. \A c \in calls : c.got # 0 => c.got # token  BY DEF CallInv, Fresh
<1>11. ASSUME NEW c \in cs, c.got # 0
       PROVE  /\ c.got # token'
              /\ \A d \in cs : d.token # c.got /\ (d # c => d.got # c.got)
              /\ \A n \in N : n.token # c.got /\ n.got # c.got
  <2>1. PICK b \in calls : Kin(c, b)  BY <1>1
  <2>2. b.got = c.got /\ b.id = c.id  BY <2>1 DEF Kin
  <2>3. c.got # token'
    <3>1. CASE \E g \in calls : g.got # 0 /\ token' = g.got /\ \A d \in cs : d.id # g.id
      BY <1>9, <1>11, <2>2, <3>1
    <3> QED BY <1>10, <1>11, <2>2, <3>1 DEF TokenMoves
  <2>4. ASSUME NEW d \in cs PROVE d.token # c.got /\ (d # c => d.got # c.got)
    <3>1. PICK e \in calls : Kin(d, e)  BY <1>1
    <3>2. e.token = d.token /\ e.got = d.got /\ e.id = d.id  BY <3>1 DEF Kin
    <3> QED BY <1>1, <1>9, <1>11, <2>2, <3>2
  <2>5. \A n \in N : n.token # c.got /\ n.got # c.got
    BY <1>0, <1>10, <1>11, <2>2, <2>3 DEF SentNow
  <2> QED BY <2>3, <2>4, <2>5
<1>12. Fresh'
  <2> SUFFICES ASSUME NEW c \in calls', c.got # 0
               PROVE  /\ c.got # token'
                      /\ \A d \in calls' : d.token # c.got /\ (d # c => d.got # c.got)
    BY DEF Fresh
  <2>1. c \in cs  BY <1>0, <1>4
  <2> QED BY <1>0, <1>11, <2>1
<1>13. InSession'
  <2> SUFFICES ASSUME NEW c \in calls', NEW d \in calls', c.id < d.id, token' # 0,
                      c.token = token'
               PROVE  d.token = token'
    BY DEF InSession
  <2>1. CASE d \in N  BY <1>0, <2>1 DEF SentNow
  <2>2. CASE c \in N
    <3>1. c.id = nextId /\ nextId \in Nat  BY <1>2, <1>4, <2>2
    <3>2. d \notin N  BY <1>4, <3>1
    <3>3. d.id \in Nat /\ d.id < nextId  BY <1>0, <1>3, <3>2
    <3> QED BY <3>1, <3>3
  <2>3. CASE c \in cs /\ d \in cs
    <3>1. PICK b \in calls : Kin(c, b)  BY <1>1, <2>3
    <3>2. PICK e \in calls : Kin(d, e)  BY <1>1, <2>3
    <3>3. b.id < e.id /\ b.token = token' /\ e.token = d.token
      BY <3>1, <3>2 DEF Kin
    <3>4. token' = token
      <4>1. ~ \E g \in calls : g.got # 0 /\ token' = g.got  BY <1>9, <3>3
      <4> QED BY <4>1 DEF TokenMoves
    <3> QED BY <3>3, <3>4 DEF CallInv, InSession
  <2> QED BY <1>0, <2>1, <2>2, <2>3
<1>14. Cleared'
  <2> SUFFICES ASSUME NEW c \in calls', c.answer \in Refusals, token' # 0
               PROVE  c.token # token'
    BY DEF Cleared
  <2>1. c \in cs  BY <1>0 DEF SentNow, Refusals
  <2>2. PICK b \in calls : Kin(c, b)  BY <1>1, <2>1
  <2>3. b.token = c.token /\ b.answer = c.answer  BY <2>2 DEF Kin
  <2>4. CASE token' = token  BY <2>3, <2>4 DEF CallInv, Cleared
  <2>5. CASE \E g \in calls : g.got # 0 /\ token' = g.got  BY <1>9, <2>3, <2>5
  <2> QED BY <2>4, <2>5 DEF TokenMoves
<1> QED BY <1>5, <1>7, <1>8, <1>12, <1>13, <1>14 DEF CallInv

\* Request c gets the answer a, and the stored token stays or goes; k is a token
\* the server may have made.
LEMMA AnswerMove ==
  ASSUME TypeOK, TypeOK', CallInv, NEW c \in calls, c.got = 0, NEW a \in Call,
         a.id = c.id, a.kind = c.kind, a.tab = c.tab, a.token = c.token, a.arg = c.arg,
         calls' = (calls \ {c}) \cup {a}, UNCHANGED <<nextId, newest>>,
         token' = 0 \/ (token' = token /\ a.answer \notin Refusals),
         abandoned \subseteq abandoned',
         NEW k \in Tokens, live' \subseteq live \cup {k},
         \A j \in Tokens : owner[j] # None => owner'[j] = owner[j],
         k \in live' \/ a.got # 0 => (owner[k] = None /\ owner'[k] # None) \/ (k \in live /\ a.got = 0),
         a.got \in {0, k}, Shape(a)'
  PROVE  CallInv'
<1>1. /\ \A d \in calls : d \in Call /\ Shape(d) /\ Given(d.token) /\ Given(d.got)
      /\ Given(token) /\ token \in {0} \cup Tokens
  BY DEF TypeOK, CallInv, Known
<1>2. \A j \in {0} \cup Tokens : Given(j) => Given(j)'  BY DEF Given
<1>3. \A d \in calls : d.token \in {0} \cup Tokens /\ d.got \in {0} \cup Tokens
  BY <1>1, CallFields
<1>5. a.got # 0 => a.got = k /\ owner[k] = None /\ owner'[k] # None  OBVIOUS
<1>6. Numbered'
  <2>1. \A d \in calls' : \E e \in calls : d.id = e.id /\ (d = a \/ (d = e /\ d.id # a.id))
    BY DEF CallInv, Numbered
  <2> QED BY <2>1 DEF CallInv, Numbered
<1>7. Known'
  <2>1. \A d \in calls : Given(d.token)' /\ Given(d.got)'  BY <1>1, <1>2, <1>3
  <2>2. Given(a.token)' /\ Given(a.got)'  BY <1>5, <2>1 DEF Given
  <2>3. \A j \in live' : owner'[j] # None  BY DEF CallInv, Known, TypeOK
  <2>4. Given(token)'  BY <1>1, <1>2 DEF Given
  <2> QED BY <2>1, <2>2, <2>3, <2>4 DEF Known
<1>8. ASSUME NEW d \in calls' PROVE Shape(d)'
  <2>1. CASE d = a  BY <2>1
  <2>2. CASE d \in calls
    <3>1. Shape(d) /\ Given(d.token) /\ d.token \in {0} \cup Tokens  BY <1>1, <1>3, <2>2
    <3>2. d.token # 0 /\ d.token \notin live => d.token \notin live'
      BY <3>1 DEF Given
    <3>3. d.token = 0 => d.token \notin live'  BY DEF TypeOK, Tokens
    <3> QED BY <3>1, <3>2, <3>3 DEF Shape
  <2> QED BY <2>1, <2>2
<1>9. \A d \in calls : d.token # 0 => owner[d.token] # None  BY <1>1 DEF Given
<1>10. \A d \in calls : d.got # 0 => owner[d.got] # None  BY <1>1 DEF Given
<1>11. token # 0 => owner[token] # None  BY <1>1 DEF Given
<1>12. Fresh'
  <2> SUFFICES ASSUME NEW d \in calls', d.got # 0
               PROVE  /\ d.got # token'
                      /\ \A e \in calls' : e.token # d.got /\ (e # d => e.got # d.got)
    BY DEF Fresh
  <2>1. CASE d = a  BY <1>5, <1>9, <1>10, <1>11, <2>1
  <2>2. CASE d # a
    <3>1. d \in calls /\ d # c  BY <2>2
    <3>2. a.token # d.got /\ a.got # d.got  BY <1>5, <1>10, <3>1 DEF CallInv, Fresh
    <3> QED BY <3>1, <3>2 DEF CallInv, Fresh
  <2> QED BY <2>1, <2>2
<1>13. InSession'
  <2>1. \A d \in calls' : \E e \in calls : d.id = e.id /\ d.token = e.token  OBVIOUS
  <2> QED BY <2>1 DEF CallInv, InSession
<1>14. Cleared'  BY DEF CallInv, Cleared
<1> QED BY <1>6, <1>7, <1>8, <1>12, <1>13, <1>14 DEF CallInv

-----------------------------------------------------------------------------
(* What a step keeps of the tokens and of the screens.                     *)

\* The requests R, and what those that end leave, still account for every token.
LEMMA AccountedMove ==
  ASSUME LiveTokensAccounted, live' \subseteq live, abandoned \subseteq abandoned',
         NEW R \in SUBSET calls, \A c \in R : \E d \in calls' : Kin(d, c),
         \A c \in calls \ R :
           /\ c.got \in live' => c.got \in abandoned' \cup {token'}
           /\ c.kind = "logout" /\ c.token \in live' => c.token \in abandoned',
         \/ token' = token \/ token \notin live \/ token \in abandoned'
         \/ \E d \in calls' : d.kind = "logout" /\ d.token = token
  PROVE  LiveTokensAccounted'
<1> SUFFICES ASSUME NEW k \in live', k # token', k \notin abandoned'
             PROVE  \E d \in calls' : d.got = k \/ (d.kind = "logout" /\ d.token = k)
  BY DEF LiveTokensAccounted
<1>1. k \in live /\ k \notin abandoned  OBVIOUS
<1>2. CASE k = token  BY <1>1, <1>2
<1>3. CASE k # token
  <2>1. PICK c \in calls : c.got = k \/ (c.kind = "logout" /\ c.token = k)
    BY <1>1, <1>3 DEF LiveTokensAccounted
  <2>2. c \in R  BY <2>1
  <2>3. PICK d \in calls' : Kin(d, c)  BY <2>2
  <2> QED BY <2>1, <2>3 DEF Kin
<1> QED BY <1>2, <1>3

\* The loads of tab t go on, whatever the others do.
LEMMA ScreenSame ==
  ASSUME NEW t \in Tabs, ScreenOK(t), screen'[t] = "app" => screen[t] = "app",
         filter'[t] = filter[t], newest'[t] = newest[t],
         t \notin misled' => /\ t \notin misled /\ token' = token /\ shown'[t] = shown[t]
                             /\ token # 0 => owner'[token] = owner[token],
         \A d \in calls' : d.kind = "load" /\ d.tab = t =>
           \E c \in Loads(t) : c.id = d.id /\ c.arg = d.arg /\ c.token = d.token,
         \A c \in Loads(t) : \E d \in calls' :
           /\ d.kind = "load" /\ d.tab = t
           /\ d.id = c.id /\ d.arg = c.arg /\ d.token = c.token
  PROVE  ScreenOK(t)'
<1> SUFFICES ASSUME screen'[t] = "app"
             PROVE  LastAsks(t)' /\ (t \notin misled' => Waits(t)' \/ Right(t)')
  BY DEF ScreenOK
<1>1. LastAsks(t) /\ (t \notin misled => Waits(t) \/ Right(t))  BY DEF ScreenOK
<1> DEFINE L == Loads(t)
           M == Loads(t)'
<1>2. /\ \A d \in M : \E c \in L : c.id = d.id /\ c.arg = d.arg /\ c.token = d.token
      /\ \A c \in L : \E d \in M : d.id = c.id /\ d.arg = c.arg /\ d.token = c.token
  BY DEF Loads
<1>3. LastAsks(t)'
  <2> SUFFICES ASSUME NEW d \in M, Last(d, t)' PROVE d.arg = filter'[t]
    BY DEF LastAsks
  <2>1. PICK c \in L : c.id = d.id /\ c.arg = d.arg  BY <1>2
  <2>2. d.id > newest'[t] /\ \A e \in M : e.id <= d.id  BY DEF Last
  <2> HIDE DEF M, L
  <2>3. \A e \in L : e.id <= c.id  BY <1>2, <2>1, <2>2
  <2>4. Last(c, t)  BY <2>1, <2>2, <2>3 DEF Last, L
  <2> QED BY <1>1, <2>1, <2>4 DEF LastAsks, L
<1>4. ASSUME t \notin misled', Waits(t) PROVE Waits(t)'
  <2>1. PICK c \in L : Last(c, t) /\ c.arg = filter[t] /\ c.token = token
    BY <1>4 DEF Waits
  <2>2. PICK d \in M : d.id = c.id /\ d.arg = c.arg /\ d.token = c.token  BY <1>2
  <2>3. c.id > newest[t] /\ \A e \in L : e.id <= c.id  BY <2>1 DEF Last
  <2> HIDE DEF M, L
  <2>4. \A e \in M : e.id <= d.id  BY <1>2, <2>2, <2>3
  <2>5. Last(d, t)'  BY <2>2, <2>3, <2>4 DEF Last, M
  <2> QED BY <1>4, <2>1, <2>2, <2>5 DEF Waits, M
<1>5. ASSUME t \notin misled', Right(t) PROVE Right(t)'
  <2>1. /\ token # 0 /\ \A c \in L : c.id <= newest[t]
        /\ shown[t] = [user |-> owner[token], filter |-> filter[t]]
    BY <1>5 DEF Right
  <2> HIDE DEF M, L
  <2>2. \A d \in M : d.id <= newest'[t]  BY <1>2, <2>1
  <2>3. /\ token' # 0
        /\ shown'[t] = [user |-> owner'[token'], filter |-> filter'[t]]
    BY <1>5, <2>1
  <2> QED BY <2>2, <2>3 DEF Right, M
<1> QED BY <1>1, <1>3, <1>4, <1>5

\* ... in a step that sends the requests N.
LEMMA ScreenOther ==
  ASSUME NEW t \in Tabs, ScreenOK(t), screen'[t] = "app" => screen[t] = "app",
         filter'[t] = filter[t], newest'[t] = newest[t],
         t \notin misled' => /\ t \notin misled /\ token' = token /\ shown'[t] = shown[t]
                             /\ owner' = owner,
         NEW cs, NEW N, Moved(cs, N), \A n \in N : n.kind # "load" \/ n.tab # t,
         \A d \in cs : d.tab = t => d \in calls,
         \A c \in calls : c.kind = "load" /\ c.tab = t => c \in cs
  PROVE  ScreenOK(t)'
<1>1. calls' = cs \cup N  BY DEF Moved
<1>2. \A d \in calls' : d.kind = "load" /\ d.tab = t => d \in Loads(t)
  BY <1>1 DEF Loads
<1>3. \A c \in Loads(t) : c \in calls' /\ c.kind = "load" /\ c.tab = t
  BY <1>1 DEF Loads
<1> QED BY <1>2, <1>3, ScreenSame

\* Tab t sends the load that its filters ask for.
LEMMA ScreenSends ==
  ASSUME TypeOK, CallInv, NEW t \in Tabs, NEW cs, NEW n \in Call, Moved(cs, {n}),
         n.kind = "load", n.tab = t, n.arg = filter'[t], n.token = token',
         newest' = newest
  PROVE  ScreenOK(t)'
<1>1. n.id = nextId /\ nextId \in Nat /\ calls' = cs \cup {n} /\ From(cs)
  BY DEF Moved, SentNow, TypeOK
<1>2. \A c \in calls : c.id \in Nat /\ c.id < nextId
  BY CallFields DEF TypeOK, CallInv, Numbered
<1>3. \A d \in cs : d.id \in Nat /\ d.id < nextId  BY <1>1, <1>2 DEF From, Kin
<1>4. newest[t] \in Nat /\ newest[t] < nextId  BY DEF TypeOK, CallInv, Numbered
<1>5. n \in Loads(t)'  BY <1>1 DEF Loads
<1>6. Last(n, t)'
  <2>1. \A d \in Loads(t)' : d.id <= n.id
    <3> SUFFICES ASSUME NEW d \in Loads(t)' PROVE d.id <= n.id
      OBVIOUS
    <3>1. d = n \/ d \in cs  BY <1>1 DEF Loads
    <3> QED BY <1>1, <1>3, <3>1
  <2> QED BY <1>1, <1>4, <2>1 DEF Last
<1>7. Waits(t)'  BY <1>5, <1>6 DEF Waits
<1>8. LastAsks(t)'
  <2> SUFFICES ASSUME NEW d \in Loads(t)', Last(d, t)' PROVE d.arg = filter'[t]
    BY DEF LastAsks
  <2>1. n.id <= d.id  BY <1>5 DEF Last
  <2>2. d = n
    <3>1. d = n \/ (d \in cs /\ d.id < nextId /\ d.id \in Nat)  BY <1>1, <1>3 DEF Loads
    <3> QED BY <1>1, <2>1, <3>1
  <2> QED BY <2>2
<1> QED BY <1>7, <1>8 DEF ScreenOK

-----------------------------------------------------------------------------
(* The user.                                                               *)

\* The count of the user's acts stays within its bound.
LEMMA SpendType == TypeOK /\ Spend => sent' \in 0..MaxSent
BY ClientAssumption DEF TypeOK, Spend

\* A tab leaves what it showed for the login page or a page that waits for /me.
LEMMA PageInv ==
  ASSUME ClientInv, NEW t \in Tabs, NEW s \in {"login", "checking"},
         screen' = [screen EXCEPT ![t] = s],
         NEW N, Moved(Orphaned(calls, t), N), \A n \in N : n.kind # "load",
         filter' \in [Tabs -> Filters], \A u \in Tabs \ {t} : filter'[u] = filter[u],
         shown' = [shown EXCEPT ![t] = None], sent' \in 0..MaxSent,
         UNCHANGED <<token, platform, live, owner, newest, misled, abandoned>>
  PROVE  ClientInv'
<1> DEFINE cs == Orphaned(calls, t)
<1>1. TypeOK'  BY MovedType DEF ClientInv, TypeOK
<1>2. /\ \A d \in cs : d.tab # t /\ (d.tab # None => d \in calls)
      /\ \A c \in calls : (c.tab # t => c \in cs) /\ \E d \in cs : Kin(d, c)
  BY FromOrphaned DEF ClientInv, CallInv
<1>3. Moved(cs, N)  OBVIOUS
<1> HIDE DEF cs
<1>4. CallInv'
  <2>1. \A u \in Tabs : newest'[u] < nextId  BY DEF ClientInv, CallInv, Numbered
  <2>2. TokenMoves(cs)  BY DEF TokenMoves
  <2> QED BY <1>1, <1>3, <2>1, <2>2, CallsMove DEF ClientInv
<1>5. LiveTokensAccounted'
  <2>1. \A c \in calls : \E d \in calls' : Kin(d, c)  BY <1>2, <1>3 DEF Moved
  <2>2. calls \in SUBSET calls /\ calls \ calls = {}  OBVIOUS
  <2> QED BY <2>1, <2>2, AccountedMove DEF ClientInv
<1>6. ASSUME NEW u \in Tabs PROVE ScreenOK(u)'
  <2>1. CASE u = t
    <3>1. screen'[u] # "app"  BY <2>1 DEF ClientInv, TypeOK
    <3> QED BY <3>1 DEF ScreenOK
  <2>2. CASE u # t
    <3>1. screen'[u] = screen[u] /\ shown'[u] = shown[u] /\ filter'[u] = filter[u]
      BY <2>2 DEF ClientInv, TypeOK
    <3>2. u # None  BY ClientAssumption
    <3>3. /\ \A d \in cs : d.tab = u => d \in calls
          /\ \A c \in calls : c.kind = "load" /\ c.tab = u => c \in cs
      BY <1>2, <2>2, <3>2
    <3>4. ScreenOK(u)  BY DEF ClientInv
    <3> QED BY <1>3, <3>1, <3>3, <3>4, ScreenOther
  <2> QED BY <2>1, <2>2
<1> QED BY <1>1, <1>4, <1>5, <1>6 DEF ClientInv

\* A page load: the calls of the tab are orphaned, the screen begins anew.
LEMMA VisitInv ==
  ASSUME ClientInv, NEW t \in Tabs, Visit(t)
  PROVE  ClientInv'
<1> DEFINE cs == Orphaned(calls, t)
<1>1. /\ UNCHANGED <<token, platform, live, owner, newest, misled, abandoned>>
      /\ shown' = [shown EXCEPT ![t] = None]
      /\ filter' = [filter EXCEPT ![t] = FirstFilter]
      /\ IF token = 0 THEN Quiet(t, "login", cs) ELSE Send(t, "checking", "me", cs, None)
  BY DEF Visit
<1>2. From(cs)  BY FromOrphaned DEF ClientInv, CallInv
<1>3. filter' \in [Tabs -> Filters] /\ \A u \in Tabs \ {t} : filter'[u] = filter[u]
  BY <1>1, ClientAssumption DEF ClientInv, TypeOK
<1>4. sent' \in 0..MaxSent  BY SpendType DEF Visit, ClientInv
<1> HIDE DEF cs
<1>5. CASE token = 0
  <2>1. Moved(cs, {}) /\ screen' = [screen EXCEPT ![t] = "login"]
    BY <1>1, <1>2, <1>5, Quiets DEF Quiet
  <2>2. PICK N : N = {}  OBVIOUS
  <2>3. Moved(cs, N) /\ \A n \in N : n.kind # "load"  BY <2>1, <2>2
  <2> QED BY <1>1, <1>3, <1>4, <2>1, <2>3, PageInv DEF cs
<1>6. CASE token # 0
  <2>1. Send(t, "checking", "me", cs, None)  BY <1>1, <1>6
  <2>2. Asks("me", None) /\ TypeOK  BY DEF Asks, Kinds, ClientInv
  <2>3. token' \in {0} \cup Tokens  BY <1>1 DEF ClientInv, TypeOK
  <2>4. PICK n \in Call : Moved(cs, {n}) /\ IsCall(n, "me", t, None)
    BY <1>2, <2>1, <2>2, <2>3, Sends
  <2>6. \A m \in {n} : m.kind # "load"  BY <2>4 DEF IsCall
  <2>5. screen' = [screen EXCEPT ![t] = "checking"]  BY <2>1 DEF Send
  <2> QED BY <1>1, <1>3, <1>4, <2>4, <2>5, <2>6, PageInv DEF cs
<1> QED BY <1>5, <1>6

\* Landing on the login screen asks at most for a check, never for a list.
LEMMA LandMoves ==
  ASSUME ClientInv, NEW t \in Tabs, NEW cs, From(cs), Land(t, cs),
         token' \in {0} \cup Tokens
  PROVE  /\ screen' = [screen EXCEPT ![t] = "login"]
         /\ \E N : Moved(cs, N) /\ \A n \in N : n.kind # "load"
<1>1. CASE token' # 0 /\ platform = "web"
  <2>1. Send(t, "login", "check", cs, None)  BY <1>1 DEF Land
  <2>2. Asks("check", None) /\ TypeOK  BY DEF Asks, Kinds, ClientInv
  <2>3. PICK n \in Call : Moved(cs, {n}) /\ IsCall(n, "check", t, None)
    BY <2>1, <2>2, Sends
  <2> QED BY <2>1, <2>3 DEF Send, IsCall
<1>2. CASE ~(token' # 0 /\ platform = "web")
  <2>1. Quiet(t, "login", cs)  BY <1>2 DEF Land
  <2>2. Moved(cs, {})  BY <2>1, Quiets
  <2> QED BY <2>1, <2>2 DEF Quiet
<1> QED BY <1>1, <1>2

\* The user opens the login screen.
LEMMA OpenLoginInv ==
  ASSUME ClientInv, NEW t \in Tabs, OpenLogin(t)
  PROVE  ClientInv'
<1> DEFINE cs == Orphaned(calls, t)
<1>1. /\ UNCHANGED <<token, platform, live, owner, newest, misled, abandoned>>
      /\ shown' = [shown EXCEPT ![t] = None]
      /\ filter' = [filter EXCEPT ![t] = FirstFilter]
      /\ Land(t, cs)
  BY DEF OpenLogin
<1>2. From(cs)  BY FromOrphaned DEF ClientInv, CallInv
<1>3. filter' \in [Tabs -> Filters] /\ \A u \in Tabs \ {t} : filter'[u] = filter[u]
  BY <1>1, ClientAssumption DEF ClientInv, TypeOK
<1>4. sent' \in 0..MaxSent  BY SpendType DEF OpenLogin, ClientInv
<1>5. token' \in {0} \cup Tokens  BY <1>1 DEF ClientInv, TypeOK
<1> HIDE DEF cs
<1>6. /\ screen' = [screen EXCEPT ![t] = "login"]
      /\ \E N : Moved(cs, N) /\ \A n \in N : n.kind # "load"
  BY <1>1, <1>2, <1>5, LandMoves
<1>7. PICK N : Moved(cs, N) /\ \A n \in N : n.kind # "load"  BY <1>6
<1> QED BY <1>1, <1>3, <1>4, <1>6, <1>7, PageInv DEF cs

\* The user sends a name and a password.
LEMMA SubmitLoginInv ==
  ASSUME ClientInv, NEW t \in Tabs, NEW u \in Users \cup {None}, SubmitLogin(t, u)
  PROVE  ClientInv'
<1>1. /\ screen[t] = "login" /\ screen' = [screen EXCEPT ![t] = "login"]
      /\ Send(t, "login", "login", calls, u)
      /\ UNCHANGED <<token, platform, filter, shown, live, owner, newest, misled, abandoned>>
  BY DEF SubmitLogin, Send
<1>2. From(calls)  BY FromRest DEF ClientInv, CallInv
<1>3. PICK n \in Call : Moved(calls, {n}) /\ IsCall(n, "login", t, u)
  <2>1. Asks("login", u) /\ TypeOK  BY DEF Asks, Kinds, ClientInv
  <2>2. token' \in {0} \cup Tokens  BY <1>1 DEF ClientInv, TypeOK
  <2>3. Send(t, "login", "login", calls, u)  BY <1>1
  <2> QED BY <1>2, <2>1, <2>2, <2>3, Sends
<1>4. sent' \in 0..MaxSent  BY SpendType DEF SubmitLogin, ClientInv
<1>5. TypeOK'  BY <1>1, <1>3, <1>4, MovedType DEF ClientInv, TypeOK
<1>6. CallInv'
  <2>1. \A v \in Tabs : newest'[v] < nextId  BY <1>1 DEF ClientInv, CallInv, Numbered
  <2>2. TokenMoves(calls)  BY <1>1 DEF TokenMoves
  <2> QED BY <1>1, <1>3, <1>5, <2>1, <2>2, CallsMove DEF ClientInv
<1>7. LiveTokensAccounted'
  <2>1. \A c \in calls : c \in calls' /\ Kin(c, c)  BY <1>3 DEF Moved, Kin
  <2>2. calls \in SUBSET calls /\ calls \ calls = {}  OBVIOUS
  <2> QED BY <1>1, <2>1, <2>2, AccountedMove DEF ClientInv
<1>8. ASSUME NEW v \in Tabs PROVE ScreenOK(v)'
  <2>1. screen'[v] = "app" => screen[v] = "app"  BY <1>1 DEF ClientInv, TypeOK
  <2>2. ScreenOK(v)  BY DEF ClientInv
  <2>3. n.kind = "login"  BY <1>3 DEF IsCall
  <2>4. \A m \in {n} : m.kind # "load" \/ m.tab # v  BY <2>3
  <2> QED BY <1>1, <1>3, <2>1, <2>2, <2>4, ScreenOther
<1> QED BY <1>5, <1>6, <1>7, <1>8 DEF ClientInv

\* The user asks for another list: its call is the newest of the tab.
LEMMA ChangeFilterInv ==
  ASSUME ClientInv, NEW t \in Tabs, NEW f \in Filters, ChangeFilter(t, f)
  PROVE  ClientInv'
<1>1. /\ screen[t] = "app" /\ screen' = [screen EXCEPT ![t] = "app"]
      /\ filter' = [filter EXCEPT ![t] = f]
      /\ Send(t, "app", "load", calls, f)
      /\ UNCHANGED <<token, platform, shown, live, owner, newest, misled, abandoned>>
  BY DEF ChangeFilter, Send
<1>2. From(calls)  BY FromRest DEF ClientInv, CallInv
<1>3. PICK n \in Call : Moved(calls, {n}) /\ IsCall(n, "load", t, f)
  <2>1. Asks("load", f) /\ TypeOK  BY DEF Asks, Kinds, ClientInv
  <2>2. token' \in {0} \cup Tokens  BY <1>1 DEF ClientInv, TypeOK
  <2>3. Send(t, "app", "load", calls, f)  BY <1>1
  <2> QED BY <1>2, <2>1, <2>2, <2>3, Sends
<1>4. sent' \in 0..MaxSent  BY SpendType DEF ChangeFilter, ClientInv
<1>5. TypeOK'  BY <1>1, <1>3, <1>4, MovedType DEF ClientInv, TypeOK
<1>6. CallInv'
  <2>1. \A v \in Tabs : newest'[v] < nextId  BY <1>1 DEF ClientInv, CallInv, Numbered
  <2>2. TokenMoves(calls)  BY <1>1 DEF TokenMoves
  <2> QED BY <1>1, <1>3, <1>5, <2>1, <2>2, CallsMove DEF ClientInv
<1>7. LiveTokensAccounted'
  <2>1. \A c \in calls : c \in calls' /\ Kin(c, c)  BY <1>3 DEF Moved, Kin
  <2>2. calls \in SUBSET calls /\ calls \ calls = {}  OBVIOUS
  <2> QED BY <1>1, <2>1, <2>2, AccountedMove DEF ClientInv
<1>8. ASSUME NEW v \in Tabs PROVE ScreenOK(v)'
  <2>1. CASE v = t
    <3>1. filter'[t] = f  BY <1>1 DEF ClientInv, TypeOK
    <3>2. /\ n.kind = "load" /\ n.tab = v /\ n.arg = filter'[v] /\ n.token = token'
          /\ Moved(calls, {n}) /\ TypeOK /\ CallInv
      BY <1>3, <2>1, <3>1 DEF IsCall, ClientInv
    <3> QED BY <1>1, <3>2, ScreenSends
  <2>2. CASE v # t
    <3>1. screen'[v] = screen[v] /\ filter'[v] = filter[v]
      BY <1>1, <2>2 DEF ClientInv, TypeOK
    <3>2. ScreenOK(v)  BY DEF ClientInv
    <3>3. n.tab = t  BY <1>3 DEF IsCall
    <3>4. \A m \in {n} : m.kind # "load" \/ m.tab # v  BY <2>2, <3>3
    <3> QED BY <1>1, <1>3, <3>1, <3>2, <3>4, ScreenOther
  <2> QED BY <2>1, <2>2
<1> QED BY <1>5, <1>6, <1>7, <1>8 DEF ClientInv

\* The user signs out: the token is dropped and its revocation asked for.
LEMMA LogoutInv ==
  ASSUME ClientInv, NEW t \in Tabs, Logout(t)
  PROVE  ClientInv'
<1>1. /\ screen[t] = "app" /\ token' = 0
      /\ UNCHANGED <<platform, filter, live, owner, newest, abandoned>>
  BY DEF Logout
<1>2. From(calls)  BY FromRest DEF ClientInv, CallInv
<1>3. sent' \in 0..MaxSent  BY SpendType DEF Logout, ClientInv
<1>4. CASE token = 0
  <2>1. /\ Quiet(t, "login", calls) /\ shown' = [shown EXCEPT ![t] = None]
        /\ UNCHANGED <<misled, token>>
    BY <1>1, <1>4 DEF Logout
  <2>2. Moved(calls, {}) /\ screen' = [screen EXCEPT ![t] = "login"]
    BY <1>2, <2>1, Quiets DEF Quiet
  <2>3. TypeOK'  BY <1>1, <1>3, <2>1, <2>2, MovedType DEF ClientInv, TypeOK
  <2>4. CallInv'
    <3>1. \A v \in Tabs : newest'[v] < nextId  BY <1>1 DEF ClientInv, CallInv, Numbered
    <3>2. TokenMoves(calls)  BY <1>1 DEF TokenMoves
    <3> QED BY <1>1, <2>2, <2>3, <3>1, <3>2, CallsMove DEF ClientInv
  <2>5. LiveTokensAccounted'
    <3>1. \A c \in calls : c \in calls' /\ Kin(c, c)  BY <2>2 DEF Moved, Kin
    <3>2. calls \in SUBSET calls /\ calls \ calls = {}  OBVIOUS
    <3> QED BY <1>1, <2>1, <3>1, <3>2, AccountedMove DEF ClientInv
  <2>6. ASSUME NEW v \in Tabs PROVE ScreenOK(v)'
    <3>1. CASE v = t
      <4>1. screen'[v] # "app"  BY <2>2, <3>1 DEF ClientInv, TypeOK
      <4> QED BY <4>1 DEF ScreenOK
    <3>2. CASE v # t
      <4>1. screen'[v] = screen[v] /\ shown'[v] = shown[v]
        BY <2>1, <2>2, <3>2 DEF ClientInv, TypeOK
      <4>2. ScreenOK(v)  BY DEF ClientInv
      <4>3. PICK N : N = {} /\ Moved(calls, N)  BY <2>2
      <4> QED BY <1>1, <2>1, <4>1, <4>2, <4>3, ScreenOther
    <3> QED BY <3>1, <3>2
  <2> QED BY <2>3, <2>4, <2>5, <2>6 DEF ClientInv
<1>5. CASE token # 0
  <2>1. PICK i \in Nat, tk \in {0} \cup Tokens : i = nextId /\ tk = token
    BY DEF ClientInv, TypeOK
  <2> DEFINE n == NewCall(i, "logout", t, tk, None)
  <2>2. /\ n \in Call /\ n.id = nextId /\ n.kind = "logout" /\ n.tab = t
        /\ n.token = token /\ n.arg = None /\ n.got = 0 /\ n.answer = "none"
    <3>1. "logout" \in Kinds /\ None \in Users \cup Filters \cup {None}  BY DEF Kinds
    <3> QED BY <2>1, <3>1, NewCallIs
  <2>3. /\ calls' = calls \cup {n} /\ nextId' = nextId + 1
        /\ shown' = shown /\ misled' = misled \cup Tabs
        /\ screen' = screen \/ screen' = [screen EXCEPT ![t] = "login"]
    BY <1>5, <2>1 DEF Logout
  <2> HIDE DEF n
  <2>4. SentNow(n)  BY <1>1, <1>5, <2>2 DEF SentNow
  <2>5. Moved(calls, {n})  BY <1>2, <2>3, <2>4 DEF Moved
  <2>6. TypeOK'
    <3>1. calls' \subseteq Call /\ nextId' \in Nat  BY <2>5, MovedType DEF ClientInv
    <3>2. screen' \in [Tabs -> {"closed", "login", "checking", "app"}]
      BY <2>3 DEF ClientInv, TypeOK
    <3> QED BY <1>1, <1>3, <2>3, <3>1, <3>2 DEF ClientInv, TypeOK
  <2>7. CallInv'
    <3>1. \A v \in Tabs : newest'[v] < nextId  BY <1>1 DEF ClientInv, CallInv, Numbered
    <3>2. TokenMoves(calls)  BY <1>1 DEF TokenMoves
    <3> QED BY <1>1, <2>5, <2>6, <3>1, <3>2, CallsMove DEF ClientInv
  <2>8. LiveTokensAccounted'
    <3>1. \A c \in calls : c \in calls' /\ Kin(c, c)  BY <2>3 DEF Kin
    <3>2. calls \in SUBSET calls /\ calls \ calls = {}  OBVIOUS
    <3>3. n \in calls' /\ n.kind = "logout" /\ n.token = token  BY <2>2, <2>3
    <3> QED BY <1>1, <3>1, <3>2, <3>3, AccountedMove DEF ClientInv
  <2>9. ASSUME NEW v \in Tabs PROVE ScreenOK(v)'
    <3>1. screen'[v] = "app" => screen[v] = "app"  BY <1>1, <2>3 DEF ClientInv, TypeOK
    <3>2. ScreenOK(v) /\ v \in misled'  BY <2>3 DEF ClientInv
    <3>3. \A m \in {n} : m.kind # "load" \/ m.tab # v  BY <2>2
    <3> QED BY <1>1, <2>5, <3>1, <3>2, <3>3, ScreenOther
  <2> QED BY <2>6, <2>7, <2>8, <2>9 DEF ClientInv
<1> QED BY <1>4, <1>5

-----------------------------------------------------------------------------
(* The server.                                                             *)

\* Tokens that expire are no longer live, and owe no account.
LEMMA ExpireInv ==
  ASSUME ClientInv, Expire
  PROVE  ClientInv'
<1>1. /\ UNCHANGED <<platform, token, screen, filter, shown, calls, owner, nextId, newest,
                     misled, abandoned>>
      /\ live' \subseteq live
  BY DEF Expire
<1>2. sent' \in 0..MaxSent  BY SpendType DEF Expire, ClientInv
<1>3. TypeOK'  BY <1>1, <1>2 DEF ClientInv, TypeOK
<1>4. CallInv'
  <2>1. \A c \in calls : Shape(c)'  BY <1>1 DEF ClientInv, CallInv, Shape
  <2> QED BY <1>1, <2>1 DEF ClientInv, CallInv, Numbered, Known, Given, Fresh, InSession, Cleared
<1>5. LiveTokensAccounted'  BY <1>1 DEF ClientInv, LiveTokensAccounted
<1>6. ASSUME NEW v \in Tabs PROVE ScreenOK(v)'
  BY <1>1 DEF ClientInv, ScreenOK, LastAsks, Waits, Right, Last, Loads
<1> QED BY <1>3, <1>4, <1>5, <1>6 DEF ClientInv

\* a is request c with its answer.
AnswerTo(c, a) ==
  /\ a \in Call /\ a.id = c.id /\ a.kind = c.kind /\ a.tab = c.tab
  /\ a.token = c.token /\ a.arg = c.arg
  /\ calls' = (calls \ {c}) \cup {a}

\* An answer changes one call and the server's tokens: at most one token becomes live,
\* and it is then carried by the answer or is accounted for.
LEMMA AnsweredInv ==
  ASSUME ClientInv, TypeOK', NEW c \in calls, c.answer = "none", NEW a, AnswerTo(c, a),
         UNCHANGED <<platform, token, screen, filter, shown, nextId, newest, misled>>,
         abandoned \subseteq abandoned',
         NEW k \in Tokens, live' \subseteq live \cup {k},
         \A j \in Tokens : owner[j] # None => owner'[j] = owner[j],
         k \in live' \/ a.got # 0 => (owner[k] = None /\ owner'[k] # None) \/ (k \in live /\ a.got = 0),
         a.got \in {0, k}, k \in live' => k \in live \/ a.got = k \/ k \in abandoned',
         a.answer \notin Refusals, Shape(a)'
  PROVE  ClientInv'
<1>0. /\ a \in Call /\ a.id = c.id /\ a.kind = c.kind /\ a.tab = c.tab
      /\ a.token = c.token /\ a.arg = c.arg
      /\ calls' = (calls \ {c}) \cup {a}
  BY DEF AnswerTo
<1>1. c.got = 0  BY DEF ClientInv, CallInv, Shape
<1>2. TypeOK /\ CallInv  BY DEF ClientInv
<1>3. CallInv'  BY <1>0, <1>1, <1>2, AnswerMove
<1>4. LiveTokensAccounted'
  <2> SUFFICES ASSUME NEW j \in live', j # token', j \notin abandoned'
               PROVE  \E d \in calls' : d.got = j \/ (d.kind = "logout" /\ d.token = j)
    BY DEF LiveTokensAccounted
  <2>1. CASE j \in live
    <3>1. PICK d \in calls : d.got = j \/ (d.kind = "logout" /\ d.token = j)
      BY <2>1 DEF ClientInv, LiveTokensAccounted
    <3>2. j # 0  BY <1>2, <2>1 DEF TypeOK, Tokens
    <3> QED BY <1>0, <1>1, <3>1, <3>2
  <2>2. CASE j \notin live  BY <1>0, <2>2
  <2> QED BY <2>1, <2>2
<1>5. ASSUME NEW t \in Tabs PROVE ScreenOK(t)'
  <2>1. ScreenOK(t)  BY DEF ClientInv
  <2>2. \A d \in calls' : d.kind = "load" /\ d.tab = t =>
           \E e \in Loads(t) : e.id = d.id /\ e.arg = d.arg /\ e.token = d.token
    BY <1>0 DEF Loads
  <2>3. \A e \in Loads(t) : \E d \in calls' :
           /\ d.kind = "load" /\ d.tab = t
           /\ d.id = e.id /\ d.arg = e.arg /\ d.token = e.token
    BY <1>0 DEF Loads
  <2>4. token # 0 => owner'[token] = owner[token]
    BY <1>2 DEF CallInv, Known, Given, TypeOK
  <2> QED BY <2>1, <2>2, <2>3, <2>4, ScreenSame
<1> QED BY <1>3, <1>4, <1>5 DEF ClientInv

\* The record of an answer.
LEMMA AnswerRecord ==
  ASSUME NEW c \in Call,
         NEW s \in {"ok", "unauthorized", "unverified", "error", "failed", "refused", "leaving"}
  PROVE  LET a == [c EXCEPT !.answer = s]
         IN  /\ a \in Call /\ a.id = c.id /\ a.kind = c.kind /\ a.tab = c.tab
             /\ a.token = c.token /\ a.arg = c.arg /\ a.got = c.got /\ a.answer = s
<1> DEFINE a == [c EXCEPT !.answer = s]
<1>1. a \in Call  BY DEF Call
<1>2. /\ a.id = c.id /\ a.kind = c.kind /\ a.tab = c.tab
      /\ a.token = c.token /\ a.arg = c.arg /\ a.got = c.got /\ a.answer = s
  BY DEF Call
<1> QED BY <1>1, <1>2

\* The fields of a successful answer to a login.
LEMMA LoginRecord ==
  ASSUME NEW c \in Call, NEW k \in Tokens
  PROVE  LET a == [c EXCEPT !.answer = "ok", !.got = k]
         IN  /\ a \in Call /\ a.id = c.id /\ a.kind = c.kind /\ a.tab = c.tab
             /\ a.token = c.token /\ a.arg = c.arg /\ a.got = k /\ a.answer = "ok"
<1> DEFINE a == [c EXCEPT !.answer = "ok", !.got = k]
<1>1. a \in Call  BY Zenon DEF Call
<1>2. /\ a.id = c.id /\ a.kind = c.kind /\ a.tab = c.tab
      /\ a.token = c.token /\ a.arg = c.arg /\ a.got = k /\ a.answer = "ok"
  BY DEF Call
<1> QED BY <1>1, <1>2

\* The server accepts or refuses a login.
LEMMA AnswerLoginInv ==
  ASSUME ClientInv, NEW c \in calls, AnswerLogin(c)
  PROVE  ClientInv'
<1>1. /\ c.kind = "login" /\ c.answer = "none"
      /\ UNCHANGED <<platform, token, screen, filter, shown, sent, nextId, newest, misled>>
  BY DEF AnswerLogin
<1>2. c \in Call /\ Shape(c) /\ TypeOK  BY DEF ClientInv, CallInv, TypeOK
<1>3. c.got = 0 /\ c.arg \in Users \cup {None}  BY <1>1, <1>2 DEF Shape
<1>4. CASE c.arg = None
  <2> DEFINE a == [c EXCEPT !.answer = "unauthorized"]
  <2>1. calls' = (calls \ {c}) \cup {a} /\ UNCHANGED <<live, owner, abandoned>>
    BY <1>4 DEF AnswerLogin, Answered
  <2>2. /\ a \in Call /\ a.id = c.id /\ a.kind = c.kind /\ a.tab = c.tab
        /\ a.token = c.token /\ a.arg = c.arg /\ a.got = 0 /\ a.answer = "unauthorized"
    BY <1>2, <1>3, AnswerRecord
  <2> HIDE DEF a
  <2>3. AnswerTo(c, a)  BY <2>1, <2>2 DEF AnswerTo
  <2>4. TypeOK'  BY <1>1, <1>2, <2>1, <2>2 DEF TypeOK
  <2>5. Shape(a)'  BY <1>1, <1>3, <2>2 DEF Shape, Reads, Refusals
  <2>6. PICK k \in Tokens : k = 1  BY ClientAssumption DEF Tokens
  <2>7. /\ live' \subseteq live \cup {k}
        /\ \A j \in Tokens : owner[j] # None => owner'[j] = owner[j]
        /\ k \in live' => k \in live
    BY <2>1
  <2>8. a.answer \notin Refusals  BY <2>2 DEF Refusals
  <2> QED BY <1>1, <1>3, <2>1, <2>2, <2>3, <2>4, <2>5, <2>7, <2>8, AnsweredInv
<1>5. CASE c.arg # None
  <2>1. PICK k \in Tokens : \E heard \in BOOLEAN :
          /\ \A j \in Tokens : j < k <=> owner[j] # None
          /\ owner' = [owner EXCEPT ![k] = c.arg]
          /\ live' = live \cup {k}
          /\ abandoned' = IF heard THEN abandoned ELSE abandoned \cup {k}
          /\ Answered(c, IF heard THEN [c EXCEPT !.answer = "ok", !.got = k]
                         ELSE [c EXCEPT !.answer = "failed"])
    BY <1>5 DEF AnswerLogin
  <2>2. k \in Int /\ owner[k] = None  BY <2>1 DEF Tokens
  <2>3. owner'[k] = c.arg /\ \A j \in Tokens : owner[j] # None => owner'[j] = owner[j]
    BY <1>2, <2>1, <2>2 DEF TypeOK
  <2>4. owner' \in [Tokens -> Users \cup {None}] /\ live' \subseteq Tokens
    BY <1>2, <1>3, <2>1 DEF TypeOK
  <2>5. CASE abandoned' = abandoned /\ Answered(c, [c EXCEPT !.answer = "ok", !.got = k])
    <3> DEFINE a == [c EXCEPT !.answer = "ok", !.got = k]
    <3>1. /\ a \in Call /\ a.id = c.id /\ a.kind = c.kind /\ a.tab = c.tab
          /\ a.token = c.token /\ a.arg = c.arg /\ a.got = k /\ a.answer = "ok"
      BY <1>2, LoginRecord
    <3>2. calls' = (calls \ {c}) \cup {a}  BY <2>5 DEF Answered
    <3> HIDE DEF a
    <3>3. AnswerTo(c, a)  BY <3>1, <3>2 DEF AnswerTo
    <3>4. TypeOK'  BY <1>1, <1>2, <2>4, <2>5, <3>1, <3>2 DEF TypeOK
    <3>5. k # 0  BY DEF Tokens
    <3>6. Shape(a)'  BY <1>1, <1>3, <3>1, <3>5 DEF Shape, Reads, Refusals
    <3>7. a.answer \notin Refusals  BY <3>1 DEF Refusals
    <3> QED BY <1>1, <1>5, <2>1, <2>2, <2>3, <2>5, <3>1, <3>3, <3>4, <3>6, <3>7, AnsweredInv
  <2>6. CASE /\ abandoned' = abandoned \cup {k}
             /\ Answered(c, [c EXCEPT !.answer = "failed"])
    <3> DEFINE a == [c EXCEPT !.answer = "failed"]
    <3>1. /\ a \in Call /\ a.id = c.id /\ a.kind = c.kind /\ a.tab = c.tab
          /\ a.token = c.token /\ a.arg = c.arg /\ a.got = 0 /\ a.answer = "failed"
      BY <1>2, <1>3, AnswerRecord
    <3>2. calls' = (calls \ {c}) \cup {a}  BY <2>6 DEF Answered
    <3> HIDE DEF a
    <3>3. AnswerTo(c, a)  BY <3>1, <3>2 DEF AnswerTo
    <3>4. TypeOK'  BY <1>1, <1>2, <2>4, <2>6, <3>1, <3>2 DEF TypeOK
    <3>5. Shape(a)'  BY <1>1, <1>3, <3>1 DEF Shape, Reads, Refusals
    <3>6. abandoned \subseteq abandoned' /\ k \in abandoned'  BY <2>6
    <3>7. a.answer \notin Refusals  BY <3>1 DEF Refusals
    <3> QED BY <1>1, <1>5, <2>1, <2>2, <2>3, <3>1, <3>3, <3>4, <3>5, <3>6, <3>7, AnsweredInv
  <2> QED BY <2>1, <2>5, <2>6
<1> QED BY <1>4, <1>5

\* An answer that makes no token.
LEMMA PlainAnswer ==
  ASSUME ClientInv, NEW c \in calls, c.answer = "none",
         NEW s \in {"ok", "unauthorized", "unverified", "error", "failed"},
         c.kind = "login" => s # "ok",
         Answered(c, [c EXCEPT !.answer = s]),
         UNCHANGED <<platform, token, screen, filter, shown, owner, sent, nextId, newest, misled>>,
         live' \subseteq live, abandoned \subseteq abandoned', abandoned' \subseteq Tokens,
         c.kind = "logout" => /\ s \in {"ok", "failed"}
                              /\ s = "ok" => c.token \notin live'
                              /\ s = "failed" => c.token \in abandoned',
         c.kind \in Reads => /\ s = "ok" => c.token # 0
                             /\ s = "unauthorized" => c.token \notin live'
  PROVE  ClientInv'
<1> DEFINE a == [c EXCEPT !.answer = s]
<1>1. c \in Call /\ Shape(c) /\ TypeOK  BY DEF ClientInv, CallInv, TypeOK
<1>2. c.got = 0  BY <1>1 DEF Shape
<1>3. /\ a \in Call /\ a.id = c.id /\ a.kind = c.kind /\ a.tab = c.tab
      /\ a.token = c.token /\ a.arg = c.arg /\ a.got = 0 /\ a.answer = s
  <2>1. s \in {"ok", "unauthorized", "unverified", "error", "failed", "refused", "leaving"}
    OBVIOUS
  <2>2. /\ a \in Call /\ a.id = c.id /\ a.kind = c.kind /\ a.tab = c.tab
        /\ a.token = c.token /\ a.arg = c.arg /\ a.got = c.got /\ a.answer = s
    BY <1>1, <2>1, AnswerRecord, Zenon
  <2> HIDE DEF a
  <2> QED BY <1>2, <2>2
<1>4. calls' = (calls \ {c}) \cup {a}  BY DEF Answered
<1> HIDE DEF a
<1>5. AnswerTo(c, a)  BY <1>3, <1>4 DEF AnswerTo
<1>6. TypeOK'  BY <1>1, <1>3, <1>4 DEF TypeOK
<1>7. Shape(a)'  BY <1>1, <1>3 DEF Shape, Reads, Refusals
<1>8. PICK k \in Tokens : k = 1  BY ClientAssumption DEF Tokens
<1>9. /\ live' \subseteq live \cup {k}
      /\ \A j \in Tokens : owner[j] # None => owner'[j] = owner[j]
      /\ k \in live' => k \in live
  OBVIOUS
<1>10. a.answer \notin Refusals  BY <1>3 DEF Refusals
<1> QED BY <1>3, <1>5, <1>6, <1>7, <1>9, <1>10, AnsweredInv

\* The server revokes the token of a logout.
LEMMA AnswerLogoutInv ==
  ASSUME ClientInv, NEW c \in calls, AnswerLogout(c)
  PROVE  ClientInv'
<1>1. /\ c.kind = "logout" /\ c.answer = "none" /\ live' = live \ {c.token}
      /\ Answered(c, [c EXCEPT !.answer = "ok"])
      /\ UNCHANGED <<platform, token, screen, filter, shown, owner, sent, nextId, newest, misled,
                     abandoned>>
  BY DEF AnswerLogout
<1>2. abandoned' \subseteq Tokens  BY <1>1 DEF ClientInv, TypeOK
<1> QED BY <1>1, <1>2, PlainAnswer DEF Reads

\* The server answers a check or a load, as the token allows.
LEMMA AnswerReadInv ==
  ASSUME ClientInv, NEW c \in calls, AnswerRead(c)
  PROVE  ClientInv'
<1>1. /\ c.kind \in Reads /\ c.answer = "none"
      /\ \E s \in IF c.token \in live THEN {"ok", "unverified"} ELSE {"unauthorized"} :
           Answered(c, [c EXCEPT !.answer = s])
      /\ UNCHANGED <<platform, token, screen, filter, shown, live, owner, sent, nextId, newest,
                     misled, abandoned>>
  BY DEF AnswerRead, Reads
<1>2. abandoned' \subseteq Tokens /\ 0 \notin live  BY <1>1 DEF ClientInv, TypeOK, Tokens
<1>3. PICK s \in {"ok", "unverified", "unauthorized"} :
        /\ Answered(c, [c EXCEPT !.answer = s])
        /\ IF c.token \in live THEN s # "unauthorized" ELSE s = "unauthorized"
  BY <1>1
<1>4. s = "ok" => c.token # 0  BY <1>2, <1>3
<1>5. s = "unauthorized" => c.token \notin live'  BY <1>1, <1>3
<1>6. c.kind \notin {"login", "logout"}  BY <1>1 DEF Reads
<1> QED BY <1>1, <1>2, <1>3, <1>4, <1>5, <1>6, PlainAnswer

\* A call fails; the token of a logout that fails is abandoned.
LEMMA FailsInv ==
  ASSUME ClientInv, NEW c \in calls, Fails(c)
  PROVE  ClientInv'
<1>1. /\ c.answer = "none"
      /\ \E s \in IF c.kind \in {"me", "check"} THEN {"failed", "error"} ELSE {"failed"} :
           Answered(c, [c EXCEPT !.answer = s])
      /\ abandoned' = IF c.kind = "logout" THEN abandoned \cup {c.token} ELSE abandoned
      /\ UNCHANGED <<platform, token, screen, filter, shown, live, owner, sent, nextId, newest,
                     misled>>
  BY DEF Fails
<1>2. Shape(c) /\ c.token \in {0} \cup Tokens /\ abandoned \subseteq Tokens
  BY CallFields DEF ClientInv, CallInv, TypeOK
<1>3. abandoned \subseteq abandoned' /\ abandoned' \subseteq Tokens
  BY <1>1, <1>2 DEF Shape
<1>4. c.kind = "logout" => c.token \in abandoned'  BY <1>1
<1>5. PICK s \in {"failed", "error"} :
        /\ Answered(c, [c EXCEPT !.answer = s])
        /\ c.kind = "logout" => s = "failed"
  BY <1>1
<1> QED BY <1>1, <1>3, <1>4, <1>5, PlainAnswer

-----------------------------------------------------------------------------
(* An answer arrives.                                                      *)

\* What goes on when request c has ended.
Rest(c, cs) ==
  cs = calls \ {c} \/ (c.tab \in Tabs /\ cs = Orphaned(calls \ {c}, c.tab))

\* The calls left when one is received, those of its page orphaned when the page is left.
LEMMA RestIs ==
  ASSUME ClientInv, NEW c \in calls, NEW cs, Rest(c, cs)
  PROVE  /\ From(cs)
         /\ \A d \in calls \ {c} : \E e \in cs : Kin(e, d)
         /\ \A v \in Tabs \ {c.tab} : /\ \A d \in cs : d.tab = v => d \in calls
                                      /\ \A d \in calls : d # c /\ d.tab = v => d \in cs
<1> DEFINE R == calls \ {c}
<1>1. TypeOK /\ Numbered  BY DEF ClientInv, CallInv
<1>2. CASE cs = R
  <2>1. From(cs)  BY <1>1, <1>2, FromRest
  <2>2. \A d \in R : d \in cs /\ Kin(d, d)  BY <1>2 DEF Kin
  <2> QED BY <1>2, <2>1, <2>2
<1>3. CASE c.tab \in Tabs /\ cs = Orphaned(R, c.tab)
  <2>1. PICK t \in Tabs : t = c.tab  BY <1>3
  <2>2. cs = Orphaned(R, t) /\ R \in SUBSET calls  BY <1>3, <2>1
  <2>3. /\ From(cs)
        /\ \A d \in cs : d.tab # t /\ (d.tab # None => d \in R)
        /\ \A d \in R : d.tab # t => d \in cs
        /\ \A d \in R : \E e \in cs : Kin(e, d)
    BY <1>1, <2>2, FromOrphaned
  <2>4. ASSUME NEW v \in Tabs \ {c.tab}
        PROVE  /\ \A d \in cs : d.tab = v => d \in calls
               /\ \A d \in calls : d # c /\ d.tab = v => d \in cs
    <3>1. v # None /\ v # t  BY <2>1, ClientAssumption
    <3> QED BY <2>3, <3>1
  <2> HIDE DEF R
  <2>5. \A d \in R : \E e \in cs : Kin(e, d)  BY <2>3
  <2> QED BY <2>3, <2>4, <2>5 DEF R
<1> QED BY <1>2, <1>3 DEF Rest

\* Receiving an answer ends one call; what it carried is stored or accounted for.
LEMMA EndsInv ==
  ASSUME ClientInv, TypeOK', NEW c \in calls, c.answer # "none",
         NEW cs, Rest(c, cs), NEW N, Moved(cs, N),
         UNCHANGED <<owner, live>>, abandoned \subseteq abandoned',
         \A v \in Tabs : newest'[v] < nextId, TokenMoves(cs),
         c.got # 0 => c.got \in abandoned' \cup {token'},
         token' = token \/ token \notin live \/ token \in abandoned',
         \A v \in Tabs : ScreenOK(v)'
  PROVE  ClientInv'
<1>1. TypeOK /\ CallInv /\ LiveTokensAccounted /\ Shape(c)  BY DEF ClientInv, CallInv
<1>2. CallInv'
  <2>1. live' \subseteq live /\ owner' = owner  OBVIOUS
  <2> QED BY <1>1, <2>1, CallsMove
<1>3. LiveTokensAccounted'
  <2> DEFINE R == calls \ {c}
  <2>1. \A d \in R : \E e \in cs : Kin(e, d)  BY RestIs
  <2>2. \A d \in R : \E e \in calls' : Kin(e, d)  BY <2>1 DEF Moved
  <2>3. 0 \notin live  BY <1>1 DEF TypeOK, Tokens
  <2>5. c.got \in live' => c.got \in abandoned' \cup {token'}  BY <2>3
  <2>6. c.kind = "logout" /\ c.token \in live' => c.token \in abandoned'
    BY <1>1 DEF Shape
  <2>7. \A d \in calls \ R : d = c  OBVIOUS
  <2>8. R \in SUBSET calls /\ live' \subseteq live  OBVIOUS
  <2>9. \A d \in calls \ R :
          /\ d.got \in live' => d.got \in abandoned' \cup {token'}
          /\ d.kind = "logout" /\ d.token \in live' => d.token \in abandoned'
    BY <2>5, <2>6, <2>7
  <2> HIDE DEF R
  <2> QED BY <1>1, <2>2, <2>8, <2>9, AccountedMove
<1> QED BY <1>2, <1>3 DEF ClientInv

\* The screen of a tab whose loads all go on.
LEMMA EndsScreen ==
  ASSUME ClientInv, NEW c \in calls, NEW cs, Rest(c, cs), NEW N, Moved(cs, N),
         NEW v \in Tabs, v # c.tab \/ (c.kind # "load" /\ cs = calls \ {c}),
         screen'[v] = "app" => screen[v] = "app",
         filter'[v] = filter[v], newest'[v] = newest[v],
         v \notin misled' => /\ v \notin misled /\ token' = token /\ shown'[v] = shown[v]
                             /\ owner' = owner,
         \A n \in N : n.kind # "load" \/ n.tab # v
  PROVE  ScreenOK(v)'
<1>1. ScreenOK(v)  BY DEF ClientInv
<1>2. \A d \in cs : d.tab = v => d \in calls
  <2>1. CASE v # c.tab  BY <2>1, RestIs
  <2>2. CASE cs = calls \ {c}  BY <2>2
  <2> QED BY <2>1, <2>2
<1>3. \A d \in calls : d.kind = "load" /\ d.tab = v => d \in cs
  <2>1. CASE v # c.tab
    <3>1. \A d \in calls : d # c /\ d.tab = v => d \in cs  BY <2>1, RestIs
    <3> QED BY <2>1, <3>1
  <2>2. CASE c.kind # "load" /\ cs = calls \ {c}  BY <2>2
  <2> QED BY <2>1, <2>2
<1> QED BY <1>1, <1>2, <1>3, ScreenOther

\* c ends and nothing is sent.
LEMMA EndsQuietly ==
  ASSUME ClientInv, NEW c \in calls, calls' = calls \ {c}, nextId' = nextId
  PROVE  \E N : N = {} /\ Moved(calls \ {c}, N)
<1>1. Rest(c, calls \ {c})  BY DEF Rest
<1>2. From(calls \ {c})  BY <1>1, RestIs
<1> QED BY <1>2 DEF Moved

\* The tab of a request somebody waits for.
LEMMA TabOf ==
  ASSUME ClientInv, NEW c \in calls
  PROVE  /\ c.tab # None => c.tab \in Tabs
         /\ c \in Call /\ Shape(c) /\ TypeOK
         /\ \A v \in Tabs : newest[v] < nextId /\ newest[v] \in Nat
BY CallFields DEF ClientInv, CallInv, TypeOK, Numbered

\* An answer nobody waits for any more: the token it carries is abandoned.
LEMMA LostInv ==
  ASSUME ClientInv, NEW c \in calls, Lost(c)
  PROVE  ClientInv'
<1> DEFINE cs == calls \ {c}
<1>1. /\ c.tab = None /\ c.answer # "none" /\ calls' = cs
      /\ abandoned' = IF c.got # 0 THEN abandoned \cup {c.got} ELSE abandoned
      /\ UNCHANGED <<platform, token, screen, filter, shown, live, owner, sent, nextId, newest, misled>>
  BY DEF Lost
<1>2. c.got \in {0} \cup Tokens  BY TabOf, CallFields
<1>3. PICK N : N = {} /\ Moved(cs, N)  BY <1>1, EndsQuietly
<1>4. TypeOK'  BY <1>1, <1>2, TabOf DEF TypeOK
<1>5. Rest(c, cs)  BY DEF Rest
<1> HIDE DEF cs
<1>6. \A v \in Tabs : ScreenOK(v)'
  <2> SUFFICES ASSUME NEW v \in Tabs PROVE ScreenOK(v)'
    OBVIOUS
  <2>1. v # c.tab  BY <1>1, ClientAssumption
  <2>2. \A n \in N : n.kind # "load" \/ n.tab # v  BY <1>3
  <2> QED BY <1>1, <1>3, <1>5, <2>1, <2>2, EndsScreen
<1>7. TokenMoves(cs)  BY <1>1 DEF TokenMoves
<1>8. \A v \in Tabs : newest'[v] < nextId  BY <1>1, TabOf
<1>9. abandoned \subseteq abandoned' /\ (c.got # 0 => c.got \in abandoned')  BY <1>1
<1> QED BY <1>1, <1>3, <1>4, <1>5, <1>6, <1>7, <1>8, <1>9, EndsInv

\* The stored token goes, with a reason.
LEMMA GivesUp ==
  ASSUME TypeOK, GiveUp
  PROVE  /\ abandoned \subseteq abandoned' /\ abandoned' \subseteq Tokens
         /\ token' = token \/ token \notin live \/ token \in abandoned'
BY DEF GiveUp, TypeOK, Tokens

\* ... whichever token it is.
LEMMA DropsToken ==
  ASSUME TypeOK, DropToken
  PROVE  /\ token' = 0
         /\ abandoned \subseteq abandoned' /\ abandoned' \subseteq Tokens
         /\ token' = token \/ token \notin live \/ token \in abandoned'
         /\ misled \subseteq misled' /\ misled' \subseteq Tabs
         /\ \A v \in Tabs : v \notin misled' => v \notin misled /\ token' = token
<1>1. token' = 0 /\ GiveUp /\ misled' = IF token = 0 THEN misled ELSE misled \cup Tabs
  BY DEF DropToken
<1> QED BY <1>1, GivesUp DEF TypeOK

\* The head of a 401 to /me: the token goes and the request goes on.
LEMMA RefusedInv ==
  ASSUME ClientInv, NEW c \in calls, c.kind \in {"me", "check"}, c.got = 0, DropToken,
         NEW s \in Refusals, Answered(c, [c EXCEPT !.answer = s]),
         UNCHANGED <<screen, shown, nextId, platform, filter, live, owner, sent, newest>>
  PROVE  ClientInv'
<1> DEFINE a == [c EXCEPT !.answer = s]
<1>1. c \in Call /\ Shape(c) /\ TypeOK /\ CallInv /\ LiveTokensAccounted
  BY TabOf DEF ClientInv
<1>2. /\ a \in Call /\ a.id = c.id /\ a.kind = c.kind /\ a.tab = c.tab
      /\ a.token = c.token /\ a.arg = c.arg /\ a.got = 0 /\ a.answer = s
  <2>1. s \in {"ok", "unauthorized", "unverified", "error", "failed", "refused", "leaving"}
    BY DEF Refusals
  <2>2. /\ a \in Call /\ a.id = c.id /\ a.kind = c.kind /\ a.tab = c.tab
        /\ a.token = c.token /\ a.arg = c.arg /\ a.got = c.got /\ a.answer = s
    BY <1>1, <2>1, AnswerRecord, Zenon
  <2> HIDE DEF a
  <2> QED BY <2>2
<1>3. calls' = (calls \ {c}) \cup {a}  BY DEF Answered
<1> HIDE DEF a
<1>4. /\ token' = 0
      /\ abandoned \subseteq abandoned' /\ abandoned' \subseteq Tokens
      /\ token' = token \/ token \notin live \/ token \in abandoned'
      /\ misled \subseteq misled' /\ misled' \subseteq Tabs
      /\ \A v \in Tabs : v \notin misled' => v \notin misled /\ token' = token
  BY <1>1, DropsToken
<1>5. TypeOK'  BY <1>1, <1>2, <1>3, <1>4 DEF TypeOK
<1>6. Shape(a)'  BY <1>1, <1>2 DEF Shape, Refusals, Reads
<1>7. CallInv'
  <2>1. PICK k \in Tokens : k = 1  BY ClientAssumption DEF Tokens
  <2>2. /\ live' \subseteq live \cup {k}
        /\ \A j \in Tokens : owner[j] # None => owner'[j] = owner[j]
        /\ k \in live' => k \in live
    OBVIOUS
  <2> QED BY <1>1, <1>2, <1>3, <1>4, <1>5, <1>6, <2>2, AnswerMove
<1>8. LiveTokensAccounted'
  <2>1. PICK R \in SUBSET calls : R = calls \ {c}  OBVIOUS
  <2>2. \A d \in R : d \in calls' /\ Kin(d, d)  BY <1>3, <2>1 DEF Kin
  <2>3. 0 \notin live'  BY <1>1 DEF TypeOK, Tokens
  <2>4. \A d \in calls \ R :
          /\ d.got \in live' => d.got \in abandoned' \cup {token'}
          /\ d.kind = "logout" /\ d.token \in live' => d.token \in abandoned'
    BY <2>1, <2>3
  <2> QED BY <1>1, <1>4, <2>2, <2>4, AccountedMove
<1>9. ASSUME NEW v \in Tabs PROVE ScreenOK(v)'
  <2>1. ScreenOK(v)  BY DEF ClientInv
  <2>2. \A d \in calls' : d.kind = "load" => d \in calls  BY <1>2, <1>3
  <2>3. \A d \in calls : d.kind = "load" => d \in calls'  BY <1>3
  <2>4. /\ \A d \in calls' : d.kind = "load" /\ d.tab = v => d \in Loads(v)
        /\ \A d \in Loads(v) : d \in calls' /\ d.kind = "load" /\ d.tab = v
    BY <2>2, <2>3 DEF Loads
  <2> QED BY <1>4, <2>1, <2>4, ScreenSame
<1> QED BY <1>5, <1>7, <1>8, <1>9 DEF ClientInv

\* An answer ends on the login screen of its tab, the token moved as it may.
LEMMA EndsOnLogin ==
  ASSUME ClientInv, NEW c \in calls, c.answer # "none", c.got = 0,
         NEW t \in Tabs, t = c.tab, NEW cs, Rest(c, cs), Land(t, cs),
         shown' = shown \/ shown' = [shown EXCEPT ![t] = None],
         token' = token \/ token' = 0,
         abandoned \subseteq abandoned', abandoned' \subseteq Tokens,
         token' = token \/ token \notin live \/ token \in abandoned',
         misled' \subseteq Tabs,
         \A v \in Tabs : v \notin misled' => v \notin misled /\ token' = token,
         UNCHANGED <<platform, filter, live, owner, sent, newest>>
  PROVE  ClientInv'
<1>1. token' \in {0} \cup Tokens /\ From(cs)  BY TabOf, RestIs DEF TypeOK
<1>2. /\ screen' = [screen EXCEPT ![t] = "login"]
      /\ \E N : Moved(cs, N) /\ \A n \in N : n.kind # "load"
  BY <1>1, LandMoves
<1>3. PICK N : Moved(cs, N) /\ \A n \in N : n.kind # "load"  BY <1>2
<1>4. TypeOK'
  <2>1. calls' \subseteq Call /\ nextId' \in Nat  BY <1>3, TabOf, MovedType
  <2>2. screen' \in [Tabs -> {"closed", "login", "checking", "app"}]
    BY <1>2, TabOf DEF TypeOK
  <2>3. shown' \in [Tabs -> [user : Users, filter : Filters] \cup {None}]
    BY TabOf DEF TypeOK
  <2> QED BY <1>1, <2>1, <2>2, <2>3, TabOf DEF TypeOK
<1>5. ASSUME NEW v \in Tabs PROVE ScreenOK(v)'
  <2>1. CASE v = t
    <3>1. screen'[v] # "app"  BY <1>2, <2>1, TabOf DEF TypeOK
    <3> QED BY <3>1 DEF ScreenOK
  <2>2. CASE v # t
    <3>1. screen'[v] = screen[v] /\ shown'[v] = shown[v]
      BY <1>2, <2>2, TabOf DEF TypeOK
    <3>2. v # c.tab /\ \A n \in N : n.kind # "load" \/ n.tab # v  BY <1>3, <2>2
    <3> QED BY <1>3, <3>1, <3>2, EndsScreen
  <2> QED BY <2>1, <2>2
<1>6. TokenMoves(cs)  BY DEF TokenMoves
<1>7. \A v \in Tabs : newest'[v] < nextId  BY TabOf
<1> QED BY <1>3, <1>4, <1>5, <1>6, <1>7, EndsInv

\* A 401 drops the stored token; one to /me is read on, any other shows the
\* login screen.
LEMMA UnauthorizedInv ==
  ASSUME ClientInv, NEW c \in calls, Unauthorized(c)
  PROVE  ClientInv'
<1>1. /\ c.answer \in {"unauthorized", "unverified"} /\ c.tab # None /\ DropToken
      /\ UNCHANGED <<platform, filter, live, owner, sent, newest>>
  BY DEF Unauthorized
<1>2. c.got = 0 /\ c.answer # "none"  BY <1>1, TabOf DEF Shape
<1>3. CASE c.kind \in {"me", "check"}
  <2>1. PICK s \in Refusals : Answered(c, [c EXCEPT !.answer = s])
    BY <1>3 DEF Unauthorized, Refusals
  <2>2. UNCHANGED <<screen, shown, nextId>>  BY <1>3 DEF Unauthorized
  <2> QED BY <1>1, <1>2, <1>3, <2>1, <2>2, RefusedInv
<1>4. CASE c.kind \notin {"me", "check"}
  <2>1. PICK t \in Tabs : t = c.tab  BY <1>1, TabOf
  <2>2. /\ token' = 0
        /\ abandoned \subseteq abandoned' /\ abandoned' \subseteq Tokens
        /\ token' = token \/ token \notin live \/ token \in abandoned'
        /\ misled' \subseteq Tabs
        /\ \A v \in Tabs : v \notin misled' => v \notin misled /\ token' = token
    BY <1>1, TabOf, DropsToken
  <2>3. PICK cs : /\ cs = calls \ {c} \/ cs = Orphaned(calls \ {c}, t)
                  /\ Land(t, cs)
                  /\ shown' = shown \/ shown' = [shown EXCEPT ![t] = None]
    BY <1>4, <2>1, <2>2 DEF Unauthorized, Unload, Land
  <2>4. Rest(c, cs)  BY <2>1, <2>3 DEF Rest
  <2> QED BY <1>1, <1>2, <2>1, <2>2, <2>3, <2>4, EndsOnLogin
<1> QED BY <1>3, <1>4

\* The browser has left for the login page before the body of a 401 was read.
LEMMA LeaveInv ==
  ASSUME ClientInv, NEW c \in calls, Leave(c)
  PROVE  ClientInv'
<1>1. /\ c.answer = "leaving" /\ c.tab # None /\ Unload(c.tab, calls \ {c})
      /\ UNCHANGED <<token, platform, filter, live, owner, sent, newest, misled, abandoned>>
  BY DEF Leave
<1>2. c.got = 0 /\ c.answer # "none"  BY <1>1, TabOf DEF Shape
<1>3. PICK t \in Tabs : t = c.tab  BY <1>1, TabOf
<1>4. PICK cs : cs = Orphaned(calls \ {c}, t)  OBVIOUS
<1>5. Land(t, cs) /\ shown' = [shown EXCEPT ![t] = None]  BY <1>1, <1>3, <1>4 DEF Unload
<1>6. Rest(c, cs)  BY <1>3, <1>4 DEF Rest
<1>7. /\ abandoned \subseteq abandoned' /\ abandoned' \subseteq Tokens /\ misled' \subseteq Tabs
      /\ \A v \in Tabs : v \notin misled' => v \notin misled /\ token' = token
  BY <1>1, TabOf DEF TypeOK
<1> QED BY <1>1, <1>2, <1>3, <1>5, <1>6, <1>7, EndsOnLogin

\* /me has failed, or the body of its 401 has been read: whatever token is stored
\* by then is dropped, and the page that waited shows the login.
LEMMA DroppedInv ==
  ASSUME ClientInv, NEW c \in calls, c.answer # "none", c.got = 0, c.tab # None,
         c.kind \in {"me", "check"}, DropToken,
         Quiet(c.tab, IF c.kind = "me" THEN "login" ELSE screen[c.tab], calls \ {c}),
         UNCHANGED <<platform, filter, shown, live, owner, sent, newest>>
  PROVE  ClientInv'
<1> DEFINE cs == calls \ {c}
<1>1. /\ token' = 0
      /\ abandoned \subseteq abandoned' /\ abandoned' \subseteq Tokens
      /\ token' = token \/ token \notin live \/ token \in abandoned'
      /\ misled' \subseteq Tabs
      /\ \A v \in Tabs : v \notin misled' => v \notin misled /\ token' = token
  BY TabOf, DropsToken
<1>2. PICK t \in Tabs : t = c.tab  BY TabOf
<1>3. /\ screen' = [screen EXCEPT ![t] = IF c.kind = "me" THEN "login" ELSE screen[t]]
      /\ calls' = cs /\ nextId' = nextId
  BY <1>2 DEF Quiet
<1>4. Rest(c, cs)  BY DEF Rest
<1>5. PICK N : N = {} /\ Moved(cs, N)  BY <1>3, EndsQuietly
<1>6. c.kind # "load" /\ cs = calls \ {c}  OBVIOUS
<1> HIDE DEF cs
<1>7. TypeOK'
  <2>1. calls' \subseteq Call /\ nextId' \in Nat  BY <1>5, TabOf, MovedType
  <2>2. screen' \in [Tabs -> {"closed", "login", "checking", "app"}]
    BY <1>3, TabOf DEF TypeOK
  <2> QED BY <1>1, <2>1, <2>2, TabOf DEF TypeOK
<1>8. ASSUME NEW v \in Tabs PROVE ScreenOK(v)'
  <2>1. screen'[v] = "app" => screen[v] = "app"  BY <1>3, TabOf DEF TypeOK
  <2>2. v \notin misled' => v \notin misled /\ token' = token  BY <1>1
  <2>3. \A n \in N : n.kind # "load" \/ n.tab # v  BY <1>5
  <2> QED BY <1>4, <1>5, <1>6, <2>1, <2>2, <2>3, EndsScreen
<1>9. TokenMoves(cs)  BY <1>1 DEF TokenMoves
<1>10. \A v \in Tabs : newest'[v] < nextId  BY TabOf
<1> QED BY <1>1, <1>4, <1>5, <1>7, <1>8, <1>9, <1>10, EndsInv

\* The check of the stored token fails for another reason than a 401.
LEMMA CheckFailsInv ==
  ASSUME ClientInv, NEW c \in calls, CheckFails(c)
  PROVE  ClientInv'
<1>1. /\ c.answer \in {"failed", "error"} /\ c.tab # None /\ c.kind \in {"me", "check"}
      /\ DropToken
      /\ Quiet(c.tab, IF c.kind = "me" THEN "login" ELSE screen[c.tab], calls \ {c})
      /\ UNCHANGED <<platform, filter, shown, live, owner, sent, newest>>
  BY DEF CheckFails
<1>2. c.got = 0 /\ c.answer # "none"  BY <1>1, TabOf DEF Shape
<1> QED BY <1>1, <1>2, DroppedInv

\* The body of a 401 to /me has been read.
LEMMA DropAgainInv ==
  ASSUME ClientInv, NEW c \in calls, DropAgain(c)
  PROVE  ClientInv'
<1>1. /\ c.answer \in Refusals /\ c.tab # None /\ DropToken
      /\ UNCHANGED <<platform, filter, live, owner, sent, newest>>
  BY DEF DropAgain, Refusals
<1>2. c.got = 0 /\ c.answer # "none"  BY <1>1, TabOf DEF Shape, Refusals
<1>3. CASE c.answer = "leaving"
  <2>1. PICK t \in Tabs : t = c.tab  BY <1>1, TabOf
  <2>2. PICK cs : cs = Orphaned(calls \ {c}, t)  OBVIOUS
  <2>3. Land(t, cs) /\ shown' = [shown EXCEPT ![t] = None]
    BY <1>3, <2>1, <2>2 DEF DropAgain, Unload
  <2>4. Rest(c, cs)  BY <2>1, <2>2 DEF Rest
  <2>5. /\ token' = 0
        /\ abandoned \subseteq abandoned' /\ abandoned' \subseteq Tokens
        /\ token' = token \/ token \notin live \/ token \in abandoned'
        /\ misled' \subseteq Tabs
        /\ \A v \in Tabs : v \notin misled' => v \notin misled /\ token' = token
    BY <1>1, TabOf, DropsToken
  <2> QED BY <1>1, <1>2, <2>1, <2>3, <2>4, <2>5, EndsOnLogin
<1>4. CASE c.answer # "leaving"
  <2>1. c.kind \in {"me", "check"}
    BY <1>1, TabOf DEF Shape
  <2>2. /\ Quiet(c.tab, IF c.kind = "me" THEN "login" ELSE screen[c.tab], calls \ {c})
        /\ shown' = shown
    BY <1>4 DEF DropAgain
  <2> QED BY <1>1, <1>2, <2>1, <2>2, DroppedInv
<1> QED BY <1>3, <1>4

\* A load ends: the last one of the others was the last one before, too.
LEMMA LastAsksKept ==
  ASSUME ClientInv, NEW c \in calls, NEW v \in Tabs, c.kind = "load", c.tab = v,
         screen[v] = "app", calls' = calls \ {c}, filter' = filter,
         newest' = [newest EXCEPT ![v] = IF c.id > newest[v] THEN c.id ELSE newest[v]]
  PROVE  LastAsks(v)'
<1>1. newest[v] \in Nat /\ c.id \in Nat /\ newest'[v] = IF c.id > newest[v] THEN c.id ELSE newest[v]
  BY TabOf, CallFields DEF TypeOK
<1>2. LastAsks(v) /\ c \in Loads(v)  BY DEF ClientInv, ScreenOK, Loads
<1>3. \A d \in calls : d.id \in Nat  BY TabOf, CallFields
<1>4. Loads(v)' = Loads(v) \ {c}  BY DEF Loads
<1> SUFFICES ASSUME NEW d \in Loads(v)', Last(d, v)' PROVE d.arg = filter[v]
  BY DEF LastAsks
<1>5. d \in Loads(v) /\ d.id \in Nat  BY <1>3, <1>4 DEF Loads
<1>6. d.id > newest'[v] /\ \A e \in Loads(v) \ {c} : e.id <= d.id  BY <1>4 DEF Last
<1>7. d.id > newest[v] /\ c.id <= d.id  BY <1>1, <1>5, <1>6
<1>8. Last(d, v)  BY <1>6, <1>7 DEF Last
<1> QED BY <1>2, <1>5, <1>8 DEF LastAsks

\* A call fails and the page says so.
LEMMA CallFailsInv ==
  ASSUME ClientInv, NEW c \in calls, CallFails(c)
  PROVE  ClientInv'
<1> DEFINE cs == calls \ {c}
<1>1. /\ c.answer = "failed" /\ c.tab # None /\ c.kind \in {"load", "login"}
      /\ calls' = cs
      /\ IF c.kind = "load"
         THEN /\ misled' = misled \cup {c.tab}
              /\ newest' = [newest EXCEPT ![c.tab] = IF c.id > @ THEN c.id ELSE @]
         ELSE UNCHANGED <<misled, newest>>
      /\ UNCHANGED <<platform, token, screen, filter, shown, live, owner, sent, nextId, abandoned>>
  BY DEF CallFails
<1>2. PICK t \in Tabs : t = c.tab  BY <1>1, TabOf
<1>3. Rest(c, cs)  BY DEF Rest
<1>4. PICK N : N = {} /\ Moved(cs, N)  BY <1>1, EndsQuietly
<1>5. c.id \in Nat /\ c.id < nextId /\ nextId \in Nat
  BY CallFields, TabOf DEF ClientInv, CallInv, Numbered, TypeOK
<1>6. newest' \in [Tabs -> Nat] /\ misled' \subseteq Tabs
  BY <1>1, <1>2, <1>5, TabOf DEF TypeOK
<1>7. TypeOK'
  <2>1. calls' \subseteq Call /\ nextId' \in Nat  BY <1>4, TabOf, MovedType
  <2> QED BY <1>1, <1>6, <2>1, TabOf DEF TypeOK
<1>8. \A v \in Tabs : newest'[v] < nextId
  BY <1>1, <1>2, <1>5, TabOf DEF TypeOK
<1>9. ASSUME NEW v \in Tabs PROVE ScreenOK(v)'
  <2>1. CASE v = t /\ c.kind = "load"
    <3> SUFFICES ASSUME screen[v] = "app" PROVE LastAsks(v)' /\ v \in misled'
      BY <1>1 DEF ScreenOK
    <3>1. newest' = [newest EXCEPT ![v] = IF c.id > newest[v] THEN c.id ELSE newest[v]]
      BY <1>1, <1>2, <2>1, TabOf DEF TypeOK
    <3>2. LastAsks(v)'  BY <1>1, <1>2, <2>1, <3>1, LastAsksKept
    <3> QED BY <1>1, <1>2, <2>1, <3>2
  <2>2. CASE ~(v = t /\ c.kind = "load")
    <3>1. v # c.tab \/ (c.kind # "load" /\ cs = calls \ {c})  BY <1>2, <2>2
    <3>2. newest'[v] = newest[v] /\ (v \notin misled' => v \notin misled)
      BY <1>1, <1>2, <2>2, TabOf DEF TypeOK
    <3>3. \A n \in N : n.kind # "load" \/ n.tab # v  BY <1>4
    <3> HIDE DEF cs
    <3> QED BY <1>1, <1>3, <1>4, <3>1, <3>2, <3>3, EndsScreen
  <2> QED BY <2>1, <2>2
<1> HIDE DEF cs
<1>10. TokenMoves(cs)  BY <1>1 DEF TokenMoves
<1>11. c.got = 0 /\ c.answer # "none"  BY <1>1, TabOf DEF Shape
<1> QED BY <1>1, <1>3, <1>4, <1>7, <1>8, <1>9, <1>10, <1>11, EndsInv

\* Tab t, whose request c has ended, sends one.
LEMMA SendsOn ==
  ASSUME ClientInv, NEW c \in calls, NEW t \in Tabs, c.tab = t, NEW s, NEW k, NEW a,
         Asks(k, a), token' \in {0} \cup Tokens, Send(t, s, k, calls \ {c}, a)
  PROVE  /\ screen' = [screen EXCEPT ![t] = s]
         /\ \E n \in Call : Moved(calls \ {c}, {n}) /\ IsCall(n, k, t, a)
<1>1. Rest(c, calls \ {c})  BY DEF Rest
<1>2. From(calls \ {c}) /\ TypeOK  BY <1>1, RestIs, TabOf
<1> QED BY <1>2, Sends DEF Send

\* The check succeeds: the page is shown and its list asked for.
LEMMA CheckedInv ==
  ASSUME ClientInv, NEW c \in calls, Checked(c)
  PROVE  ClientInv'
<1> DEFINE cs == calls \ {c}
<1>1. /\ c.answer = "ok" /\ c.tab # None /\ c.kind \in {"me", "check"} /\ token' = token
      /\ IF c.kind = "me" THEN Send(c.tab, "app", "load", cs, filter[c.tab])
         ELSE IF screen[c.tab] = "login" THEN Send(c.tab, "checking", "me", cs, None)
         ELSE Quiet(c.tab, screen[c.tab], cs)
      /\ misled' = IF token = c.token THEN misled ELSE misled \cup {c.tab}
      /\ UNCHANGED <<platform, filter, shown, live, owner, sent, newest, abandoned>>
  BY DEF Checked
<1>2. PICK t \in Tabs : t = c.tab  BY <1>1, TabOf
<1>3. Rest(c, cs) /\ token' \in {0} \cup Tokens /\ filter[t] \in Filters
  BY <1>1, TabOf DEF Rest, TypeOK
<1>4. \E N : /\ Moved(cs, N)
             /\ \/ screen' = [screen EXCEPT ![t] = "app"] /\ \E n \in Call : N = {n} /\ IsCall(n, "load", t, filter[t])
                \/ /\ screen' = screen \/ screen' = [screen EXCEPT ![t] = "checking"]
                   /\ \A n \in N : n.kind # "load"
  <2>1. CASE c.kind = "me"
    <3>1. Send(t, "app", "load", cs, filter[t])  BY <1>1, <1>2, <2>1
    <3>2. Asks("load", filter[t])  BY <1>3 DEF Asks, Kinds
    <3>3. PICK n \in Call : Moved(cs, {n}) /\ IsCall(n, "load", t, filter[t])
      BY <1>2, <1>3, <3>1, <3>2, SendsOn
    <3>4. screen' = [screen EXCEPT ![t] = "app"]  BY <3>1 DEF Send
    <3> HIDE DEF cs
    <3> QED BY <3>3, <3>4
  <2>2. CASE c.kind = "check" /\ screen[t] = "login"
    <3>1. Send(t, "checking", "me", cs, None)  BY <1>1, <1>2, <2>2
    <3>2. Asks("me", None)  BY DEF Asks, Kinds
    <3>3. PICK n \in Call : Moved(cs, {n}) /\ IsCall(n, "me", t, None)
      BY <1>2, <1>3, <3>1, <3>2, SendsOn
    <3>4. screen' = [screen EXCEPT ![t] = "checking"]  BY <3>1 DEF Send
    <3> HIDE DEF cs
    <3> QED BY <3>3, <3>4 DEF IsCall
  <2>3. CASE c.kind = "check" /\ screen[t] # "login"
    <3>1. Quiet(t, screen[t], cs)  BY <1>1, <1>2, <2>3
    <3>2. calls' = cs /\ nextId' = nextId /\ screen' = screen
      BY <3>1, TabOf DEF Quiet, TypeOK
    <3>3. PICK N : N = {} /\ Moved(cs, N)  BY <3>2, EndsQuietly
    <3> HIDE DEF cs
    <3> QED BY <3>2, <3>3
  <2> QED BY <1>1, <2>1, <2>2, <2>3
<1>5. PICK N : /\ Moved(cs, N)
               /\ \/ screen' = [screen EXCEPT ![t] = "app"] /\ \E n \in Call : N = {n} /\ IsCall(n, "load", t, filter[t])
                  \/ /\ screen' = screen \/ screen' = [screen EXCEPT ![t] = "checking"]
                     /\ \A n \in N : n.kind # "load"
  BY <1>4
<1>6. TypeOK'
  <2>1. calls' \subseteq Call /\ nextId' \in Nat  BY <1>5, TabOf, MovedType
  <2>2. screen' \in [Tabs -> {"closed", "login", "checking", "app"}]
    BY <1>5, TabOf DEF TypeOK
  <2>3. misled' \subseteq Tabs  BY <1>1, <1>2, TabOf DEF TypeOK
  <2> QED BY <1>1, <2>1, <2>2, <2>3, TabOf DEF TypeOK
<1>7. ASSUME NEW v \in Tabs PROVE ScreenOK(v)'
  <2>1. CASE /\ v = t /\ screen' = [screen EXCEPT ![t] = "app"]
             /\ \E n \in Call : N = {n} /\ IsCall(n, "load", t, filter[t])
    <3>1. PICK n \in Call : N = {n} /\ IsCall(n, "load", t, filter[t])  BY <2>1
    <3>2. /\ n.kind = "load" /\ n.tab = v /\ n.arg = filter'[v] /\ n.token = token'
          /\ newest' = newest
      BY <1>1, <2>1, <3>1 DEF IsCall
    <3>3. Moved(cs, {n}) /\ TypeOK /\ CallInv  BY <1>5, <3>1 DEF ClientInv
    <3> HIDE DEF cs
    <3> QED BY <3>2, <3>3, ScreenSends
  <2>2. CASE ~ (/\ v = t /\ screen' = [screen EXCEPT ![t] = "app"]
                /\ \E n \in Call : N = {n} /\ IsCall(n, "load", t, filter[t]))
    <3>1. screen'[v] = "app" => screen[v] = "app"  BY <1>5, <2>2, TabOf DEF TypeOK
    <3>2. \A n \in N : n.kind # "load" \/ n.tab # v  BY <1>5, <2>2 DEF IsCall
    <3>3. c.kind # "load" /\ cs = calls \ {c}  BY <1>1
    <3>4. v \notin misled' => v \notin misled  BY <1>1
    <3> HIDE DEF cs
    <3> QED BY <1>1, <1>3, <1>5, <3>1, <3>2, <3>3, <3>4, EndsScreen
  <2> QED BY <2>1, <2>2
<1> HIDE DEF cs
<1>8. TokenMoves(cs)  BY <1>1 DEF TokenMoves
<1>9. \A v \in Tabs : newest'[v] < nextId  BY <1>1, TabOf
<1>10. c.got = 0 /\ c.answer # "none"  BY <1>1, TabOf DEF Shape
<1> QED BY <1>1, <1>3, <1>5, <1>6, <1>7, <1>8, <1>9, <1>10, EndsInv

\* A login succeeds: its token is stored.
LEMMA LoggedInInv ==
  ASSUME ClientInv, NEW c \in calls, LoggedIn(c)
  PROVE  ClientInv'
<1> DEFINE cs == calls \ {c}
<1>1. /\ c.answer = "ok" /\ c.tab # None /\ c.kind = "login" /\ token' = c.got /\ GiveUp
      /\ IF platform = "web" THEN Send(c.tab, "checking", "me", cs, None)
         ELSE Send(c.tab, "app", "load", cs, filter[c.tab])
      /\ misled' = misled \cup (Tabs \ {c.tab})
      /\ UNCHANGED <<platform, filter, shown, live, owner, sent, newest>>
  BY DEF LoggedIn
<1>2. PICK t \in Tabs : t = c.tab  BY <1>1, TabOf
<1>3. Rest(c, cs) /\ token' \in {0} \cup Tokens /\ filter[t] \in Filters
  BY <1>1, CallFields, TabOf DEF Rest, TypeOK
<1>4. \E n \in Call : \E s \in {"checking", "app"} :
        /\ Moved(cs, {n}) /\ screen' = [screen EXCEPT ![t] = s]
        /\ n.tab = t /\ n.token = token'
        /\ s = "app" => n.kind = "load" /\ n.arg = filter[t]
  <2>1. CASE platform = "web"
    <3>1. Send(t, "checking", "me", cs, None)  BY <1>1, <1>2, <2>1
    <3>2. Asks("me", None)  BY DEF Asks, Kinds
    <3>3. PICK n \in Call : Moved(cs, {n}) /\ IsCall(n, "me", t, None)
      BY <1>2, <1>3, <3>1, <3>2, SendsOn
    <3>4. screen' = [screen EXCEPT ![t] = "checking"]  BY <3>1 DEF Send
    <3> HIDE DEF cs
    <3> QED BY <3>3, <3>4 DEF IsCall
  <2>2. CASE platform # "web"
    <3>1. Send(t, "app", "load", cs, filter[t])  BY <1>1, <1>2, <2>2
    <3>2. Asks("load", filter[t])  BY <1>3 DEF Asks, Kinds
    <3>3. PICK n \in Call : Moved(cs, {n}) /\ IsCall(n, "load", t, filter[t])
      BY <1>2, <1>3, <3>1, <3>2, SendsOn
    <3>4. screen' = [screen EXCEPT ![t] = "app"]  BY <3>1 DEF Send
    <3> HIDE DEF cs
    <3> QED BY <3>3, <3>4 DEF IsCall
  <2> QED BY <2>1, <2>2
<1>5. PICK n \in Call, s \in {"checking", "app"} :
        /\ Moved(cs, {n}) /\ screen' = [screen EXCEPT ![t] = s]
        /\ n.tab = t /\ n.token = token'
        /\ s = "app" => n.kind = "load" /\ n.arg = filter[t]
  BY <1>4
<1>6. /\ abandoned \subseteq abandoned' /\ abandoned' \subseteq Tokens
      /\ token' = token \/ token \notin live \/ token \in abandoned'
  BY <1>1, TabOf, GivesUp
<1>7. TypeOK'
  <2>1. calls' \subseteq Call /\ nextId' \in Nat  BY <1>5, TabOf, MovedType
  <2>2. screen' \in [Tabs -> {"closed", "login", "checking", "app"}]
    BY <1>5, TabOf DEF TypeOK
  <2>3. misled' \subseteq Tabs  BY <1>1, TabOf DEF TypeOK
  <2> QED BY <1>1, <1>3, <1>6, <2>1, <2>2, <2>3, TabOf DEF TypeOK
<1>8. ASSUME NEW v \in Tabs PROVE ScreenOK(v)'
  <2>1. CASE v # t
    <3>1. screen'[v] = screen[v]  BY <1>5, <2>1, TabOf DEF TypeOK
    <3>2. v \in misled' /\ v # c.tab  BY <1>1, <1>2, <2>1
    <3>3. PICK N : N = {n}  OBVIOUS
    <3>4. \A m \in N : m.kind # "load" \/ m.tab # v  BY <1>5, <2>1, <3>3
    <3> HIDE DEF cs
    <3> QED BY <1>1, <1>3, <1>5, <3>1, <3>2, <3>3, <3>4, EndsScreen
  <2>2. CASE v = t /\ s = "app"
    <3>1. /\ n.kind = "load" /\ n.tab = v /\ n.arg = filter'[v] /\ n.token = token'
          /\ newest' = newest
      BY <1>1, <1>5, <2>2
    <3>2. Moved(cs, {n}) /\ TypeOK /\ CallInv  BY <1>5 DEF ClientInv
    <3> HIDE DEF cs
    <3> QED BY <3>1, <3>2, ScreenSends
  <2>3. CASE v = t /\ s = "checking"
    <3>1. screen'[v] # "app"  BY <1>5, <2>3, TabOf DEF TypeOK
    <3> QED BY <3>1 DEF ScreenOK
  <2> QED BY <2>1, <2>2, <2>3
<1>9. TokenMoves(cs)
  <2>1. c.got # 0  BY <1>1, TabOf DEF Shape
  <2>2. \A d \in cs : d.id # c.id  BY DEF ClientInv, CallInv, Numbered
  <2> QED BY <1>1, <2>1, <2>2 DEF TokenMoves
<1> HIDE DEF cs
<1>10. \A v \in Tabs : newest'[v] < nextId  BY <1>1, TabOf
<1>11. c.answer # "none" /\ (c.got # 0 => c.got \in abandoned' \cup {token'})
  BY <1>1
<1>12. PICK N : N = {n} /\ Moved(cs, N)  BY <1>5
<1> QED BY <1>1, <1>3, <1>6, <1>7, <1>8, <1>9, <1>10, <1>11, <1>12, EndsInv

\* The answer to a logout.
LEMMA LoggedOutInv ==
  ASSUME ClientInv, NEW c \in calls, LoggedOut(c)
  PROVE  ClientInv'
<1> DEFINE cs == calls \ {c}
<1>1. /\ c.answer \in {"ok", "failed"} /\ c.tab # None /\ c.kind = "logout" /\ token' = token
      /\ Land(c.tab, cs)
      /\ shown' = [shown EXCEPT ![c.tab] = None] /\ misled' = misled \cup {c.tab}
      /\ UNCHANGED <<platform, filter, live, owner, sent, newest, abandoned>>
  BY DEF LoggedOut
<1>2. PICK t \in Tabs : t = c.tab  BY <1>1, TabOf
<1>3. Rest(c, cs) /\ token' \in {0} \cup Tokens  BY <1>1, TabOf DEF Rest, TypeOK
<1>4. /\ screen' = [screen EXCEPT ![t] = "login"]
      /\ \E N : Moved(cs, N) /\ \A n \in N : n.kind # "load"
  <2>1. Land(t, cs) /\ From(cs)  BY <1>1, <1>2, <1>3, RestIs
  <2> HIDE DEF cs
  <2> QED BY <1>3, <2>1, LandMoves
<1>5. PICK N : Moved(cs, N) /\ \A n \in N : n.kind # "load"  BY <1>4
<1>6. TypeOK'
  <2>1. calls' \subseteq Call /\ nextId' \in Nat  BY <1>5, TabOf, MovedType
  <2>2. screen' \in [Tabs -> {"closed", "login", "checking", "app"}]
    BY <1>4, TabOf DEF TypeOK
  <2>3. misled' \subseteq Tabs  BY <1>1, <1>2, TabOf DEF TypeOK
  <2>4. shown' \in [Tabs -> [user : Users, filter : Filters] \cup {None}]
    BY <1>1, TabOf DEF TypeOK
  <2> QED BY <1>1, <2>1, <2>2, <2>3, <2>4, TabOf DEF TypeOK
<1>7. ASSUME NEW v \in Tabs PROVE ScreenOK(v)'
  <2>1. CASE v = t
    <3>1. screen'[v] # "app"  BY <1>4, <2>1, TabOf DEF TypeOK
    <3> QED BY <3>1 DEF ScreenOK
  <2>2. CASE v # t
    <3>1. screen'[v] = screen[v] /\ shown'[v] = shown[v]
      BY <1>1, <1>2, <1>4, <2>2, TabOf DEF TypeOK
    <3>2. v # c.tab /\ \A n \in N : n.kind # "load" \/ n.tab # v  BY <1>2, <1>5, <2>2
    <3>3. v \notin misled' => v \notin misled  BY <1>1
    <3> HIDE DEF cs
    <3> QED BY <1>1, <1>3, <1>5, <3>1, <3>2, <3>3, EndsScreen
  <2> QED BY <2>1, <2>2
<1> HIDE DEF cs
<1>8. TokenMoves(cs)  BY <1>1 DEF TokenMoves
<1>9. \A v \in Tabs : newest'[v] < nextId  BY <1>1, TabOf
<1>10. c.got = 0 /\ c.answer # "none"  BY <1>1, TabOf DEF Shape
<1> QED BY <1>1, <1>3, <1>5, <1>6, <1>7, <1>8, <1>9, <1>10, EndsInv

\* A nonempty set of numbers below a bound has a greatest one.
LEMMA GreatestNumber ==
  ASSUME NEW B \in SUBSET Nat, B # {}, NEW top \in Nat, \A n \in B : n < top
  PROVE  \E n \in B : \A m \in B : m <= n
<1> DEFINE R == OpToRel(<, Nat)
           D == {top - n : n \in B}
<1>1. \A n \in B : n \in Nat /\ top - n \in Nat  OBVIOUS
<1>2. D \in SUBSET Nat /\ D # {}  BY <1>1
<1>3. \A n \in B : top - n \in D  OBVIOUS
<1>4. \A k \in D : \E n \in B : k = top - n  OBVIOUS
<1>5. \A n, m \in Nat : <<m, n>> \in R <=> m < n  BY DEF OpToRel
<1> HIDE DEF D
<1>6. \E k \in D : \A j \in D : <<j, k>> \notin R
  BY <1>2, NatLessThanWellFounded, WFMin, Zenon
<1> HIDE DEF R
<1>7. PICK k \in D : \A j \in D : <<j, k>> \notin R  BY <1>6
<1>8. \A j \in D : j \in Nat /\ k \in Nat /\ ~(j < k)  BY Zenon, <1>2, <1>5, <1>7
<1>9. PICK n \in B : k = top - n  BY <1>4, <1>7
<1>10. ASSUME NEW m \in B PROVE m <= n  BY <1>1, <1>3, <1>8, <1>9
<1> QED BY <1>10

\* A list arrives and is shown, whatever came before it: only the newest one of this
\* session is right.
LEMMA LoadedInv ==
  ASSUME ClientInv, NEW c \in calls, Loaded(c)
  PROVE  ClientInv'
<1> DEFINE cs == calls \ {c}
           inOrder == c.id > newest[c.tab]
<1>1. /\ c.answer = "ok" /\ c.tab # None /\ c.kind = "load" /\ calls' = cs
      /\ shown' = [shown EXCEPT ![c.tab] = [user |-> owner[c.token], filter |-> c.arg]]
      /\ newest' = [newest EXCEPT ![c.tab] = IF inOrder THEN c.id ELSE @]
      /\ misled' = IF inOrder /\ c.token = token THEN misled \ {c.tab} ELSE misled \cup {c.tab}
      /\ UNCHANGED <<platform, token, screen, filter, live, owner, sent, nextId, abandoned>>
  BY DEF Loaded
<1>2. PICK t \in Tabs : t = c.tab  BY <1>1, TabOf
<1>3. Rest(c, cs)  BY DEF Rest
<1>4. PICK N : N = {} /\ Moved(cs, N)  BY <1>1, EndsQuietly
<1>5. /\ c.id \in Nat /\ c.id < nextId /\ nextId \in Nat /\ newest[t] \in Nat
      /\ \A d \in calls : d.id \in Nat /\ d.id < nextId
  BY CallFields, TabOf DEF ClientInv, CallInv, Numbered, TypeOK
<1>6. c.arg \in Filters /\ c.token # 0 /\ c.got = 0  BY <1>1, TabOf DEF Shape, Reads, Refusals
<1>7. owner[c.token] \in Users
  <2>1. c.token \in Tokens  BY <1>6, TabOf, CallFields
  <2>2. owner[c.token] # None  BY <1>6 DEF ClientInv, CallInv, Known, Given
  <2> QED BY <2>1, <2>2, TabOf DEF TypeOK
<1>8. newest'[t] = (IF inOrder THEN c.id ELSE newest[t]) /\ newest' \in [Tabs -> Nat]
  BY <1>1, <1>2, <1>5, TabOf DEF TypeOK
<1>9. TypeOK'
  <2>1. calls' \subseteq Call /\ nextId' \in Nat  BY <1>4, TabOf, MovedType
  <2>2. [user |-> owner[c.token], filter |-> c.arg] \in [user : Users, filter : Filters]
    BY <1>6, <1>7
  <2>3. shown' \in [Tabs -> [user : Users, filter : Filters] \cup {None}]
    BY <1>1, <2>2, TabOf DEF TypeOK
  <2>4. misled' \subseteq Tabs  BY <1>1, <1>2, TabOf DEF TypeOK
  <2> QED BY <1>1, <1>8, <2>1, <2>3, <2>4, TabOf DEF TypeOK
<1>10. \A v \in Tabs : newest'[v] < nextId
  BY <1>1, <1>2, <1>5, TabOf DEF TypeOK
<1>11. ASSUME NEW v \in Tabs PROVE ScreenOK(v)'
  <2>1. CASE v # t
    <3>1. v # c.tab /\ newest'[v] = newest[v] /\ shown'[v] = shown[v]
      BY <1>1, <1>2, <2>1, TabOf DEF TypeOK
    <3>2. v \notin misled' => v \notin misled  BY <1>1, <1>2, <2>1
    <3>3. \A n \in N : n.kind # "load" \/ n.tab # v  BY <1>4
    <3> HIDE DEF cs
    <3> QED BY <1>1, <1>3, <1>4, <3>1, <3>2, <3>3, EndsScreen
  <2>2. CASE v = t
    <3> SUFFICES ASSUME screen[t] = "app"
                 PROVE  LastAsks(t)' /\ (t \notin misled' => Waits(t)' \/ Right(t)')
      BY <1>1, <2>2 DEF ScreenOK
    <3>1. LastAsks(t)'
      <4>1. newest' = [newest EXCEPT ![t] = IF c.id > newest[t] THEN c.id ELSE newest[t]]
        BY <1>1, <1>2, TabOf DEF TypeOK
      <4> QED BY <1>1, <1>2, <4>1, LastAsksKept
    <3> SUFFICES ASSUME t \notin misled' PROVE Waits(t)' \/ Right(t)'
      BY <3>1
    <3>2. inOrder /\ c.token = token  BY <1>1, <1>2
    <3>3. LastAsks(t) /\ c \in Loads(t)  BY <1>1, <1>2 DEF ClientInv, ScreenOK, Loads
    <3>4. Loads(t)' = Loads(t) \ {c}  BY <1>1 DEF Loads
    <3>5. newest'[t] = c.id /\ c.id > newest[t]  BY <1>2, <1>8, <3>2
    <3>6. CASE \A d \in Loads(t) \ {c} : d.id <= c.id
      <4>1. Last(c, t)  BY <1>5, <3>5, <3>6 DEF Last
      <4>2. c.arg = filter[t]  BY <3>3, <4>1 DEF LastAsks
      <4>3. shown'[t] = [user |-> owner'[token'], filter |-> filter'[t]]
        BY <1>1, <1>2, <3>2, <4>2, TabOf DEF TypeOK
      <4> QED BY <1>1, <1>6, <3>2, <3>4, <3>5, <3>6, <4>3 DEF Right
    <3>7. CASE ~ \A d \in Loads(t) \ {c} : d.id <= c.id
      <4> DEFINE B == {d.id : d \in Loads(t) \ {c}}
      <4>1. /\ B \in SUBSET Nat /\ B # {} /\ \A n \in B : n < nextId
            /\ \A n \in B : \E d \in Loads(t) \ {c} : n = d.id
            /\ \A d \in Loads(t) \ {c} : d.id \in B
        BY <1>5, <3>7 DEF Loads
      <4> HIDE DEF B
      <4>2. PICK n \in B : \A m \in B : m <= n  BY <1>5, <4>1, GreatestNumber
      <4>3. PICK d \in Loads(t) \ {c} : n = d.id  BY <4>1
      <4>4. \A e \in Loads(t) \ {c} : e.id <= d.id  BY <4>1, <4>2, <4>3
      <4>5. d.id > c.id /\ d.id \in Nat /\ d \in calls
        <5>1. PICK e \in Loads(t) \ {c} : ~(e.id <= c.id)  BY <3>7
        <5>2. e.id \in Nat /\ d.id \in Nat /\ d \in calls  BY <1>5 DEF Loads
        <5> QED BY <1>5, <4>4, <5>1, <5>2
      <4>6. Last(d, t)  BY <1>5, <3>5, <4>4, <4>5 DEF Last
      <4>7. d.arg = filter[t]  BY <3>3, <4>6 DEF LastAsks
      <4>8. d.token = token  BY <1>6, <3>2, <4>5 DEF ClientInv, CallInv, InSession
      <4>9. Last(d, t)'  BY <3>4, <3>5, <4>4, <4>5 DEF Last
      <4> QED BY <1>1, <3>4, <4>7, <4>8, <4>9 DEF Waits
    <3> QED BY <3>6, <3>7
  <2> QED BY <2>1, <2>2
<1> HIDE DEF cs
<1>12. TokenMoves(cs)  BY <1>1 DEF TokenMoves
<1> QED BY <1>1, <1>3, <1>4, <1>6, <1>9, <1>10, <1>11, <1>12, EndsInv

-----------------------------------------------------------------------------
(* The theorems.                                                           *)

\* No token, no call, nothing shown: the invariant holds at first.
LEMMA ClientInit == Init => ClientInv
<1> SUFFICES ASSUME Init PROVE ClientInv
  OBVIOUS
<1>1. TypeOK  BY ClientAssumption DEF Init, TypeOK
<1>2. CallInv
  BY ClientAssumption DEF Init, CallInv, Numbered, Known, Given, Fresh, InSession,
         Cleared
<1>3. LiveTokensAccounted  BY DEF Init, LiveTokensAccounted
<1>4. \A t \in Tabs : ScreenOK(t)  BY DEF Init, ScreenOK
<1> QED BY <1>1, <1>2, <1>3, <1>4 DEF ClientInv

\* The lemmas above, one for each disjunct of Next.
LEMMA ClientStep == ClientInv /\ [Next]_vars => ClientInv'
<1> SUFFICES ASSUME ClientInv, [Next]_vars PROVE ClientInv'
  OBVIOUS
<1>1. ASSUME NEW t \in Tabs, Visit(t) \/ OpenLogin(t) \/ Logout(t) PROVE ClientInv'
  BY <1>1, VisitInv, OpenLoginInv, LogoutInv
<1>2. ASSUME NEW t \in Tabs, NEW u \in Users \cup {None}, SubmitLogin(t, u) PROVE ClientInv'
  BY <1>2, SubmitLoginInv
<1>3. ASSUME NEW t \in Tabs, NEW f \in Filters, ChangeFilter(t, f) PROVE ClientInv'
  BY <1>3, ChangeFilterInv
<1>4. CASE Expire  BY <1>4, ExpireInv
<1>5. ASSUME NEW c \in calls, Answer(c) PROVE ClientInv'
  BY <1>5, AnswerLoginInv, AnswerLogoutInv, AnswerReadInv, FailsInv DEF Answer
<1>6. ASSUME NEW c \in calls, Receive(c) PROVE ClientInv'
  BY <1>6, LostInv, UnauthorizedInv, DropAgainInv, LeaveInv, CheckFailsInv, CallFailsInv,
     CheckedInv, LoggedInInv, LoadedInv, LoggedOutInv DEF Receive
<1>7. CASE UNCHANGED vars
  <2>1. TypeOK'  BY <1>7 DEF vars, ClientInv, TypeOK
  <2>2. CallInv'
    BY <1>7 DEF vars, ClientInv, CallInv, Numbered, Known, Given, Shape, Fresh, InSession,
           Cleared
  <2>3. LiveTokensAccounted'  BY <1>7 DEF vars, ClientInv, LiveTokensAccounted
  <2>4. ASSUME NEW t \in Tabs PROVE ScreenOK(t)'
    BY <1>7 DEF vars, ClientInv, ScreenOK, LastAsks, Waits, Right, Last, Loads
  <2> QED BY <2>1, <2>2, <2>3, <2>4 DEF ClientInv
<1> QED BY <1>1, <1>2, <1>3, <1>4, <1>5, <1>6, <1>7 DEF Next

\* The requests in flight, the tokens they carry and bring, and what each tab
\* shows keep to the invariant above.
THEOREM ClientInvariant == Spec => []ClientInv
<1> QED BY ClientInit, ClientStep, PTL DEF Spec

\* Every variable keeps its type: a list that is shown always has a user, and
\* a token that is stored is one the server has made.
THEOREM ClientTypeCorrect == Spec => []TypeOK
<1>1. ClientInv => TypeOK  BY DEF ClientInv
<1> QED BY <1>1, ClientInvariant, PTL

\* No token the server accepts is forgotten without a reason (logout,
\* handleUnauthorized, setToken): it is stored, under way or given up.
THEOREM LiveTokensAccountedHolds == Spec => []LiveTokensAccounted
<1>1. ClientInv => LiveTokensAccounted  BY DEF ClientInv
<1> QED BY <1>1, ClientInvariant, PTL

\* A page whose requests have ended shows the list of the user whose token is
\* stored, for its filters, unless it has a reason not to (fetchTransactions,
\* handleUnauthorized).
THEOREM ScreenTellsTheTruthHolds == Spec => []ScreenTellsTheTruth
<1>1. ClientInv => ScreenTellsTheTruth
  <2> SUFFICES ASSUME ClientInv, NEW t \in MyTabs, screen[t] = "app", t \notin misled,
                      ~\E c \in calls : c.tab = t
               PROVE  shown[t] = [user |-> owner[token], filter |-> filter[t]]
    BY DEF ScreenTellsTheTruth
  <2>1. t \in Tabs  BY ClientAssumption DEF MyTabs
  <2>2. Waits(t) \/ Right(t)  BY <2>1 DEF ClientInv, ScreenOK
  <2>3. ~Waits(t)  BY DEF Waits, Loads
  <2> QED BY <2>2, <2>3 DEF Right
<1> QED BY <1>1, ClientInvariant, PTL

\* No step ends a session the server accepts but for the causes listed in
\* LiveSessionEndsForCause: a 401 to the very token that is stored, of a server
\* that could check it, is none of them (logout, boot, AuthGate,
\* handleUnauthorized).
THEOREM LiveSessionEndsForCauseHolds == Spec => LiveSessionEndsForCause
<1> DEFINE Cause ==
      \/ \E c \in calls' \ calls : c.kind = "logout" /\ c.token = token
      \/ \E c \in calls \ calls' :
           \/ c.kind \in {"me", "check"} /\ c.answer \in {"failed", "error"}
           \/ c.answer = "unverified"
           \/ c.answer = "unauthorized" /\ (c.token # token \/ c.kind = "login")
           \/ c.answer \in {"refused", "leaving"} /\ c.token # token
<1>1. ClientInv /\ [Next]_vars => (token \in live /\ token' = 0 => Cause)
  <2> SUFFICES ASSUME ClientInv, [Next]_vars, token \in live, token' = 0 PROVE Cause
    OBVIOUS
  <2>1. token # 0 /\ token \in Tokens  BY DEF ClientInv, TypeOK, Tokens
  <2>2. ASSUME NEW t \in Tabs, Logout(t) PROVE Cause
    <3>1. PICK i \in Nat, tk \in {0} \cup Tokens : i = nextId /\ tk = token
      BY DEF ClientInv, TypeOK
    <3> DEFINE n == NewCall(i, "logout", t, tk, None)
    <3>2. "logout" \in Kinds /\ None \in Users \cup Filters \cup {None}  BY DEF Kinds
    <3>3. n.id = nextId /\ n.kind = "logout" /\ n.token = token
      BY <3>1, <3>2, NewCallIs
    <3>4. n \in calls'  BY <2>1, <2>2, <3>1 DEF Logout
    <3> HIDE DEF n
    <3>5. n \notin calls  BY <3>1, <3>3 DEF ClientInv, CallInv, Numbered
    <3> QED BY <3>3, <3>4, <3>5
  <2>3. ASSUME NEW c \in calls, c.tab # None, Unload(c.tab, calls \ {c})
        PROVE  c \notin calls'
    <3>1. PICK t \in Tabs : t = c.tab  BY <2>3, TabOf
    <3>2. calls' = Orphaned(calls \ {c}, t)  BY <2>3, <3>1 DEF Unload, Land, Quiet
    <3>3. PICK R \in SUBSET calls : R = calls \ {c}  OBVIOUS
    <3>4. TypeOK /\ Numbered  BY DEF ClientInv, CallInv
    <3>5. \A d \in Orphaned(R, t) : d.tab # t  BY <3>4, FromOrphaned
    <3> QED BY <3>1, <3>2, <3>3, <3>5
  <2>4. ASSUME NEW c \in calls, Unauthorized(c) PROVE Cause
    <3>1. c.answer \in {"unauthorized", "unverified"} /\ c.tab # None
      BY <2>4 DEF Unauthorized
    <3>2. c \notin calls'
      <4>1. CASE c.kind \in {"me", "check"}
        <5>1. PICK s \in Refusals : calls' = (calls \ {c}) \cup {[c EXCEPT !.answer = s]}
          BY <2>4, <4>1 DEF Unauthorized, Refusals, Answered
        <5>2. [c EXCEPT !.answer = s].answer = s /\ s # c.answer
          BY <3>1, TabOf, AnswerRecord DEF Refusals
        <5> QED BY <5>1, <5>2
      <4>2. CASE c.kind \notin {"me", "check"}
        <5>1. Unload(c.tab, calls \ {c}) \/ calls' = calls \ {c}
          BY <2>4, <4>2 DEF Unauthorized, Quiet
        <5> QED BY <2>3, <3>1, <5>1
      <4> QED BY <4>1, <4>2
    <3>3. c.answer = "unauthorized" => c.token # token \/ c.kind = "login"
      <4>1. Shape(c) /\ c.kind \in Kinds  BY TabOf, CallFields
      <4> QED BY <4>1 DEF Shape, Kinds, Reads
    <3> QED BY <3>1, <3>2, <3>3
  <2>15. ASSUME NEW c \in calls, DropAgain(c) PROVE Cause
    <3>1. c.answer \in Refusals /\ c.tab # None  BY <2>15 DEF DropAgain, Refusals
    <3>2. Unload(c.tab, calls \ {c}) \/ calls' = calls \ {c}
      BY <2>15 DEF DropAgain, Quiet
    <3>3. c \notin calls'  BY <2>3, <3>1, <3>2
    <3>4. c.token # token  BY <2>1, <3>1 DEF ClientInv, CallInv, Cleared
    <3> QED BY <3>1, <3>3, <3>4 DEF Refusals
  <2>16. ASSUME NEW c \in calls, CheckFails(c) PROVE Cause
    BY <2>16 DEF CheckFails, Quiet
  <2>5. ASSUME NEW c \in calls, LoggedIn(c) PROVE FALSE
    <3>1. c.kind = "login" /\ c.answer = "ok" /\ c.got = 0  BY <2>5 DEF LoggedIn
    <3> QED BY <3>1, TabOf DEF Shape
  <2>6. ASSUME token' = token PROVE FALSE  BY <2>1, <2>6
  <2>7. ASSUME NEW t \in Tabs, Visit(t) \/ OpenLogin(t) PROVE token' = token
    BY <2>7 DEF Visit, OpenLogin
  <2>8. ASSUME NEW t \in Tabs, NEW u \in Users \cup {None}, SubmitLogin(t, u) PROVE token' = token
    BY <2>8 DEF SubmitLogin
  <2>9. ASSUME NEW t \in Tabs, NEW f \in Filters, ChangeFilter(t, f) PROVE token' = token
    BY <2>9 DEF ChangeFilter
  <2>10. CASE Expire  BY <2>6, <2>10 DEF Expire
  <2>11. ASSUME NEW c \in calls, Answer(c) PROVE token' = token
    BY <2>11 DEF Answer, AnswerLogin, AnswerLogout, AnswerRead, Fails
  <2>12. ASSUME NEW c \in calls,
                Lost(c) \/ Leave(c) \/ CallFails(c) \/ Checked(c) \/ Loaded(c) \/ LoggedOut(c)
         PROVE  token' = token
    BY <2>12 DEF Lost, Leave, CallFails, Checked, Loaded, LoggedOut
  <2>13. ASSUME NEW c \in calls, Receive(c) PROVE Cause
    <3> HIDE DEF Cause
    <3> QED BY <2>4, <2>5, <2>6, <2>12, <2>13, <2>15, <2>16 DEF Receive
  <2>14. CASE UNCHANGED vars  BY <2>6, <2>14 DEF vars
  <2> HIDE DEF Cause
  <2> QED BY <2>2, <2>6, <2>7, <2>8, <2>9, <2>10, <2>11, <2>13, <2>14 DEF Next
<1>2. ClientInv /\ [Next]_vars
        => [(token \in live /\ token' = 0) =>
             \/ \E c \in calls' \ calls : c.kind = "logout" /\ c.token = token
             \/ \E c \in calls \ calls' :
                  \/ c.kind \in {"me", "check"} /\ c.answer \in {"failed", "error"}
                  \/ c.answer = "unverified"
                  \/ c.answer = "unauthorized" /\ (c.token # token \/ c.kind = "login")
                  \/ c.answer \in {"refused", "leaving"} /\ c.token # token]_vars
  BY <1>1
<1> QED BY <1>2, ClientInvariant, PTL DEF Spec, LiveSessionEndsForCause

=============================================================================
