--------------------------- MODULE OwnerIdentity ---------------------------
(***************************************************************************)
(* Who may do what: the three middlewares (middleware.py, main.py), the    *)
(* signed owner cookie and the access token (security.py), and the         *)
(* ownership rule of every read (api/deps.py).                             *)
(*                                                                         *)
(* Browsers send requests side by side to several replicas, which restart  *)
(* and are redeployed with another token one by one; answers arrive late,  *)
(* out of order, or not at all.  A request mints at most one owner id and  *)
(* stores at most one contract, so that both are named after it.           *)
(***************************************************************************)
EXTENDS Naturals

CONSTANTS
  Browsers,     \* cookie jars
  Replicas,     \* API processes, numbered from 1
  Requests,     \* the requests, their owner ids and their contracts
  Credentials,  \* [header, query]: the tokens a request may bring, 0 for none
  MaxBoots,     \* bound on the restarts of a replica
  MaxToken,     \* bound on the access tokens, which follow one another
  None          \* no cookie, no contract, no request

ASSUME OwnerAssumption ==
  /\ Replicas \subseteq Nat \ {0}
  /\ Credentials \subseteq [header : Nat, query : Nat]
  /\ MaxBoots \in Nat /\ MaxToken \in Nat
  /\ None \notin Requests \cup [id : Requests, key : Nat \X Nat]
  /\ Requests \cap {"static", "page", "upload"} = {}

VARIABLES
  secretKey,  \* whether SECRET_KEY is set
  boots,      \* restarts of a replica
  token,      \* ACCESS_TOKEN of a replica, 0 if it is not set
  contracts,  \* the owner_id of the contract that a request stored
  jar,        \* the two cookies of a browser
  msg,        \* a request as it was sent
  pc,         \* where a request stands
  cookies,    \* the cookies to be set by the answer to a request
  answer,     \* its HTTP status
  excused     \* browsers that have lost their identity by themselves

servers == <<secretKey, boots, token>>
serving == <<pc, cookies, answer>>
vars == <<servers, contracts, jar, msg, serving, excused>>

Cookie == [id : Requests, key : Nat \X Nat]

Jar == [owner : Cookie \cup {None}, token : Nat \cup {None}]

Message ==
  [from : Browsers, to : Replicas, ask : {"static", "page", "upload"} \cup Requests,
   given : [header : Nat, query : Nat], jar : Jar]

TypeOK ==
  /\ secretKey \in BOOLEAN
  /\ boots \in [Replicas -> Nat] /\ token \in [Replicas -> Nat]
  /\ contracts \in [Requests -> Requests \cup {None}]
  /\ jar \in [Browsers -> Jar]
  /\ DOMAIN msg = Requests
  /\ pc \in [Requests -> {"new", "sent", "reply", "end"}]
  /\ \A r \in Requests : pc[r] # "new" => msg[r] \in Message
  /\ cookies \in [Requests -> Jar]
  /\ answer \in [Requests -> Nat]
  /\ excused \subseteq Browsers

NoCookies == [owner |-> None, token |-> None]

Nothing == [header |-> 0, query |-> 0]

Init ==
  /\ secretKey \in BOOLEAN
  /\ boots = [p \in Replicas |-> 0]
  /\ \E t \in 0 .. 1 : token = [p \in Replicas |-> t]
  /\ contracts = [r \in Requests |-> None]
  /\ jar = [b \in Browsers |-> NoCookies]
  /\ msg = contracts
  /\ pc = [r \in Requests |-> "new"]
  /\ cookies = [r \in Requests |-> NoCookies]
  /\ answer = [r \in Requests |-> 0]
  /\ excused = {}

-----------------------------------------------------------------------------
(***************************************************************************)
(* security.py.                                                            *)
(***************************************************************************)

\* Faulty variant: the key is that of the process.
ProcessKey(p) == <<p, boots[p]>>

\* SECRET_KEY, or a random key that lives as long as the process.
SigningKey(p) == IF secretKey THEN <<0, 0>> ELSE <<p, boots[p]>>

Sign(p, id) == [id |-> id, key |-> SigningKey(p)]

\* The id of a cookie, if it was signed with the key of this replica.
Unsign(p, cookie) ==
  IF cookie # None /\ cookie.key = SigningKey(p) THEN cookie.id ELSE None

TokenMatches(p, candidate) == token[p] = 0 \/ candidate = token[p]

-----------------------------------------------------------------------------
(***************************************************************************)
(* middleware.py.                                                          *)
(***************************************************************************)
IsPublic(m) == m.ask = "static"

\* Faulty variant: the cookie comes before the link.
CookieFirst(m) ==
  IF m.given.header # 0 THEN m.given.header
  ELSE IF m.jar.token # None THEN m.jar.token ELSE m.given.query

\* The header, or else the link, or else the cookie.
Candidate(m) ==
  IF m.given.header # 0 THEN m.given.header
  ELSE IF m.given.query # 0 THEN m.given.query ELSE m.jar.token

\* AccessGateMiddleware lets it pass, and keeps the token of a link in a cookie.
Admitted(m) == IsPublic(m) \/ TokenMatches(m.to, Candidate(m))

TokenCookie(m) ==
  IF token[m.to] # 0 /\ ~IsPublic(m) /\ m.given.query # 0 THEN Candidate(m) ELSE None

\* OwnerMiddleware believes the cookie or mints an id, for a static file too.
Known(r) == Unsign(msg[r].to, msg[r].jar.owner)

OwnerId(r) == IF Known(r) = None THEN r ELSE Known(r)

OwnerCookie(r) == IF Known(r) = None THEN Sign(msg[r].to, r) ELSE None

-----------------------------------------------------------------------------
(***************************************************************************)
(* The requests.  What the layers read of the replica lasts as long as the *)
(* process, and a route reads or writes the contracts once: a request is   *)
(* served in one step, at that point.                                      *)
(***************************************************************************)

\* Requests of a browser under way that did not bring an owner cookie.
Strangers(b) ==
  {r \in Requests : pc[r] \in {"sent", "reply"}
                     /\ msg[r].from = b /\ msg[r].jar.owner = None}

\* A browser asks for something: a static file, a page, an upload, or the
\* contract of anybody, whose id it may have come by; with a token, if there is one.
Send(r) ==
  /\ pc[r] = "new"
  /\ \E b \in Browsers, p \in Replicas, given \in Credentials \cup {Nothing},
        ask \in {"static", "page", "upload"} \cup {c \in Requests : contracts[c] # None} :
       /\ given = Nothing \/ token[p] # 0
       /\ msg' = [msg EXCEPT ![r] = [from |-> b, to |-> p, ask |-> ask,
                                     given |-> given, jar |-> jar[b]]]
       /\ excused' = IF jar[b].owner = None /\ Strangers(b) # {}
                     THEN excused \cup {b} ELSE excused
  /\ pc' = [pc EXCEPT ![r] = "sent"]
  /\ UNCHANGED <<servers, contracts, jar, cookies, answer>>

Respond(r, code) ==
  /\ pc' = [pc EXCEPT ![r] = "reply"]
  /\ answer' = [answer EXCEPT ![r] = code]

\* RateLimitMiddleware; whether the limit is reached is the matter of RateLimit.
TooMany(r) ==
  /\ pc[r] = "sent" /\ ~IsPublic(msg[r])
  /\ Respond(r, 429)
  /\ UNCHANGED <<servers, contracts, jar, msg, cookies, excused>>

\* Faulty variant: the owner id is minted outside of the gate.
RefuseOwner(r) ==
  /\ pc[r] = "sent" /\ ~Admitted(msg[r])
  /\ Respond(r, 401)
  /\ cookies' = [cookies EXCEPT ![r].owner = OwnerCookie(r)]
  /\ UNCHANGED <<servers, contracts, jar, msg, excused>>

\* The layers within the gate are not reached.  A token that is not ASCII cannot
\* be compared: the gate raises.
Refuse(r) ==
  /\ pc[r] = "sent" /\ ~Admitted(msg[r])
  /\ \E code \in {401} \cup {c \in {500} : Candidate(msg[r]) \notin {0, None}} :
       Respond(r, code)
  /\ UNCHANGED <<servers, contracts, jar, msg, cookies, excused>>

Answer(r, code) ==
  /\ Respond(r, code)
  /\ cookies' = [cookies EXCEPT ![r] = [owner |-> OwnerCookie(r), token |-> TokenCookie(msg[r])]]

\* A static file or the page for the upload.
Page(r) ==
  /\ msg[r].ask \in {"static", "page"}
  /\ Answer(r, 200)
  /\ UNCHANGED contracts

Store(r) == contracts' = [contracts EXCEPT ![r] = OwnerId(r)]

\* The contract is stored for this owner; the route may refuse before that, by
\* its own hourly limit too, or fail behind it.  Its refusals pass through the
\* layers like any answer, and carry their cookies.
Upload(r) ==
  /\ msg[r].ask = "upload"
  /\ \/ Store(r) /\ \E code \in {200, 503} : Answer(r, code)
     \/ UNCHANGED contracts /\ \E code \in {400, 429} : Answer(r, code)

\* Faulty variant: the id is enough.
AnyContract(c, id) == contracts[c] # None

\* load_owned_contract
Owned(c, id) == contracts[c] = id

\* Any read of a contract; a lookup that fails finds nothing.
ReadContract(r) ==
  /\ msg[r].ask \in Requests
  /\ \/ Owned(msg[r].ask, OwnerId(r)) /\ Answer(r, 200)
     \/ Answer(r, 404)
  /\ UNCHANGED contracts

\* An exception passes through the layers, and with it the cookies are gone.
Raise(r) ==
  /\ \/ UNCHANGED contracts
     \/ msg[r].ask = "upload" /\ Store(r)
  /\ Respond(r, 500)
  /\ UNCHANGED cookies

Serve(r) ==
  /\ pc[r] = "sent" /\ Admitted(msg[r])
  /\ Page(r) \/ Upload(r) \/ ReadContract(r) \/ Raise(r)
  /\ UNCHANGED <<servers, jar, msg, excused>>

-----------------------------------------------------------------------------
\* A request that is over is forgotten but for who asked for what.
Over(r) ==
  /\ pc' = [pc EXCEPT ![r] = "end"]
  /\ msg' = [msg EXCEPT ![r].jar = NoCookies, ![r].given = Nothing]
  /\ cookies' = [cookies EXCEPT ![r] = NoCookies]

\* What a browser keeps: a cookie that is set replaces the one before.
Kept(old, set) == IF set # None THEN set ELSE old

\* The answer arrives, whichever of the answers under way it is.  A failure that
\* has arrived is forgotten like an answer that is lost.
Deliver(r) ==
  /\ pc[r] = "reply"
  /\ jar' = [jar EXCEPT ![msg[r].from] =
               [owner |-> Kept(@.owner, cookies[r].owner),
                token |-> Kept(@.token, cookies[r].token)]]
  /\ answer' = [answer EXCEPT ![r] = IF @ \in {200, 401, 429} THEN @ ELSE 0]
  /\ Over(r)
  /\ UNCHANGED <<servers, contracts, excused>>

\* The request or its answer is lost, perhaps with its process.
Lose(r) ==
  /\ pc[r] \in {"sent", "reply"}
  /\ answer' = [answer EXCEPT ![r] = 0]
  /\ Over(r)
  /\ UNCHANGED <<servers, contracts, jar, excused>>

\* A replica starts anew, perhaps with a further token.
Restart(p) ==
  /\ boots[p] < MaxBoots
  /\ boots' = [boots EXCEPT ![p] = @ + 1]
  /\ \/ UNCHANGED token
     \/ token[p] \in 1 .. MaxToken - 1 /\ token' = [token EXCEPT ![p] = @ + 1]
  /\ UNCHANGED <<secretKey, contracts, jar, msg, serving, excused>>

\* The user clears the cookies, or they expire.
Forget(b) ==
  /\ jar[b] # NoCookies
  /\ jar' = [jar EXCEPT ![b] = NoCookies]
  /\ excused' = excused \cup {b}
  /\ UNCHANGED <<servers, contracts, msg, serving>>

Next ==
  \/ \E r \in Requests :
       \/ Send(r) \/ TooMany(r) \/ Refuse(r) \/ Serve(r)
       \/ Deliver(r) \/ Lose(r)
  \/ \E p \in Replicas : Restart(p)
  \/ \E b \in Browsers : Forget(b)

Spec == Init /\ [][Next]_vars

-----------------------------------------------------------------------------
(***************************************************************************)
(* Properties.                                                             *)
(***************************************************************************)

\* A contract is read by nobody but the browser that uploaded it, whatever
\* identities it has had.
ReadsStayApart ==
  \A r \in Requests :
    answer[r] = 200 /\ msg[r].ask \in Requests =>
      msg[r].from = msg[msg[r].ask].from

\* With a SECRET_KEY a browser that was told of its contract can always reach
\* it, over every replica and restart: the cookie it holds names the owner of
\* the contract, and every replica believes it.  Excused are who cleared the
\* cookies and who sent two first requests side by side.
Reachable ==
  secretKey =>
    \A r \in Requests, p \in Replicas :
      pc[r] = "end" /\ answer[r] = 200 /\ msg[r].ask = "upload" /\ msg[r].from \notin excused =>
        Unsign(p, jar[msg[r].from].owner) = contracts[r]

\* Turned away by the gate or by the limit on requests; a 429 of an upload may
\* come from the route, which stands behind the layer that gives out owner ids.
TurnedAway(r) == answer[r] = 401 \/ (answer[r] = 429 /\ msg[r].ask # "upload")

Names(cookie, id) == cookie # None /\ cookie.id = id

\* The owner id has been given out: it is on its way, in a jar or in a contract.
Circulates(id) ==
  \/ \E b \in Browsers : Names(jar[b].owner, id)
  \/ \E r \in Requests :
       \/ Names(cookies[r].owner, id)
       \/ pc[r] # "new" /\ Names(msg[r].jar.owner, id)
       \/ contracts[r] = id

\* Owner ids are issued to admitted requests only (middleware.py:13-16): who is
\* turned away gets no cookie, and its id is never met again, in whatever order
\* the layers, the answers and the restarts come.  No refusal stores a contract,
\* the hourly limit's among them.
RefusedLeavesNothing ==
  \A r \in Requests :
    /\ TurnedAway(r) => cookies[r] = NoCookies /\ ~Circulates(r)
    /\ answer[r] \in {400, 401, 429} => contracts[r] = None

\* A link with the token of the replica works, whatever older token the browser
\* still has in its cookie.
LinkWorks ==
  [][\A r \in Requests :
       answer[r] # 401 /\ answer'[r] = 401 /\ msg[r].given.header = 0 =>
         msg[r].given.query # token[msg[r].to]]_vars
=============================================================================
