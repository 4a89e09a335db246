---------------------------- MODULE OwnerProofs ----------------------------
(***************************************************************************)
(* Who reads what, and who keeps an identity, for any number of browsers,  *)
(* replicas, requests, restarts and tokens.                                *)
(*                                                                         *)
(* Owner ids and contracts are named after the requests that minted or     *)
(* stored them.  The invariant follows every id to one browser: wherever   *)
(* it turns up, in a jar, in a request under way, in an answer or in a     *)
(* contract, its browser is the one that sent the request it is named      *)
(* after.                                                                  *)
(***************************************************************************)
EXTENDS OwnerIdentity, TLAPS

-----------------------------------------------------------------------------
(***************************************************************************)
(* Types.                                                                  *)
(***************************************************************************)
LEMMA NoCookiesType == NoCookies \in Jar
  BY DEF NoCookies, Jar

LEMMA SignType ==
  ASSUME TypeOK, NEW p \in Replicas, NEW id \in Requests
  PROVE  Sign(p, id) \in Cookie /\ Sign(p, id) # None
<1>1. SigningKey(p) \in Nat \X Nat
  BY OwnerAssumption DEF SigningKey, TypeOK
<1>2. QED
  BY <1>1, OwnerAssumption DEF Sign, Cookie

\* Whom a replica takes a request to be from.
LEMMA OwnerIdType ==
  ASSUME TypeOK, NEW r \in Requests, pc[r] # "new"
  PROVE  /\ OwnerId(r) \in Requests
         /\ OwnerCookie(r) \in Cookie \cup {None}
<1>1. msg[r] \in Message /\ msg[r].to \in Replicas /\ msg[r].jar.owner \in Cookie \cup {None}
  BY DEF TypeOK, Message, Jar
<1>2. Known(r) \in Requests \cup {None}
  BY <1>1 DEF Known, Unsign, Cookie
<1>3. QED
  BY <1>1, <1>2, SignType DEF OwnerId, OwnerCookie

LEMMA TokenCookieType ==
  ASSUME TypeOK, NEW r \in Requests, pc[r] # "new"
  PROVE  TokenCookie(msg[r]) \in Nat \cup {None}
  BY DEF TypeOK, Message, TokenCookie, Candidate

\* A request has been given an answer that is none of the gate's; the limit
\* speaks within it for uploads only.
Answered(r) ==
  /\ pc' = [pc EXCEPT ![r] = "reply"]
  /\ answer' \in [Requests -> Nat] /\ answer'[r] # 401
  /\ answer'[r] = 429 => msg[r].ask = "upload"
  /\ answer'[r] \in {400, 429} => UNCHANGED contracts
  /\ \A x \in Requests \ {r} : answer'[x] = answer[x]
  /\ \/ UNCHANGED cookies /\ answer'[r] = 500
     \/ cookies' = [cookies EXCEPT ![r] =
                      [owner |-> OwnerCookie(r), token |-> TokenCookie(msg[r])]]

LEMMA AnswerIsAnswered ==
  ASSUME TypeOK, NEW r \in Requests, NEW code \in {200, 400, 404, 429, 503}, Answer(r, code),
         code = 429 => msg[r].ask = "upload", code \in {400, 429} => UNCHANGED contracts
  PROVE  Answered(r) /\ answer'[r] = code
<1>1. code \in Nat /\ code # 401
  OBVIOUS
<1>2. pc' = [pc EXCEPT ![r] = "reply"] /\ answer' = [answer EXCEPT ![r] = code]
  BY DEF Answer, Respond
<1>3. answer'[r] = code
  BY <1>2 DEF TypeOK
<1>4. /\ answer' \in [Requests -> Nat] /\ answer'[r] # 401
      /\ \A x \in Requests \ {r} : answer'[x] = answer[x]
  BY <1>1, <1>2, <1>3 DEF TypeOK
<1>5. cookies' = [cookies EXCEPT ![r] =
                    [owner |-> OwnerCookie(r), token |-> TokenCookie(msg[r])]]
  BY DEF Answer
<1>6. QED
  BY <1>2, <1>3, <1>4, <1>5 DEF Answered

\* What the routes change.
LEMMA ServeAnswers ==
  ASSUME TypeOK, NEW r \in Requests, Serve(r)
  PROVE  /\ pc[r] = "sent" /\ UNCHANGED <<servers, jar, msg, excused>>
         /\ Answered(r)
         /\ UNCHANGED contracts \/ Store(r)
<1>1. CASE Page(r)
  BY <1>1, AnswerIsAnswered DEF Page, Serve
<1>2. CASE Upload(r)
  BY <1>2, AnswerIsAnswered DEF Upload, Serve
<1>3. CASE ReadContract(r)
  BY <1>3, AnswerIsAnswered DEF ReadContract, Serve
<1>4. CASE Raise(r)
  <2>1. /\ answer' \in [Requests -> Nat] /\ answer'[r] = 500
        /\ \A x \in Requests \ {r} : answer'[x] = answer[x]
    BY <1>4 DEF Raise, Respond, TypeOK
  <2>2. pc' = [pc EXCEPT ![r] = "reply"] /\ UNCHANGED cookies
    BY <1>4 DEF Raise, Respond
  <2>3. Answered(r)
    BY <2>1, <2>2 DEF Answered
  <2>4. QED
    BY <1>4, <2>3 DEF Raise, Serve
<1>5. QED
  BY <1>1, <1>2, <1>3, <1>4 DEF Serve

\* What 200 means.
LEMMA ServeSucceeds ==
  ASSUME TypeOK, NEW r \in Requests, Serve(r), answer'[r] = 200
  PROVE  /\ msg[r].ask = "upload" => Store(r)
         /\ msg[r].ask \in Requests => Owned(msg[r].ask, OwnerId(r))
         /\ cookies' = [cookies EXCEPT ![r] =
                          [owner |-> OwnerCookie(r), token |-> TokenCookie(msg[r])]]
<1>1. cookies' = [cookies EXCEPT ![r] =
                    [owner |-> OwnerCookie(r), token |-> TokenCookie(msg[r])]]
  BY ServeAnswers DEF Answered
<1>2. ~Raise(r)
  BY DEF Raise, Respond, TypeOK
<1>3. {"static", "page", "upload"} \cap Requests = {}
  BY OwnerAssumption
<1>4. CASE Page(r)
  BY <1>1, <1>3, <1>4 DEF Page
<1>5. CASE Upload(r)
  <2>1. \A code \in {400, 429} : ~Answer(r, code)
    BY DEF Answer, Respond, TypeOK
  <2>2. QED
    BY <1>1, <1>3, <1>5, <2>1 DEF Upload
<1>6. CASE ReadContract(r)
  <2>1. \A code \in {404} : ~Answer(r, code)
    BY DEF Answer, Respond, TypeOK
  <2>2. QED
    BY <1>1, <1>3, <1>6, <2>1 DEF ReadContract
<1>7. QED
  BY <1>2, <1>4, <1>5, <1>6 DEF Serve

LEMMA InitTypeOK == Init => TypeOK
  BY NoCookiesType DEF Init, TypeOK

LEMMA StepTypeOK ==
  ASSUME TypeOK, [Next]_vars
  PROVE  TypeOK'
<1>1. ASSUME NEW r \in Requests, Send(r) PROVE TypeOK'
  <2>1. PICK b \in Browsers, p \in Replicas, given \in Credentials \cup {Nothing},
             ask \in {"static", "page", "upload"} \cup {c \in Requests : contracts[c] # None} :
          /\ msg' = [msg EXCEPT ![r] = [from |-> b, to |-> p, ask |-> ask,
                                        given |-> given, jar |-> jar[b]]]
          /\ excused' \subseteq excused \cup {b}
    BY <1>1 DEF Send
  <2>2. given \in [header : Nat, query : Nat]
    BY OwnerAssumption DEF Nothing
  <2>3. msg'[r] \in Message
    <3>1. ask \in {"static", "page", "upload"} \cup Requests /\ jar[b] \in Jar
      BY <2>1 DEF TypeOK
    <3>2. msg'[r] = [from |-> b, to |-> p, ask |-> ask, given |-> given, jar |-> jar[b]]
      BY <2>1 DEF TypeOK
    <3>3. QED
      BY <2>2, <3>1, <3>2 DEF Message
  <2>4. \A x \in Requests \ {r} : msg'[x] = msg[x] /\ pc'[x] = pc[x]
    BY <1>1, <2>1 DEF Send, TypeOK
  <2>5. QED
    BY <1>1, <2>1, <2>3, <2>4 DEF Send, TypeOK, servers
<1>2. ASSUME NEW r \in Requests, TooMany(r) \/ Refuse(r) PROVE TypeOK'
  BY <1>2 DEF TooMany, Refuse, Respond, TypeOK, servers
<1>3. ASSUME NEW r \in Requests, Serve(r) PROVE TypeOK'
  <2>1. pc[r] = "sent"
    BY <1>3 DEF Serve
  <2>2. cookies' \in [Requests -> Jar]
    BY <1>3, <2>1, ServeAnswers, OwnerIdType, TokenCookieType DEF TypeOK, Jar, Answered
  <2>3. contracts' \in [Requests -> Requests \cup {None}]
    BY <1>3, <2>1, ServeAnswers, OwnerIdType DEF TypeOK, Store
  <2>4. QED
    BY <1>3, <2>2, <2>3, ServeAnswers DEF TypeOK, servers, Answered
<1>4. ASSUME NEW r \in Requests, Over(r), pc[r] # "new" PROVE
        /\ DOMAIN msg' = Requests /\ pc' \in [Requests -> {"new", "sent", "reply", "end"}]
        /\ \A x \in Requests : pc'[x] # "new" => msg'[x] \in Message
        /\ cookies' \in [Requests -> Jar]
  <2>1. msg'[r] \in Message
    <3>1. msg[r] \in Message /\ Nothing \in [header : Nat, query : Nat]
      BY <1>4 DEF TypeOK, Nothing
    <3>2. msg'[r] = [msg[r] EXCEPT !.jar = NoCookies, !.given = Nothing]
      BY <1>4 DEF Over, TypeOK
    <3>3. QED
      BY <3>1, <3>2, NoCookiesType DEF Message
  <2>2. \A x \in Requests \ {r} : msg'[x] = msg[x] /\ pc'[x] = pc[x]
    BY <1>4 DEF Over, TypeOK
  <2>3. QED
    BY <1>4, <2>1, <2>2, NoCookiesType DEF Over, TypeOK
<1>5. ASSUME NEW r \in Requests, Deliver(r) PROVE TypeOK'
  <2>1. jar' \in [Browsers -> Jar]
    BY <1>5 DEF Deliver, Kept, TypeOK, Jar, Message
  <2>2. QED
    BY <1>4, <1>5, <2>1 DEF Deliver, TypeOK, servers
<1>6. ASSUME NEW r \in Requests, Lose(r) PROVE TypeOK'
  BY <1>4, <1>6 DEF Lose, TypeOK, servers
<1>7. ASSUME NEW p \in Replicas, Restart(p) PROVE TypeOK'
  BY <1>7 DEF Restart, TypeOK, servers, serving
<1>8. ASSUME NEW b \in Browsers, Forget(b) PROVE TypeOK'
  BY <1>8, NoCookiesType DEF Forget, TypeOK, servers, serving
<1>9. CASE UNCHANGED vars
  BY <1>9 DEF vars, servers, serving, TypeOK
<1>10. QED
  BY <1>1, <1>2, <1>3, <1>5, <1>6, <1>7, <1>8, <1>9 DEF Next

\* Every reachable state is well typed; in particular whatever is signed was
\* minted by a request.
THEOREM TypeCorrect == Spec => []TypeOK
<1>1. Init => TypeOK
  BY InitTypeOK
<1>2. TypeOK /\ [Next]_vars => TypeOK'
  BY StepTypeOK
<1>3. QED
  BY <1>1, <1>2, PTL DEF Spec

-----------------------------------------------------------------------------
(***************************************************************************)
(* Every id belongs to one browser.                                        *)
(***************************************************************************)
Asked(r, b) == r \in Requests /\ pc[r] # "new" /\ msg[r].from = b

Belongs(cookie, b) == cookie # None => Asked(cookie.id, b)

JarsOwn == \A b \in Browsers : Belongs(jar[b].owner, b)

RequestsOwn ==
  \A r \in Requests : pc[r] # "new" =>
    /\ Belongs(msg[r].jar.owner, msg[r].from)
    /\ Belongs(cookies[r].owner, msg[r].from)

ContractsOwn ==
  \A r \in Requests : contracts[r] # None =>
    /\ pc[r] \in {"reply", "end"}
    /\ Asked(contracts[r], msg[r].from)

\* The owner id of a request that was not let in is nowhere.
Uncirculated ==
  \A r \in Requests : pc[r] \in {"new", "sent"} \/ TurnedAway(r) => ~Circulates(r)

\* What is asked for is there, and before it is served a request has done nothing.
AsksExist ==
  \A r \in Requests : pc[r] # "new" /\ msg[r].ask \in Requests => contracts[msg[r].ask] # None

Untouched ==
  \A r \in Requests : pc[r] \in {"new", "sent"} =>
    answer[r] = 0 /\ contracts[r] = None /\ cookies[r] = NoCookies

IInv ==
  /\ TypeOK
  /\ JarsOwn /\ RequestsOwn /\ ContractsOwn /\ AsksExist /\ Untouched /\ Uncirculated
  /\ ReadsStayApart /\ RefusedLeavesNothing

\* What ends a request leaves it without cookies.
LEMMA OverForgets ==
  ASSUME TypeOK, NEW r \in Requests, pc[r] # "new", Over(r)
  PROVE  /\ pc'[r] = "end" /\ cookies'[r].owner = None /\ msg'[r].jar.owner = None
         /\ msg'[r].from = msg[r].from
         /\ \A x \in Requests \ {r} : pc'[x] = pc[x] /\ cookies'[x] = cookies[x] /\ msg'[x] = msg[x]
<1>1. msg[r] \in Message /\ msg'[r] = [msg[r] EXCEPT !.jar = NoCookies, !.given = Nothing]
  BY DEF Over, TypeOK
<1>2. msg'[r].jar.owner = None /\ msg'[r].from = msg[r].from
  BY <1>1 DEF Message, NoCookies
<1>3. pc'[r] = "end" /\ cookies'[r].owner = None
  BY DEF Over, NoCookies, TypeOK
<1>4. \A x \in Requests \ {r} : pc'[x] = pc[x] /\ cookies'[x] = cookies[x] /\ msg'[x] = msg[x]
  BY DEF Over, TypeOK
<1>5. QED
  BY <1>2, <1>3, <1>4

\* A request is from the same browser, and asks for the same, for ever.
LEMMA StepAsked ==
  ASSUME TypeOK, [Next]_vars, NEW x \in Requests, pc[x] # "new"
  PROVE  /\ pc'[x] # "new"
         /\ msg'[x].from = msg[x].from /\ msg'[x].ask = msg[x].ask /\ msg'[x].to = msg[x].to
<1>1. ASSUME NEW r \in Requests, Send(r) PROVE pc'[x] = pc[x] /\ msg'[x] = msg[x]
  BY <1>1 DEF Send, TypeOK
<1>2. ASSUME NEW r \in Requests, TooMany(r) \/ Refuse(r)
      PROVE  pc'[x] # "new" /\ msg'[x] = msg[x]
  BY <1>2 DEF TooMany, Refuse, Respond, TypeOK
<1>3. ASSUME NEW r \in Requests, Serve(r) PROVE pc'[x] # "new" /\ msg'[x] = msg[x]
  BY <1>3, ServeAnswers DEF Answered, TypeOK
<1>4. ASSUME NEW r \in Requests, Over(r)
      PROVE  /\ pc'[x] # "new"
             /\ msg'[x].from = msg[x].from /\ msg'[x].ask = msg[x].ask /\ msg'[x].to = msg[x].to
  <2>1. pc'[x] # "new"
    BY <1>4 DEF Over, TypeOK
  <2>2. CASE x # r
    BY <1>4, <2>1, <2>2 DEF Over, TypeOK
  <2>3. CASE x = r
    <3>1. msg[x] \in Message
      BY DEF TypeOK
    <3>2. msg'[x] = [msg[x] EXCEPT !.jar = NoCookies, !.given = Nothing]
      BY <1>4, <2>3 DEF Over, TypeOK
    <3>3. QED
      BY <2>1, <3>1, <3>2 DEF Message
  <2>4. QED
    BY <2>2, <2>3
<1>5. CASE \/ \E p \in Replicas : Restart(p)
           \/ \E b \in Browsers : Forget(b)
           \/ UNCHANGED vars
  BY <1>5 DEF Restart, Forget, vars, serving
<1>6. QED
  BY <1>1, <1>2, <1>3, <1>4, <1>5 DEF Next, Deliver, Lose

\* What was served stays served.
LEMMA StepServed ==
  ASSUME TypeOK, [Next]_vars, NEW x \in Requests, pc[x] \in {"reply", "end"}
  PROVE  pc'[x] \in {"reply", "end"}
<1> USE DEF TypeOK
<1>1. ASSUME NEW r \in Requests, Send(r) \/ TooMany(r) \/ Refuse(r)
      PROVE  pc'[x] = pc[x]
  BY <1>1 DEF Send, TooMany, Refuse, Respond
<1>2. ASSUME NEW r \in Requests, Serve(r) PROVE pc'[x] \in {"reply", "end"}
  BY <1>2, ServeAnswers DEF Answered
<1>3. ASSUME NEW r \in Requests, Deliver(r) \/ Lose(r) PROVE pc'[x] \in {"reply", "end"}
  BY <1>3 DEF Deliver, Lose, Over
<1>4. CASE UNCHANGED pc
  BY <1>4
<1>5. QED
  BY <1>1, <1>2, <1>3, <1>4 DEF Next, Restart, Forget, vars, serving

LEMMA OnlySendBegins ==
  ASSUME TypeOK, [Next]_vars, NEW x \in Requests, pc[x] = "new", pc'[x] # "new"
  PROVE  Send(x)
<1> USE DEF TypeOK
<1>1. ASSUME NEW r \in Requests, Send(r) PROVE x = r
  BY <1>1 DEF Send
<1>2. ASSUME NEW r \in Requests, TooMany(r) \/ Refuse(r) \/ Serve(r) PROVE FALSE
  BY <1>2, ServeAnswers DEF TooMany, Refuse, Respond, Answered
<1>3. ASSUME NEW r \in Requests, Deliver(r) \/ Lose(r) PROVE FALSE
  BY <1>3 DEF Deliver, Lose, Over
<1>4. QED
  BY <1>1, <1>2, <1>3 DEF Next, Restart, Forget, vars, serving

LEMMA OnlyServeSucceeds ==
  ASSUME TypeOK, [Next]_vars, NEW x \in Requests, answer'[x] # answer[x], answer'[x] = 200
  PROVE  Serve(x)
<1> USE DEF TypeOK
<1>1. ASSUME NEW r \in Requests, TooMany(r) \/ Refuse(r) \/ Lose(r) PROVE FALSE
  BY <1>1 DEF TooMany, Refuse, Respond, Lose
<1>2. ASSUME NEW r \in Requests, Serve(r) PROVE x = r
  BY <1>2, ServeAnswers DEF Answered
<1>3. ASSUME NEW r \in Requests, Send(r) \/ Deliver(r) PROVE FALSE
  BY <1>3 DEF Send, Deliver
<1>4. CASE UNCHANGED serving
  BY <1>4 DEF serving
<1>5. QED
  BY <1>1, <1>2, <1>3, <1>4 DEF Next, Restart, Forget, vars

LEMMA StepBelongs ==
  ASSUME TypeOK, [Next]_vars, NEW cookie, NEW b, Belongs(cookie, b)
  PROVE  Belongs(cookie, b)'
  BY StepAsked DEF Belongs, Asked

\* The owner a replica sees, and the one it mints, are the browser's.
LEMMA OwnerBelongs ==
  ASSUME TypeOK, RequestsOwn, NEW r \in Requests, pc[r] # "new"
  PROVE  /\ Asked(OwnerId(r), msg[r].from)
         /\ Belongs(OwnerCookie(r), msg[r].from)
<1>1. Known(r) # None => Asked(Known(r), msg[r].from)
  BY DEF Known, Unsign, RequestsOwn, Belongs
<1>2. Asked(r, msg[r].from)
  BY DEF Asked
<1>3. QED
  BY <1>1, <1>2 DEF OwnerId, OwnerCookie, Sign, Belongs

LEMMA StepJarsOwn ==
  ASSUME IInv, [Next]_vars
  PROVE  JarsOwn'
<1> USE DEF IInv
<1>1. \A b \in Browsers : jar'[b].owner = jar[b].owner => Belongs(jar[b].owner, b)'
  BY StepBelongs DEF JarsOwn, Belongs, Asked
<1>2. ASSUME NEW r \in Requests, Deliver(r) PROVE JarsOwn'
  <2>1. msg[r].from \in Browsers /\ pc[r] # "new"
    BY <1>2 DEF Deliver, TypeOK, Message
  <2>2. \A b \in Browsers : jar'[b].owner = jar[b].owner
           \/ (b = msg[r].from /\ jar'[b].owner = cookies[r].owner)
    BY <1>2, <2>1 DEF Deliver, Kept, TypeOK
  <2>3. Belongs(cookies[r].owner, msg[r].from)
    BY <2>1 DEF RequestsOwn
  <2>4. \A b \in Browsers, x \in Requests : Asked(x, b) => Asked(x, b)'
    BY StepAsked DEF Asked
  <2>5. QED
    BY <2>1, <2>2, <2>3, <2>4 DEF JarsOwn, Belongs, Asked
<1>3. ASSUME NEW b \in Browsers, Forget(b) PROVE JarsOwn'
  BY <1>1, <1>3 DEF Forget, JarsOwn, Belongs, NoCookies, TypeOK
<1>4. CASE UNCHANGED jar
  BY <1>1, <1>4 DEF JarsOwn
<1>5. QED
  BY <1>2, <1>3, <1>4, ServeAnswers
  DEF Next, Send, TooMany, Refuse, Lose, Restart, vars

\* A request that is not touched by a step keeps what it had.
LEMMA SameRequest ==
  ASSUME IInv, [Next]_vars, NEW x \in Requests, pc[x] # "new",
         \/ msg'[x].jar.owner = msg[x].jar.owner
         \/ msg'[x].jar.owner = None,
         \/ cookies'[x].owner = cookies[x].owner
         \/ cookies'[x].owner = None
  PROVE  /\ Belongs(msg[x].jar.owner, msg[x].from)'
         /\ Belongs(cookies[x].owner, msg[x].from)'
<1>1. \A y \in Requests : Asked(y, msg[x].from) => pc'[y] # "new" /\ msg'[y].from = msg[x].from
  BY StepAsked DEF IInv, Asked
<1>2. msg'[x].from = msg[x].from
  BY StepAsked DEF IInv
<1>3. QED
  BY <1>1, <1>2 DEF IInv, RequestsOwn, Belongs, Asked

LEMMA StepRequestsOwn ==
  ASSUME IInv, [Next]_vars
  PROVE  RequestsOwn'
<1> USE DEF IInv
<1>1. ASSUME NEW r \in Requests,
             \A x \in Requests \ {r} : msg'[x] = msg[x] /\ cookies'[x] = cookies[x] /\ pc'[x] = pc[x],
             pc'[r] # "new" => /\ Belongs(msg[r].jar.owner, msg[r].from)'
                               /\ Belongs(cookies[r].owner, msg[r].from)'
      PROVE  RequestsOwn'
  <2>1. ASSUME NEW x \in Requests \ {r}, pc'[x] # "new"
        PROVE  /\ Belongs(msg[x].jar.owner, msg[x].from)'
               /\ Belongs(cookies[x].owner, msg[x].from)'
    BY <1>1, <2>1, SameRequest
  <2>2. QED
    BY <1>1, <2>1 DEF RequestsOwn
<1>2. ASSUME NEW r \in Requests, Send(r) PROVE RequestsOwn'
  <2>1. \A x \in Requests \ {r} : msg'[x] = msg[x] /\ cookies'[x] = cookies[x] /\ pc'[x] = pc[x]
    BY <1>2 DEF Send, TypeOK
  <2>2. PICK b \in Browsers : msg'[r].from = b /\ msg'[r].jar = jar[b]
    BY <1>2 DEF Send, TypeOK
  <2>3. Belongs(jar[b].owner, b)'
    <3>1. UNCHANGED jar
      BY <1>2 DEF Send
    <3>2. QED
      BY <3>1, StepJarsOwn DEF JarsOwn
  <2>4. cookies'[r].owner = None
    BY <1>2 DEF Send, Untouched, NoCookies
  <2>5. UNCHANGED jar
    BY <1>2 DEF Send
  <2>6. QED
    BY <1>1, <2>1, <2>2, <2>3, <2>4, <2>5 DEF Belongs
<1>3. ASSUME NEW r \in Requests, TooMany(r) \/ Refuse(r) PROVE RequestsOwn'
  <2>1. UNCHANGED <<msg, cookies>> /\ pc[r] # "new"
        /\ \A x \in Requests \ {r} : pc'[x] = pc[x]
    BY <1>3 DEF TooMany, Refuse, Respond, TypeOK
  <2>2. QED
    BY <1>1, <2>1, SameRequest
<1>4. ASSUME NEW r \in Requests, Serve(r) PROVE RequestsOwn'
  <2>1. /\ UNCHANGED msg /\ pc[r] # "new" /\ pc'[r] # "new"
        /\ \A x \in Requests \ {r} : cookies'[x] = cookies[x] /\ pc'[x] = pc[x]
        /\ cookies'[r].owner \in {cookies[r].owner, OwnerCookie(r)}
    BY <1>4, ServeAnswers DEF Answered, TypeOK
  <2>2. Belongs(OwnerCookie(r), msg[r].from)
    BY <2>1, OwnerBelongs
  <2>3. \A y \in Requests : Asked(y, msg[r].from) => pc'[y] # "new" /\ msg'[y].from = msg[r].from
    BY StepAsked DEF Asked
  <2>4. /\ Belongs(msg[r].jar.owner, msg[r].from)'
        /\ Belongs(cookies[r].owner, msg[r].from)'
    BY <2>1, <2>2, <2>3 DEF Belongs, Asked, RequestsOwn
  <2>5. QED
    BY <1>1, <2>1, <2>4
<1>5. ASSUME NEW r \in Requests, Over(r), pc[r] # "new" PROVE RequestsOwn'
  <2>1. /\ \A x \in Requests \ {r} : msg'[x] = msg[x] /\ cookies'[x] = cookies[x] /\ pc'[x] = pc[x]
        /\ cookies'[r].owner = None
    BY <1>5 DEF Over, TypeOK, NoCookies
  <2>2. msg'[r].jar.owner = None
    <3>1. msg[r] \in Message /\ msg'[r] = [msg[r] EXCEPT !.jar = NoCookies, !.given = Nothing]
      BY <1>5 DEF Over, TypeOK
    <3>2. QED
      BY <3>1 DEF Message, NoCookies
  <2>3. QED
    BY <1>1, <1>5, <2>1, <2>2, SameRequest
<1>6. CASE UNCHANGED <<pc, msg, cookies>>
  BY <1>6, SameRequest DEF RequestsOwn
<1>7. QED
  BY <1>2, <1>3, <1>4, <1>5, <1>6 DEF Next, Deliver, Lose, Restart, Forget, vars, serving

LEMMA StepContractsOwn ==
  ASSUME IInv, [Next]_vars
  PROVE  ContractsOwn'
<1> USE DEF IInv
<1>1. ASSUME NEW x \in Requests, contracts'[x] # None, contracts'[x] = contracts[x]
      PROVE  pc'[x] \in {"reply", "end"} /\ Asked(contracts[x], msg[x].from)'
  <2>1. pc[x] \in {"reply", "end"} /\ Asked(contracts[x], msg[x].from)
    BY <1>1 DEF ContractsOwn
  <2>2. Asked(contracts[x], msg[x].from)' /\ msg'[x].from = msg[x].from
    BY <1>1, <2>1, StepAsked DEF Asked
  <2>3. pc'[x] \in {"reply", "end"}
    BY <2>1, StepServed
  <2>4. QED
    BY <1>1, <2>2, <2>3 DEF Asked
<1>2. ASSUME NEW r \in Requests, Serve(r), Store(r) PROVE ContractsOwn'
  <2>1. pc[r] # "new" /\ pc'[r] = "reply" /\ UNCHANGED msg
    BY <1>2, ServeAnswers DEF Answered, TypeOK
  <2>2. \A x \in Requests \ {r} : contracts'[x] = contracts[x]
    BY <1>2 DEF Store, TypeOK
  <2>3. contracts'[r] = OwnerId(r)
    BY <1>2 DEF Store, TypeOK
  <2>4. Asked(contracts[r], msg[r].from)'
    BY <2>1, <2>3, OwnerBelongs, StepAsked DEF Asked
  <2>5. QED
    BY <1>1, <2>1, <2>2, <2>4 DEF ContractsOwn, Asked
<1>3. CASE UNCHANGED contracts
  BY <1>1, <1>3 DEF ContractsOwn, Asked
<1>4. QED
  BY <1>2, <1>3, ServeAnswers
  DEF Next, Send, TooMany, Refuse, Deliver, Lose, Restart, Forget, vars

LEMMA StepAsksExist ==
  ASSUME IInv, [Next]_vars
  PROVE  AsksExist'
<1> USE DEF IInv
<1>1. \A c \in Requests : contracts[c] # None => contracts'[c] # None
  <2>1. ASSUME NEW c \in Requests, NEW r \in Requests, Serve(r), Store(r), contracts[c] # None
        PROVE  contracts'[c] # None
    BY <2>1, OwnerIdType, OwnerAssumption DEF Store, TypeOK, Serve
  <2>2. QED
    BY <2>1, ServeAnswers DEF Next, Send, TooMany, Refuse, Deliver, Lose, Restart, Forget, vars
<1>2. ASSUME NEW x \in Requests, pc[x] # "new", pc'[x] # "new", msg'[x].ask \in Requests
      PROVE  contracts'[msg'[x].ask] # None
  BY <1>1, <1>2, StepAsked DEF AsksExist
<1>3. ASSUME NEW x \in Requests, pc[x] = "new", pc'[x] # "new", msg'[x].ask \in Requests
      PROVE  contracts'[msg'[x].ask] # None
  <2>1. Send(x)
    BY <1>3, OnlySendBegins
  <2>2. msg'[x].ask \in {"static", "page", "upload"} \cup {c \in Requests : contracts[c] # None}
    BY <2>1 DEF Send, TypeOK
  <2>3. UNCHANGED contracts
    BY <2>1 DEF Send
  <2>4. QED
    BY <1>3, <2>2, <2>3, OwnerAssumption
<1>4. QED
  BY <1>2, <1>3 DEF AsksExist

LEMMA StepUntouched ==
  ASSUME IInv, [Next]_vars
  PROVE  Untouched'
<1> USE DEF IInv, TypeOK
<1>1. ASSUME NEW r \in Requests, Send(r) PROVE Untouched'
  BY <1>1 DEF Send, Untouched
<1>2. ASSUME NEW r \in Requests, TooMany(r) \/ Refuse(r) PROVE Untouched'
  BY <1>2 DEF TooMany, Refuse, Respond, Untouched
<1>3. ASSUME NEW r \in Requests, Serve(r) PROVE Untouched'
  BY <1>3, ServeAnswers DEF Answered, Store, Untouched
<1>4. ASSUME NEW r \in Requests, Deliver(r) \/ Lose(r) PROVE Untouched'
  BY <1>4 DEF Deliver, Lose, Over, Untouched
<1>5. CASE UNCHANGED <<pc, answer, contracts, cookies>>
  BY <1>5 DEF Untouched
<1>6. QED
  BY <1>1, <1>2, <1>3, <1>4, <1>5 DEF Next, Restart, Forget, vars, serving

\* A contract is read by whom it belongs to: both are the browser behind the id
\* that the replica sees.
LEMMA StepReadsStayApart ==
  ASSUME IInv, [Next]_vars
  PROVE  ReadsStayApart'
<1> USE DEF IInv
<1>1. ASSUME NEW x \in Requests, answer'[x] = answer[x], answer[x] = 200,
             msg'[x].ask \in Requests
      PROVE  msg'[x].from = msg'[msg'[x].ask].from
  <2>1. pc[x] # "new"
    BY <1>1 DEF Untouched
  <2>2. msg'[x].ask = msg[x].ask /\ msg'[x].from = msg[x].from
    BY <2>1, StepAsked
  <2>3. pc[msg[x].ask] # "new"
    BY <1>1, <2>1, <2>2 DEF AsksExist, ContractsOwn
  <2>4. QED
    BY <1>1, <2>2, <2>3, StepAsked DEF ReadsStayApart
<1>2. ASSUME NEW x \in Requests, answer'[x] # answer[x], answer'[x] = 200, msg'[x].ask \in Requests
      PROVE  msg'[x].from = msg'[msg'[x].ask].from
  <2>1. Serve(x)
    BY <1>2, OnlyServeSucceeds
  <2>2. pc[x] # "new" /\ UNCHANGED msg
    BY <2>1, ServeAnswers
  <2>3. contracts[msg[x].ask] = OwnerId(x)
    BY <1>2, <2>1, <2>2, ServeSucceeds DEF Owned
  <2>4. contracts[msg[x].ask] # None
    BY <1>2, <2>2 DEF AsksExist
  <2>5. QED
    BY <1>2, <2>2, <2>3, <2>4, OwnerBelongs DEF ContractsOwn, Asked
<1>3. QED
  BY <1>1, <1>2 DEF ReadsStayApart

\* Who was not let in before a step, if it is not let in after it.
LEMMA OutsideBefore ==
  ASSUME IInv, [Next]_vars, NEW x \in Requests, pc'[x] \in {"new", "sent"} \/ TurnedAway(x)'
  PROVE  pc[x] \in {"new", "sent"} \/ TurnedAway(x)
<1> USE DEF IInv, TypeOK
<1>1. CASE pc[x] \in {"new", "sent"}
  BY <1>1
<1>2. CASE pc[x] \notin {"new", "sent"}
  <2>1. pc[x] \in {"reply", "end"} /\ pc[x] # "new"
    BY <1>2
  <2>2. TurnedAway(x)' /\ msg'[x].ask = msg[x].ask
    BY <2>1, StepServed, StepAsked
  <2>3. answer'[x] \in {answer[x], 0}
    <3>1. ASSUME NEW r \in Requests, TooMany(r) \/ Refuse(r) PROVE answer'[x] = answer[x]
      BY <2>1, <3>1 DEF TooMany, Refuse, Respond
    <3>2. ASSUME NEW r \in Requests, Serve(r) PROVE answer'[x] = answer[x]
      BY <2>1, <3>2, ServeAnswers DEF Answered
    <3>3. ASSUME NEW r \in Requests, Deliver(r) \/ Lose(r) PROVE answer'[x] \in {answer[x], 0}
      BY <3>3 DEF Deliver, Lose
    <3>4. CASE UNCHANGED answer
      BY <3>4
    <3>5. QED
      BY <3>1, <3>2, <3>3, <3>4 DEF Next, Send, Restart, Forget, vars, serving
  <2>4. QED
    BY <2>2, <2>3 DEF TurnedAway
<1>3. QED
  BY <1>1, <1>2

\* An id comes into circulation with the answer to the request that minted it.
LEMMA StepCirculates ==
  ASSUME IInv, [Next]_vars, NEW x \in Requests, ~Circulates(x), Circulates(x)'
  PROVE  Serve(x)
<1> USE DEF IInv, TypeOK
<1>1. \A r \in Requests : pc[r] # "new" => ~Names(msg[r].jar.owner, x)
  BY DEF Circulates
<1>2. ASSUME NEW r \in Requests, Send(r) PROVE FALSE
  <2>1. PICK b \in Browsers : msg'[r].jar = jar[b]
    BY <1>2 DEF Send
  <2>2. /\ UNCHANGED <<jar, cookies, contracts>>
        /\ \A y \in Requests \ {r} : msg'[y] = msg[y] /\ pc'[y] = pc[y]
    BY <1>2 DEF Send
  <2>3. QED
    BY <2>1, <2>2 DEF Circulates, Names
<1>3. ASSUME NEW r \in Requests, TooMany(r) \/ Refuse(r) PROVE FALSE
  <2>1. /\ UNCHANGED <<jar, cookies, contracts, msg>> /\ pc[r] # "new"
        /\ \A y \in Requests \ {r} : pc'[y] = pc[y]
    BY <1>3 DEF TooMany, Refuse, Respond
  <2>2. QED
    BY <2>1 DEF Circulates, Names
<1>4. ASSUME NEW r \in Requests, r # x, Serve(r) PROVE FALSE
  <2>1. /\ pc[r] # "new" /\ UNCHANGED <<jar, msg>>
        /\ \A y \in Requests \ {r} : pc'[y] = pc[y] /\ cookies'[y] = cookies[y]
        /\ cookies'[r].owner \in {cookies[r].owner, OwnerCookie(r)}
        /\ UNCHANGED contracts \/ Store(r)
    BY <1>4, ServeAnswers DEF Answered
  <2>2. OwnerId(r) # x /\ ~Names(OwnerCookie(r), x)
    <3>1. Known(r) # x
      BY <1>1, <2>1, OwnerAssumption DEF Known, Unsign, Names
    <3>2. QED
      BY <1>4, <3>1 DEF OwnerId, OwnerCookie, Sign, Names
  <2>3. \A y \in Requests : contracts'[y] = x => contracts[y] = x
    BY <2>1, <2>2 DEF Store
  <2>4. \A y \in Requests : ~Names(cookies'[y].owner, x)
    BY <2>1, <2>2 DEF Circulates, Names
  <2>5. QED
    BY <2>1, <2>3, <2>4 DEF Circulates, Names
<1>5. ASSUME NEW r \in Requests, Deliver(r) \/ Lose(r) PROVE FALSE
  <2>1. pc[r] # "new" /\ Over(r) /\ UNCHANGED contracts
    BY <1>5 DEF Deliver, Lose
  <2>2. /\ msg'[r].jar.owner = None /\ cookies'[r].owner = None
        /\ \A y \in Requests \ {r} : pc'[y] = pc[y] /\ cookies'[y] = cookies[y] /\ msg'[y] = msg[y]
    BY <2>1, OverForgets
  <2>3. \A b \in Browsers : jar'[b].owner \in {jar[b].owner, cookies[r].owner}
    BY <1>5 DEF Deliver, Lose, Kept, Message
  <2>4. QED
    BY <2>1, <2>2, <2>3 DEF Circulates, Names
<1>6. ASSUME NEW b \in Browsers, Forget(b) PROVE FALSE
  <2>1. /\ \A c \in Browsers : jar'[c].owner \in {jar[c].owner, None}
        /\ UNCHANGED <<msg, pc, cookies, contracts>>
    BY <1>6 DEF Forget, NoCookies, serving
  <2>2. QED
    BY <2>1 DEF Circulates, Names
<1>7. CASE UNCHANGED <<jar, msg, pc, cookies, contracts>>
  BY <1>7 DEF Circulates, Names
<1>8. QED
  BY <1>2, <1>3, <1>4, <1>5, <1>6, <1>7 DEF Next, Restart, vars, serving

LEMMA StepUncirculated ==
  ASSUME IInv, [Next]_vars
  PROVE  Uncirculated'
<1> SUFFICES ASSUME NEW x \in Requests, pc'[x] \in {"new", "sent"} \/ TurnedAway(x)'
             PROVE  ~Circulates(x)'
  BY DEF Uncirculated
<1>1. ~Circulates(x)
  BY OutsideBefore DEF IInv, Uncirculated
<1>2. ~Serve(x)
  <2> SUFFICES ASSUME Serve(x) PROVE FALSE
    OBVIOUS
  <2>1. pc'[x] = "reply" /\ UNCHANGED msg /\ answer'[x] # 401
        /\ (answer'[x] = 429 => msg[x].ask = "upload")
    BY ServeAnswers DEF Answered, IInv, TypeOK
  <2>2. QED
    BY <2>1 DEF TurnedAway
<1>3. QED
  BY <1>1, <1>2, StepCirculates

LEMMA StepRefused ==
  ASSUME IInv, [Next]_vars
  PROVE  RefusedLeavesNothing'
<1> USE DEF IInv, TypeOK
<1>1. ASSUME NEW x \in Requests, TurnedAway(x)' PROVE cookies'[x] = NoCookies
  <2> SUFFICES cookies'[x] = cookies[x] \/ cookies'[x] = NoCookies
    BY <1>1, OutsideBefore DEF Untouched, RefusedLeavesNothing
  <2>1. ASSUME NEW r \in Requests, Serve(r) PROVE cookies'[x] = cookies[x]
    <3>1. UNCHANGED msg /\ answer'[r] # 401 /\ (answer'[r] = 429 => msg[r].ask = "upload")
      BY <2>1, ServeAnswers DEF Answered
    <3>2. r # x
      BY <1>1, <3>1 DEF TurnedAway
    <3>3. QED
      BY <2>1, <3>2, ServeAnswers DEF Answered
  <2>2. ASSUME NEW r \in Requests, Deliver(r) \/ Lose(r)
        PROVE  cookies'[x] = cookies[x] \/ cookies'[x] = NoCookies
    BY <2>2 DEF Deliver, Lose, Over
  <2>3. CASE UNCHANGED cookies
    BY <2>3
  <2>4. QED
    BY <2>1, <2>2, <2>3 DEF Next, Send, TooMany, Refuse, Restart, Forget, vars, serving
<1>2. ASSUME NEW x \in Requests, answer'[x] \in {400, 401, 429} PROVE contracts'[x] = None
  <2>1. ASSUME NEW r \in Requests, Send(r) PROVE contracts'[x] = None
    BY <1>2, <2>1 DEF Send, RefusedLeavesNothing
  <2>2. ASSUME NEW r \in Requests, TooMany(r) \/ Refuse(r) PROVE contracts'[x] = None
    BY <1>2, <2>2 DEF TooMany, Refuse, Respond, Untouched, RefusedLeavesNothing
  <2>3. ASSUME NEW r \in Requests, Serve(r) PROVE contracts'[x] = None
    <3>1. CASE r = x
      BY <1>2, <2>3, <3>1, ServeAnswers DEF Answered, Untouched
    <3>2. CASE r # x
      <4>1. answer'[x] = answer[x] /\ contracts'[x] = contracts[x]
        BY <2>3, <3>2, ServeAnswers DEF Answered, Store
      <4>2. QED
        BY <1>2, <4>1 DEF RefusedLeavesNothing
    <3>3. QED
      BY <3>1, <3>2
  <2>4. ASSUME NEW r \in Requests, Deliver(r) \/ Lose(r) PROVE contracts'[x] = None
    BY <1>2, <2>4 DEF Deliver, Lose, RefusedLeavesNothing
  <2>5. CASE UNCHANGED <<answer, contracts>>
    BY <1>2, <2>5 DEF RefusedLeavesNothing
  <2>6. QED
    BY <2>1, <2>2, <2>3, <2>4, <2>5 DEF Next, Restart, Forget, vars, serving
<1>3. QED
  BY <1>1, <1>2, StepUncirculated DEF RefusedLeavesNothing, Uncirculated

LEMMA InitIInv == Init => IInv
<1> SUFFICES ASSUME Init PROVE IInv
  OBVIOUS
<1>1. TypeOK
  BY InitTypeOK
<1>2. JarsOwn
  BY DEF Init, JarsOwn, Belongs, NoCookies
<1>3. RequestsOwn /\ ContractsOwn /\ AsksExist /\ Untouched
  BY DEF Init, RequestsOwn, ContractsOwn, AsksExist, Untouched
<1>4. ReadsStayApart
  BY DEF Init, ReadsStayApart
<1>5. \A r \in Requests : ~Circulates(r)
  BY OwnerAssumption DEF Init, Circulates, Names, NoCookies
<1>6. RefusedLeavesNothing /\ Uncirculated
  BY <1>5 DEF Init, RefusedLeavesNothing, TurnedAway, Uncirculated
<1>7. QED
  BY <1>1, <1>2, <1>3, <1>4, <1>6 DEF IInv

\* Every id that turns up anywhere belongs to the browser where it turns up, and
\* every contract to the browser that uploaded it.
THEOREM Invariance == Spec => []IInv
<1>1. IInv /\ [Next]_vars => IInv'
  <2> SUFFICES ASSUME IInv, [Next]_vars PROVE IInv'
    OBVIOUS
  <2>1. TypeOK'
    BY StepTypeOK DEF IInv
  <2>2. QED
    BY <2>1, StepJarsOwn, StepRequestsOwn, StepContractsOwn, StepAsksExist, StepUntouched,
       StepUncirculated, StepReadsStayApart, StepRefused
    DEF IInv
<1>2. QED
  BY <1>1, InitIInv, PTL DEF Spec

\* A contract is read by nobody but the browser that uploaded it, whatever is
\* restarted, lost, or sent side by side.
THEOREM ReadersAreOwners == Spec => []ReadsStayApart
<1>1. IInv => ReadsStayApart
  BY DEF IInv
<1>2. QED
  BY <1>1, Invariance, PTL

\* A request turned away at the gate or by the limit on requests gets no cookie,
\* and the owner id it might have had is never met again; no refusal, the hourly
\* limit's included, leaves a contract.
THEOREM RefusalsAreClean == Spec => []RefusedLeavesNothing
<1>1. IInv => RefusedLeavesNothing
  BY DEF IInv
<1>2. QED
  BY <1>1, Invariance, PTL

-----------------------------------------------------------------------------
(***************************************************************************)
(* The gate.                                                               *)
(***************************************************************************)

\* A step that refuses a request has looked at the token of its link first.
LEMMA StepLink ==
  ASSUME TypeOK, [Next]_vars, NEW x \in Requests,
         answer[x] # 401, answer'[x] = 401, msg[x].given.header = 0
  PROVE  msg[x].given.query # token[msg[x].to]
<1> USE DEF TypeOK
<1>1. Refuse(x)
  <2>1. ASSUME NEW r \in Requests, TooMany(r) \/ Lose(r) PROVE FALSE
    BY <2>1 DEF TooMany, Respond, Lose
  <2>2. ASSUME NEW r \in Requests, Serve(r) PROVE FALSE
    BY <2>2, ServeAnswers DEF Answered
  <2>3. ASSUME NEW r \in Requests, Send(r) \/ Deliver(r) PROVE FALSE
    BY <2>3 DEF Send, Deliver
  <2>4. ASSUME NEW r \in Requests, Refuse(r) PROVE x = r
    BY <2>4 DEF Refuse, Respond
  <2>5. CASE UNCHANGED serving
    BY <2>5 DEF serving
  <2>6. QED
    BY <2>1, <2>2, <2>3, <2>4, <2>5 DEF Next, Restart, Forget, vars
<1>2. token[msg[x].to] # 0 /\ Candidate(msg[x]) # token[msg[x].to]
  BY <1>1 DEF Refuse, Admitted, TokenMatches
<1>3. QED
  BY <1>2 DEF Candidate

\* A link with the replica's token opens it, whatever token the cookie still has.
THEOREM LinksWork == Spec => LinkWorks
<1>1. TypeOK /\ [Next]_vars =>
        [\A r \in Requests :
           answer[r] # 401 /\ answer'[r] = 401 /\ msg[r].given.header = 0 =>
             msg[r].given.query # token[msg[r].to]]_vars
  BY StepLink
<1>2. QED
  BY <1>1, TypeCorrect, PTL DEF Spec, LinkWorks

-----------------------------------------------------------------------------
(***************************************************************************)
(* With a SECRET_KEY every cookie is signed with it, and a browser that    *)
(* waits for its first cookie before it asks again gets one identity.      *)
(***************************************************************************)
Keyed(cookie) == cookie # None => cookie.key = <<0, 0>>

KeysStay ==
  /\ \A b \in Browsers : Keyed(jar[b].owner)
  /\ \A r \in Requests : pc[r] # "new" => Keyed(msg[r].jar.owner) /\ Keyed(cookies[r].owner)

Busy(r, b) == pc[r] \in {"sent", "reply"} /\ msg[r].from = b

Stranger(r, b) == Busy(r, b) /\ msg[r].jar.owner = None

\* At most one request of a browser may bring its first cookie; all others know
\* the one it has, and bring none.
OneIdentity(b) ==
  /\ \A r, s \in Requests : Stranger(r, b) /\ Stranger(s, b) => r = s
  /\ \A r \in Requests : Stranger(r, b) => jar[b].owner = None
  /\ \A r \in Requests : Busy(r, b) /\ msg[r].jar.owner # None =>
       msg[r].jar.owner = jar[b].owner /\ cookies[r].owner = None

Named(cookie, c) == cookie # None /\ cookie.id = contracts[c]

\* Who is told of a contract holds the cookie of its owner, or is about to.
Told(r) ==
  /\ pc[r] = "reply" => Named(Kept(msg[r].jar.owner, cookies[r].owner), r)
  /\ pc[r] = "end" => Named(jar[msg[r].from].owner, r)

TellsTruth ==
  \A r \in Requests :
    pc[r] # "new" /\ msg[r].from \notin excused /\ msg[r].ask = "upload" /\ answer[r] = 200 =>
      Told(r)

ReachInv ==
  secretKey => KeysStay /\ (\A b \in Browsers \ excused : OneIdentity(b)) /\ TellsTruth

\* What a replica sees of a cookie and what it signs, under the one key.
LEMMA OneKey ==
  ASSUME TypeOK, secretKey, KeysStay, NEW r \in Requests, pc[r] # "new"
  PROVE  /\ msg[r].jar.owner # None =>
              OwnerId(r) = msg[r].jar.owner.id /\ OwnerCookie(r) = None
         /\ msg[r].jar.owner = None =>
              /\ OwnerId(r) = r /\ OwnerCookie(r) # None /\ OwnerCookie(r).id = r
              /\ OwnerCookie(r).key = <<0, 0>>
<1>1. msg[r].to \in Replicas /\ msg[r].jar.owner \in Cookie \cup {None}
  BY DEF TypeOK, Message, Jar
<1>2. SigningKey(msg[r].to) = <<0, 0>>
  BY DEF SigningKey
<1>3. CASE msg[r].jar.owner # None
  <2>1. Known(r) = msg[r].jar.owner.id /\ Known(r) \in Requests
    BY <1>1, <1>2, <1>3 DEF Known, Unsign, Keyed, KeysStay, Cookie
  <2>2. QED
    BY <1>3, <2>1, OwnerAssumption DEF OwnerId, OwnerCookie
<1>4. CASE msg[r].jar.owner = None
  <2>1. Known(r) = None
    BY <1>4 DEF Known, Unsign
  <2>2. OwnerId(r) = r /\ OwnerCookie(r) = Sign(msg[r].to, r)
    BY <2>1 DEF OwnerId, OwnerCookie
  <2>3. QED
    BY <1>1, <1>2, <1>4, <2>2, SignType DEF Sign
<1>5. QED
  BY <1>3, <1>4

LEMMA StepKeysStay ==
  ASSUME TypeOK, Untouched, secretKey, KeysStay, [Next]_vars
  PROVE  KeysStay'
<1> USE DEF Keyed
<1>1. ASSUME NEW r \in Requests, Send(r) PROVE KeysStay'
  <2>1. PICK b \in Browsers : msg'[r].jar = jar[b]
    BY <1>1 DEF Send, TypeOK
  <2>2. UNCHANGED <<jar, cookies>> /\ cookies[r].owner = None
    BY <1>1 DEF Send, Untouched, NoCookies
  <2>3. \A x \in Requests \ {r} : pc'[x] = pc[x] /\ msg'[x] = msg[x]
    BY <1>1 DEF Send, TypeOK
  <2>4. QED
    BY <2>1, <2>2, <2>3 DEF KeysStay
<1>2. ASSUME NEW r \in Requests, TooMany(r) \/ Refuse(r) PROVE KeysStay'
  BY <1>2 DEF TooMany, Refuse, Respond, KeysStay, TypeOK
<1>3. ASSUME NEW r \in Requests, Serve(r) PROVE KeysStay'
  <2>1. /\ pc[r] # "new" /\ UNCHANGED <<msg, jar>>
        /\ \A x \in Requests \ {r} : pc'[x] = pc[x] /\ cookies'[x] = cookies[x]
        /\ cookies'[r].owner \in {cookies[r].owner, OwnerCookie(r)}
    BY <1>3, ServeAnswers DEF Answered, TypeOK
  <2>2. Keyed(OwnerCookie(r))
    BY <2>1, OneKey
  <2>3. QED
    BY <2>1, <2>2 DEF KeysStay
<1>4. ASSUME NEW r \in Requests, Deliver(r) PROVE KeysStay'
  <2>1. /\ pc[r] # "new"
        /\ \A b \in Browsers : jar'[b].owner \in {jar[b].owner, cookies[r].owner}
    BY <1>4 DEF Deliver, Kept, TypeOK, Message
  <2>2. QED
    BY <1>4, <2>1, OverForgets DEF Deliver, KeysStay
<1>5. ASSUME NEW r \in Requests, Lose(r) PROVE KeysStay'
  BY <1>5, OverForgets DEF Lose, KeysStay
<1>6. ASSUME NEW b \in Browsers, Forget(b) PROVE KeysStay'
  BY <1>6 DEF Forget, serving, NoCookies, KeysStay, TypeOK
<1>7. CASE UNCHANGED <<jar, msg, serving>>
  BY <1>7 DEF serving, KeysStay
<1>8. QED
  BY <1>1, <1>2, <1>3, <1>4, <1>5, <1>6, <1>7 DEF Next, Restart, vars

\* A browser that asks twice before it has a cookie is excused; any other
\* changes its cookie once, from none to the first.
LEMMA StepOneIdentity ==
  ASSUME TypeOK, Untouched, secretKey, KeysStay, [Next]_vars,
         NEW b \in Browsers, b \notin excused', b \notin excused => OneIdentity(b)
  PROVE  OneIdentity(b)'
<1>1. b \notin excused /\ OneIdentity(b)
  BY DEF Next, Send, TooMany, Refuse, Serve, Deliver, Lose, Restart, Forget, vars
<1> USE <1>1 DEF OneIdentity, Stranger, Busy
<1>2. ASSUME NEW r \in Requests, Send(r) PROVE OneIdentity(b)'
  <2>1. /\ UNCHANGED <<jar, cookies>> /\ cookies[r].owner = None /\ pc[r] = "new"
        /\ \A x \in Requests \ {r} : pc'[x] = pc[x] /\ msg'[x] = msg[x]
    BY <1>2 DEF Send, Untouched, NoCookies, TypeOK
  <2>2. PICK from \in Browsers :
          /\ msg'[r].from = from /\ msg'[r].jar = jar[from]
          /\ excused' = IF jar[from].owner = None /\ Strangers(from) # {}
                        THEN excused \cup {from} ELSE excused
    <3>1. PICK from \in Browsers, to \in Replicas, given \in Credentials \cup {Nothing},
               ask \in {"static", "page", "upload"} \cup {c \in Requests : contracts[c] # None} :
            /\ msg' = [msg EXCEPT ![r] = [from |-> from, to |-> to, ask |-> ask,
                                          given |-> given, jar |-> jar[from]]]
            /\ excused' = IF jar[from].owner = None /\ Strangers(from) # {}
                          THEN excused \cup {from} ELSE excused
      BY <1>2 DEF Send
    <3>2. msg'[r].from = from /\ msg'[r].jar = jar[from]
      BY <3>1 DEF TypeOK
    <3>3. QED
      BY <3>1, <3>2
  <2>3. CASE from # b
    BY <2>1, <2>2, <2>3
  <2>4. CASE from = b
    <3>1. jar[b].owner # None \/ Strangers(b) = {}
      BY <2>2, <2>4
    <3>2. jar[b].owner = None => \A x \in Requests : ~Stranger(x, b)
      BY <3>1 DEF Strangers
    <3>3. QED
      BY <2>1, <2>2, <2>4, <3>2
  <2>5. QED
    BY <2>3, <2>4
<1>3. ASSUME NEW r \in Requests, TooMany(r) \/ Refuse(r) PROVE OneIdentity(b)'
  BY <1>3 DEF TooMany, Refuse, Respond, TypeOK
<1>4. ASSUME NEW r \in Requests, Serve(r) PROVE OneIdentity(b)'
  <2>1. /\ pc[r] = "sent" /\ pc'[r] = "reply" /\ UNCHANGED <<msg, jar>>
        /\ \A x \in Requests \ {r} : pc'[x] = pc[x] /\ cookies'[x] = cookies[x]
        /\ cookies'[r].owner \in {cookies[r].owner, OwnerCookie(r)}
    BY <1>4, ServeAnswers DEF Answered, TypeOK
  <2>2. msg[r].jar.owner # None => OwnerCookie(r) = None
    BY <2>1, OneKey
  <2>3. QED
    BY <2>1, <2>2
<1>5. ASSUME NEW r \in Requests, Deliver(r) PROVE OneIdentity(b)'
  <2>1. pc[r] = "reply" /\ msg[r].from \in Browsers
    BY <1>5 DEF Deliver, TypeOK, Message
  <2>2. /\ pc'[r] = "end"
        /\ \A x \in Requests \ {r} : pc'[x] = pc[x] /\ cookies'[x] = cookies[x] /\ msg'[x] = msg[x]
    BY <1>5, <2>1, OverForgets DEF Deliver
  <2>3. CASE msg[r].from # b
    <3>1. jar'[b] = jar[b]
      BY <1>5, <2>1, <2>3 DEF Deliver, TypeOK
    <3>2. QED
      BY <2>2, <3>1
  <2>4. CASE msg[r].from = b
    <3>1. jar'[b].owner = Kept(jar[b].owner, cookies[r].owner)
      BY <1>5, <2>4 DEF Deliver, TypeOK
    <3>2. CASE msg[r].jar.owner # None
      <4>1. jar'[b].owner = jar[b].owner
        BY <2>1, <2>4, <3>1, <3>2 DEF Kept
      <4>2. QED
        BY <2>2, <4>1
    <3>3. CASE msg[r].jar.owner = None
      <4>1. jar[b].owner = None /\ \A x \in Requests \ {r} : ~Stranger(x, b)
        BY <2>1, <2>4, <3>3
      <4>2. \A x \in Requests \ {r} : ~Busy(x, b)
        BY <4>1
      <4>3. QED
        BY <2>2, <4>2
    <3>4. QED
      BY <3>2, <3>3
  <2>5. QED
    BY <2>3, <2>4
<1>6. ASSUME NEW r \in Requests, Lose(r) PROVE OneIdentity(b)'
  <2>1. UNCHANGED jar /\ pc[r] # "new"
    BY <1>6 DEF Lose
  <2>2. QED
    BY <1>6, <2>1, OverForgets DEF Lose
<1>7. ASSUME NEW c \in Browsers, Forget(c) PROVE OneIdentity(b)'
  <2>1. c # b /\ UNCHANGED <<msg, serving>>
    BY <1>7 DEF Forget
  <2>2. jar'[b] = jar[b]
    BY <1>7, <2>1 DEF Forget, TypeOK
  <2>3. QED
    BY <2>1, <2>2 DEF serving
<1>8. CASE UNCHANGED <<jar, msg, serving>>
  BY <1>8 DEF serving
<1>9. QED
  BY <1>2, <1>3, <1>4, <1>5, <1>6, <1>7, <1>8 DEF Next, Restart, vars

LEMMA ExcusesStay ==
  ASSUME [Next]_vars
  PROVE  excused \subseteq excused'
  BY DEF Next, Send, TooMany, Refuse, Serve, Deliver, Lose, Restart, Forget, vars

LEMMA StepTellsTruth ==
  ASSUME TypeOK, Untouched, secretKey, KeysStay, [Next]_vars,
         \A b \in Browsers \ excused : OneIdentity(b), TellsTruth
  PROVE  TellsTruth'
<1> SUFFICES ASSUME NEW x \in Requests, pc'[x] # "new", msg'[x].from \notin excused',
                    msg'[x].ask = "upload", answer'[x] = 200
             PROVE  Told(x)'
  BY DEF TellsTruth
<1>1. CASE answer[x] # 200
  <2>1. Serve(x)
    BY <1>1, OnlyServeSucceeds
  <2>2. pc[x] = "sent" /\ pc'[x] = "reply" /\ UNCHANGED msg
    BY <2>1, ServeAnswers DEF Answered, TypeOK
  <2>3. Store(x) /\ cookies'[x].owner = OwnerCookie(x)
    BY <2>1, <2>2, ServeSucceeds DEF TypeOK
  <2>4. contracts'[x] = OwnerId(x)
    BY <2>3 DEF Store, TypeOK
  <2>5. Named(Kept(msg[x].jar.owner, cookies[x].owner), x)'
    BY <2>2, <2>3, <2>4, OneKey DEF Named, Kept
  <2>6. QED
    BY <2>2, <2>5 DEF Told
<1>2. CASE answer[x] = 200
  <2>1. pc[x] \in {"reply", "end"}
    BY <1>2 DEF Untouched, TypeOK
  <2>2. msg[x].from \notin excused /\ msg[x].ask = "upload" /\ msg'[x].from = msg[x].from
    BY <2>1, StepAsked, ExcusesStay
  <2>3. Told(x) /\ msg[x].from \in Browsers /\ OneIdentity(msg[x].from)
    BY <1>2, <2>1, <2>2 DEF TellsTruth, TypeOK, Message
  <2>4. contracts'[x] = contracts[x]
    <3>1. ASSUME NEW r \in Requests, Serve(r) PROVE contracts'[x] = contracts[x]
      BY <2>1, <3>1, ServeAnswers DEF Store, TypeOK
    <3>2. CASE UNCHANGED contracts
      BY <3>2
    <3>3. QED
      BY <3>1, <3>2 DEF Next, Send, TooMany, Refuse, Deliver, Lose, Restart, Forget, vars
  <2>5. CASE Deliver(x)
    <3>1. /\ pc[x] = "reply" /\ pc'[x] = "end"
          /\ jar'[msg[x].from].owner = Kept(jar[msg[x].from].owner, cookies[x].owner)
      BY <2>1, <2>3, <2>5, OverForgets DEF Deliver, TypeOK
    <3>2. Named(Kept(msg[x].jar.owner, cookies[x].owner), x)
      BY <2>3, <3>1 DEF Told
    <3>3. Kept(msg[x].jar.owner, cookies[x].owner) = Kept(jar[msg[x].from].owner, cookies[x].owner)
      BY <2>3, <3>1, <3>2 DEF OneIdentity, Stranger, Busy, Kept, Named
    <3>4. QED
      BY <2>2, <2>4, <3>1, <3>2, <3>3 DEF Told, Named
  <2>6. CASE ~Deliver(x)
    <3>1. pc'[x] = pc[x] /\ cookies'[x] = cookies[x] /\ msg'[x] = msg[x]
      <4>1. ASSUME NEW r \in Requests, Send(r) \/ TooMany(r) \/ Refuse(r)
            PROVE  pc'[x] = pc[x] /\ cookies'[x] = cookies[x] /\ msg'[x] = msg[x]
        BY <4>1, <2>1 DEF Send, TooMany, Refuse, Respond, TypeOK
      <4>2. ASSUME NEW r \in Requests, Serve(r)
            PROVE  pc'[x] = pc[x] /\ cookies'[x] = cookies[x] /\ msg'[x] = msg[x]
        BY <4>2, <2>1, ServeAnswers DEF Answered, TypeOK
      <4>3. ASSUME NEW r \in Requests, Deliver(r)
            PROVE  pc'[x] = pc[x] /\ cookies'[x] = cookies[x] /\ msg'[x] = msg[x]
        <5>1. r # x
          BY <2>6, <4>3
        <5>2. pc[r] # "new" /\ Over(r)
          BY <4>3 DEF Deliver
        <5>3. QED
          BY <5>1, <5>2, OverForgets
      <4>4. ASSUME NEW r \in Requests, Lose(r)
            PROVE  pc'[x] = pc[x] /\ cookies'[x] = cookies[x] /\ msg'[x] = msg[x]
        <5>1. r # x
          BY <1>2, <4>4 DEF Lose, TypeOK
        <5>2. QED
          BY <4>4, <5>1, OverForgets DEF Lose
      <4>5. CASE UNCHANGED <<msg, serving>>
        BY <4>5 DEF serving
      <4>6. QED
        BY <4>1, <4>2, <4>3, <4>4, <4>5 DEF Next, Restart, Forget, vars
    <3>2. pc[x] = "end" => jar'[msg[x].from].owner = jar[msg[x].from].owner
      <4>1. ASSUME NEW r \in Requests, Deliver(r), pc[x] = "end"
            PROVE  jar'[msg[x].from].owner = jar[msg[x].from].owner
        BY <4>1, <2>3 DEF Deliver, Kept, TypeOK, Told, Named, OneIdentity, Stranger, Busy
      <4>2. ASSUME NEW b \in Browsers, Forget(b)
            PROVE  jar'[msg[x].from].owner = jar[msg[x].from].owner
        BY <4>2, <2>2, <2>3 DEF Forget, TypeOK
      <4>3. CASE UNCHANGED jar
        BY <4>3
      <4>4. QED
        BY <4>1, <4>2, <4>3, ServeAnswers DEF Next, Send, TooMany, Refuse, Lose, Restart, vars
    <3>3. QED
      BY <2>3, <2>4, <3>1, <3>2 DEF Told, Named
  <2>7. QED
    BY <2>5, <2>6
<1>3. QED
  BY <1>1, <1>2

LEMMA StepReachInv ==
  ASSUME IInv, ReachInv, [Next]_vars
  PROVE  ReachInv'
<1>1. secretKey' = secretKey
  BY ServeAnswers
  DEF Next, Send, TooMany, Refuse, Deliver, Lose, Restart, Forget, vars, servers, IInv
<1>2. ASSUME secretKey, NEW b \in Browsers \ excused' PROVE OneIdentity(b)'
  BY <1>2, StepOneIdentity DEF IInv, ReachInv
<1>3. QED
  BY <1>1, <1>2, StepKeysStay, StepTellsTruth DEF IInv, ReachInv

\* With a SECRET_KEY who was told of a contract can always reach it, whatever is
\* restarted, lost or overtaken, unless the cookies were cleared or two first
\* requests went out side by side.
THEOREM ContractsStayInReach == Spec => []Reachable
<1>1. Init => ReachInv
  BY DEF Init, ReachInv, KeysStay, Keyed, OneIdentity, Stranger, Busy, TellsTruth, NoCookies
<1>2. IInv /\ ReachInv /\ [Next]_vars => ReachInv'
  BY StepReachInv
<1>3. IInv /\ ReachInv => Reachable
  <2> SUFFICES ASSUME IInv, ReachInv, secretKey,
                      NEW r \in Requests, NEW p \in Replicas, pc[r] = "end", answer[r] = 200,
                      msg[r].ask = "upload", msg[r].from \notin excused
               PROVE  Unsign(p, jar[msg[r].from].owner) = contracts[r]
    BY DEF Reachable
  <2>1. Named(jar[msg[r].from].owner, r)
    BY DEF ReachInv, TellsTruth, Told
  <2>2. msg[r].from \in Browsers
    BY DEF IInv, TypeOK, Message
  <2>3. jar[msg[r].from].owner.key = SigningKey(p)
    BY <2>1, <2>2 DEF ReachInv, KeysStay, Keyed, Named, SigningKey
  <2>4. QED
    BY <2>1, <2>3 DEF Named, Unsign
<1>4. QED
  BY <1>1, <1>2, <1>3, Invariance, PTL DEF Spec
=============================================================================
