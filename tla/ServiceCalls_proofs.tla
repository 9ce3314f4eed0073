------------------------- MODULE ServiceCalls_proofs -------------------------
(***************************************************************************)
(* Proofs about ServiceCalls, and so about GitHubClient and LLMClient, for *)
(* every number of goroutines, installations, retries and pages, for every *)
(* life of a credential, and for everything the model may answer.          *)
(***************************************************************************)
EXTENDS ServiceCalls, TLAPS

Task == [pc : L!PCs, kind : L!Kinds, round : 1 .. 2, stage : L!Stages,
         attempt : 0 .. Retries, resp : L!Answer, result : SUBSET L!FindingKinds]

\* Before the first request of a call.
Unsent == {"token", "jwt", "create", "store"}

\* A credential that got less is one that its call has had for long.
Credential(m) ==
  /\ m.pc = "create" => m.left + m.age > JwtWindow
  /\ m.pc \in {"store", "send"} => m.left + m.age > Buffer
  /\ m.pc = "store" => m.left <= TokenTTL

\* As long as a call sends, every effect of it was hidden, and was retried.
Effects(m) ==
  /\ m.made <= 1 + m.blind
  /\ m.kind = "list" \/ m.pc \in Unsent => m.made = 0 /\ m.blind = 0
  /\ m.pc = "send" => m.made = m.blind /\ m.blind <= m.attempt

\* The pages a listing has before it asks for page p; the first one comes twice.
Seen(p) == IF p = 0 THEN {} ELSE IF p = 1 THEN {1} ELSE 1 .. p - 1

Pages(m) ==
  /\ m.pc \in Unsent => m.page = 0 /\ m.got = {}
  /\ m.pc = "send" /\ m.kind = "list" => m.got = Seen(m.page)
  /\ m.pc = "ok" /\ m.kind = "list" => m.got = 1 .. FullPages + 1

CallOK(m) == m \in G!Call /\ Credential(m) /\ Effects(m) /\ Pages(m)

\* A Review or Compile that succeeded had a whole answer.
TaskOK(t) ==
  t \in Task /\ (t.pc = "ok" => L!Whole(t.resp) /\ t.result \subseteq {"sound"})

\* What a job knows at the stage it has reached, given the call it makes.
JobOK(j, m) ==
  /\ j \in Job
  /\ j.stage = "list" => m.kind = "list"
  /\ j.stage \in {"review", "compile", "post"} => j.listed = 1 .. FullPages + 1
  /\ j.stage \in {"compile", "post"} => L!Whole(j.answer) /\ j.result \subseteq {"sound"}

Shared ==
  /\ live \in [Callers -> BOOLEAN]
  /\ jwt \in 0 .. JwtTTL
  /\ tokens \in [Installations -> 0 .. TokenTTL]
  /\ call \in [Callers -> G!Call]
  /\ task \in [Callers -> Task]
  /\ job \in [Callers -> Job]

IInv ==
  /\ Shared
  /\ \A c \in Callers : CallOK(call[c]) /\ TaskOK(task[c]) /\ JobOK(job[c], call[c])

-----------------------------------------------------------------------------
(* Constants and calls *)

\* What the constants give.
LEMMA Constant ==
  /\ MaxRetries \in Nat /\ FullPages \in Nat /\ Retries \in Nat
  /\ JwtTTL \in Nat /\ JwtWindow \in Nat /\ JwtWindow < JwtTTL
  /\ TokenTTL \in Nat /\ Buffer \in Nat /\ Buffer < TokenTTL
  /\ G!LongAgo \in Nat /\ Buffer < G!LongAgo /\ JwtWindow < G!LongAgo
  /\ Answers \subseteq L!Answer
  /\ G!Idle.inst \in Installations
<1>1. /\ MaxRetries \in Nat /\ FullPages \in Nat /\ Retries \in Nat
      /\ JwtTTL \in Nat /\ JwtWindow \in 0 .. JwtTTL - 1
      /\ TokenTTL \in Nat /\ Buffer \in 0 .. TokenTTL - 1
      /\ Answers \subseteq L!Answer /\ Installations # {}
  BY ServiceCallsAssumption DEF G!GitHubClientAssumption, L!LLMClientAssumption
<1>2. G!LongAgo \in Nat /\ Buffer < G!LongAgo /\ JwtWindow < G!LongAgo
  BY <1>1 DEF G!LongAgo
<1>3. G!Idle.inst \in Installations
  BY <1>1 DEF G!Idle
<1> QED
  BY <1>1, <1>2, <1>3

\* The page a listing gets is the next one of those it is to see.
LEMMA NextPage ==
  ASSUME NEW p \in 0 .. FullPages + 1
  PROVE  /\ G!PageServed(p) \in 1 .. FullPages + 1
         /\ G!IsLast(p) => Seen(p) \cup {G!PageServed(p)} = 1 .. FullPages + 1
         /\ ~ G!IsLast(p) => /\ p + 1 \in 0 .. FullPages + 1
                             /\ Seen(p) \cup {G!PageServed(p)} = Seen(p + 1)
<1>0. FullPages \in Nat /\ p \in Nat
  BY Constant
<1>1. CASE p = 0
  BY <1>0, <1>1 DEF G!PageServed, G!IsLast, Seen
<1>2. CASE p = 1
  BY <1>0, <1>2 DEF G!PageServed, G!IsLast, Seen
<1>3. CASE p > 1
  BY <1>0, <1>3 DEF G!PageServed, G!IsLast, Seen
<1> QED
  BY <1>0, <1>1, <1>2, <1>3

\* A goroutine without a call.
LEMMA IdleCall == CallOK(G!Idle) /\ G!Idle.pc = "idle"
<1>1. G!Idle \in G!Call
  BY Constant DEF G!Idle, G!Call, G!PCs, G!Kinds
<1> QED
  BY <1>1 DEF CallOK, G!Idle, Credential, Effects, Pages, Unsent

\* A goroutine without a task, and one that begins with one.
LEMMA IdleTask ==
  /\ TaskOK(L!Idle)
  /\ \A k \in L!Kinds : TaskOK([L!Idle EXCEPT !.pc = "ask", !.kind = k])
<1>1. L!NoAnswer \in L!Answer /\ Retries \in Nat
  BY Constant DEF L!NoAnswer, L!Answer, L!Bodies, L!Statuses
<1>2. L!Idle \in Task /\ L!Idle.pc = "idle"
  BY <1>1 DEF Task, L!Idle, L!PCs, L!Kinds, L!Stages
<1>3. ASSUME NEW k \in L!Kinds PROVE TaskOK([L!Idle EXCEPT !.pc = "ask", !.kind = k])
  <2> DEFINE t == [L!Idle EXCEPT !.pc = "ask", !.kind = k]
  <2>1. t \in Task /\ t.pc = "ask"
    BY <1>2 DEF Task, L!PCs
  <2> QED
    BY <2>1 DEF TaskOK
<1> QED
  BY <1>2, <1>3 DEF TaskOK

\* A call that returns: nothing it got is lost.
LEMMA LeaveOK ==
  ASSUME NEW m \in G!Call, m.made <= 1 + m.blind, NEW pc \in {"ok", "err"},
         m.kind = "list" => m.made = 0 /\ m.blind = 0,
         pc = "ok" /\ m.kind = "list" => m.got = 1 .. FullPages + 1
  PROVE  LET r == [m EXCEPT !.pc = pc, !.left = 0, !.age = 0, !.attempt = 0, !.page = 0]
         IN  CallOK(r) /\ r.kind = m.kind
<1> DEFINE r == [m EXCEPT !.pc = pc, !.left = 0, !.age = 0, !.attempt = 0, !.page = 0]
<1>0. /\ 0 \in 0 .. JwtTTL + TokenTTL /\ 0 \in 0 .. G!LongAgo
      /\ 0 \in 0 .. MaxRetries /\ 0 \in 0 .. FullPages + 1
  BY Constant
<1>1. r \in G!Call
  BY <1>0 DEF G!Call, G!PCs
<1>2. r.pc = pc /\ r.kind = m.kind /\ r.made = m.made /\ r.blind = m.blind /\ r.got = m.got
  BY DEF G!Call
<1>3. CallOK(r)
  BY <1>1, <1>2 DEF CallOK, Credential, Effects, Pages, Unsent
<1> QED
  BY <1>2, <1>3

\* A request that is sent again.
LEMMA RetryOK ==
  ASSUME NEW m \in G!Call, Credential(m), Pages(m), m.pc \in {"create", "send"},
         m.made = m.blind, m.blind <= m.attempt + 1, m.attempt < MaxRetries,
         m.kind = "list" \/ m.pc = "create" => m.made = 0
  PROVE  LET r == [m EXCEPT !.attempt = @ + 1] IN CallOK(r) /\ r.kind = m.kind
<1> DEFINE r == [m EXCEPT !.attempt = @ + 1]
<1>1. m.attempt \in 0 .. MaxRetries /\ m.made \in Nat /\ m.blind \in Nat /\ MaxRetries \in Nat
  BY Constant DEF G!Call
<1>2. m.attempt + 1 \in 0 .. MaxRetries
  BY <1>1
<1>3. r \in G!Call
  BY <1>2 DEF G!Call
<1>4. /\ r.pc = m.pc /\ r.kind = m.kind /\ r.made = m.made /\ r.blind = m.blind /\ r.got = m.got
      /\ r.left = m.left /\ r.age = m.age /\ r.page = m.page /\ r.attempt = m.attempt + 1
  BY DEF G!Call
<1> HIDE DEF r
<1>5. Credential(r) /\ Pages(r)
  BY <1>4 DEF Credential, Pages
<1>6. Effects(r)
  BY <1>1, <1>4 DEF Effects, Unsent
<1>7. CallOK(r)
  BY <1>3, <1>5, <1>6 DEF CallOK
<1> QED
  BY <1>4, <1>7 DEF r

-----------------------------------------------------------------------------
(* GitHubClient *)

\* A step of c's call, which stays what it is for.
Calling(c) ==
  /\ live' = live /\ jwt' \in 0 .. JwtTTL
  /\ tokens' \in [Installations -> 0 .. TokenTTL]
  /\ \E m \in G!Call : CallOK(m) /\ m.kind = call[c].kind /\ call' = [call EXCEPT ![c] = m]

\* A token from the cache lasts long enough for a call.
LEMMA CheckTokenCalls ==
  ASSUME IInv, NEW c \in Callers, G!CheckToken(c)
  PROVE  Calling(c)
<1> DEFINE i == call[c].inst
<1>1. /\ call[c] \in G!Call /\ call[c].pc = "token" /\ i \in Installations
      /\ tokens[i] \in 0 .. TokenTTL
      /\ call[c].page = 0 /\ call[c].got = {} /\ call[c].made = 0 /\ call[c].blind = 0
      /\ tokens \in [Installations -> 0 .. TokenTTL] /\ jwt \in 0 .. JwtTTL
  BY DEF IInv, Shared, CallOK, G!Call, Effects, Pages, Unsent, G!CheckToken, G!At
<1>2. CASE G!LastsLongEnough(i)
  <2> DEFINE m == [call[c] EXCEPT !.pc = "send", !.left = tokens[i]]
  <2>1. tokens[i] \in 0 .. JwtTTL + TokenTTL
    BY <1>1, Constant
  <2>2. m \in G!Call
    BY <1>1, <2>1 DEF G!Call, G!PCs
  <2>3. /\ m.pc = "send" /\ m.left = tokens[i] /\ m.age = call[c].age /\ m.kind = call[c].kind
        /\ m.page = 0 /\ m.got = {} /\ m.made = 0 /\ m.blind = 0 /\ m.attempt = call[c].attempt
    BY <1>1 DEF G!Call
  <2>4. call' = [call EXCEPT ![c] = m] /\ UNCHANGED <<live, jwt, tokens>>
    BY <1>2 DEF G!CheckToken, G!Update
  <2> HIDE DEF m
  <2>5. Credential(m)
    <3>1. tokens[i] > Buffer /\ call[c].age \in Nat /\ tokens[i] \in Nat
      BY <1>1, <1>2, Constant DEF G!LastsLongEnough, G!Lasts, G!Call
    <3> QED
      BY <2>3, <3>1, Constant DEF Credential
  <2>6. Effects(m) /\ Pages(m)
    <3>1. call[c].attempt \in Nat
      BY <1>1 DEF G!Call
    <3> QED
      BY <2>3, <3>1 DEF Effects, Pages, Unsent, Seen
  <2> QED
    BY <1>1, <2>2, <2>3, <2>4, <2>5, <2>6 DEF Calling, CallOK
<1>3. CASE ~ G!LastsLongEnough(i)
  <2> DEFINE m == [call[c] EXCEPT !.pc = "jwt"]
  <2>1. /\ m \in G!Call /\ m.pc = "jwt" /\ m.kind = call[c].kind
        /\ m.page = 0 /\ m.got = {} /\ m.made = 0 /\ m.blind = 0
    BY <1>1 DEF G!Call, G!PCs
  <2>2. call' = [call EXCEPT ![c] = m] /\ UNCHANGED <<live, jwt, tokens>>
    BY <1>3 DEF G!CheckToken, G!Update
  <2> HIDE DEF m
  <2>3. CallOK(m)
    BY <2>1 DEF CallOK, Credential, Effects, Pages, Unsent
  <2> QED
    BY <1>1, <2>1, <2>2, <2>3 DEF Calling
<1> QED
  BY <1>2, <1>3

\* So does the JWT, whether it is signed now or was before.
LEMMA SignJwtCalls ==
  ASSUME IInv, NEW c \in Callers, G!SignJwt(c)
  PROVE  Calling(c)
<1>1. /\ call[c] \in G!Call /\ call[c].pc = "jwt" /\ call[c].age \in Nat
      /\ call[c].page = 0 /\ call[c].got = {} /\ call[c].made = 0 /\ call[c].blind = 0
      /\ tokens \in [Installations -> 0 .. TokenTTL] /\ jwt \in 0 .. JwtTTL
  BY DEF IInv, Shared, CallOK, G!Call, Effects, Pages, Unsent, G!SignJwt, G!At
<1>2. jwt' \in 0 .. JwtTTL /\ jwt' > JwtWindow /\ jwt' \in 0 .. JwtTTL + TokenTTL
  BY <1>1, Constant DEF G!SignJwt, G!Lasts
<1>3. SUFFICES ASSUME NEW n, n = jwt' PROVE Calling(c)
  OBVIOUS
<1> DEFINE m == [call[c] EXCEPT !.pc = "create", !.left = n]
<1>4. m \in G!Call
  BY <1>1, <1>2, <1>3 DEF G!Call, G!PCs
<1>5. /\ m.pc = "create" /\ m.left = n /\ m.age = call[c].age /\ m.kind = call[c].kind
      /\ m.page = 0 /\ m.got = {} /\ m.made = 0 /\ m.blind = 0
  BY <1>1 DEF G!Call
<1>6. call' = [call EXCEPT ![c] = m] /\ UNCHANGED <<live, tokens>>
  BY <1>3 DEF G!SignJwt, G!Update
<1> HIDE DEF m
<1>7. Credential(m)
  BY <1>1, <1>2, <1>3, <1>5, Constant DEF Credential
<1>8. Effects(m) /\ Pages(m)
  BY <1>5 DEF Effects, Pages, Unsent
<1> QED
  BY <1>1, <1>2, <1>4, <1>5, <1>6, <1>7, <1>8 DEF Calling, CallOK

\* A new token lasts.
LEMMA CreateTokenCalls ==
  ASSUME IInv, NEW c \in Callers, G!CreateToken(c)
  PROVE  Calling(c)
<1>1. /\ call[c] \in G!Call /\ call[c].pc = "create"
      /\ call[c].page = 0 /\ call[c].got = {} /\ call[c].made = 0 /\ call[c].blind = 0
      /\ tokens \in [Installations -> 0 .. TokenTTL] /\ jwt \in 0 .. JwtTTL
  BY DEF IInv, Shared, CallOK, G!Call, Effects, Pages, Unsent, G!CreateToken, G!At
<1> DEFINE m == [call[c] EXCEPT !.pc = "store", !.left = TokenTTL, !.age = 0, !.attempt = 0]
<1>2. TokenTTL \in 0 .. JwtTTL + TokenTTL /\ 0 \in 0 .. G!LongAgo /\ 0 \in 0 .. MaxRetries
  BY Constant
<1>3. m \in G!Call
  BY <1>1, <1>2 DEF G!Call, G!PCs
<1>4. /\ m.pc = "store" /\ m.left = TokenTTL /\ m.age = 0 /\ m.kind = call[c].kind
      /\ m.page = 0 /\ m.got = {} /\ m.made = 0 /\ m.blind = 0
  BY <1>1 DEF G!Call
<1>5. call' = [call EXCEPT ![c] = m] /\ UNCHANGED <<live, jwt, tokens>>
  BY DEF G!CreateToken, G!Update
<1> HIDE DEF m
<1>6. Credential(m)
  BY <1>4, Constant DEF Credential
<1>7. Effects(m) /\ Pages(m)
  BY <1>4 DEF Effects, Pages, Unsent
<1> QED
  BY <1>1, <1>3, <1>4, <1>5, <1>6, <1>7 DEF Calling, CallOK

\* It is cached with what is left of it.
LEMMA StoreTokenCalls ==
  ASSUME IInv, NEW c \in Callers, G!StoreToken(c)
  PROVE  Calling(c)
<1>1. /\ call[c] \in G!Call /\ call[c].pc = "store" /\ call[c].attempt \in Nat
      /\ call[c].left \in Nat
      /\ call[c].page = 0 /\ call[c].got = {} /\ call[c].made = 0 /\ call[c].blind = 0
      /\ tokens \in [Installations -> 0 .. TokenTTL] /\ jwt \in 0 .. JwtTTL
      /\ Credential(call[c])
  BY DEF IInv, Shared, CallOK, G!Call, Effects, Pages, Unsent, G!StoreToken, G!At
<1> DEFINE m == [call[c] EXCEPT !.pc = "send"]
<1>2. /\ m \in G!Call /\ m.pc = "send" /\ m.kind = call[c].kind /\ m.left = call[c].left
      /\ m.age = call[c].age /\ m.attempt = call[c].attempt
      /\ m.page = 0 /\ m.got = {} /\ m.made = 0 /\ m.blind = 0
  BY <1>1 DEF G!Call, G!PCs
<1>3. /\ call' = [call EXCEPT ![c] = m] /\ UNCHANGED <<live, jwt>>
      /\ tokens' = [tokens EXCEPT ![call[c].inst] = call[c].left]
  BY DEF G!StoreToken, G!Update
<1> HIDE DEF m
<1>4. Credential(m)
  BY <1>1, <1>2 DEF Credential
<1>5. Effects(m) /\ Pages(m)
  BY <1>1, <1>2 DEF Effects, Pages, Unsent, Seen
<1>6. tokens' \in [Installations -> 0 .. TokenTTL]
  <2>1. call[c].left \in 0 .. TokenTTL
    BY <1>1, Constant DEF Credential
  <2> QED
    BY <1>1, <1>3, <2>1
<1> QED
  BY <1>1, <1>2, <1>3, <1>4, <1>5, <1>6 DEF Calling, CallOK

\* Answers without an effect.
LEMMA ThrottledCalls ==
  ASSUME IInv, NEW c \in Callers, G!Throttled(c) \/ G!Refused(c)
  PROVE  Calling(c)
<1> DEFINE m == call[c]
<1>1. /\ m \in G!Call /\ m.pc \in {"create", "send"} /\ CallOK(m)
      /\ jwt' \in 0 .. JwtTTL /\ tokens' \in [Installations -> 0 .. TokenTTL]
      /\ UNCHANGED live
  BY DEF IInv, Shared, G!Throttled, G!Refused
<1>2. /\ m.made = m.blind /\ m.blind \in Nat /\ m.attempt \in Nat /\ m.blind <= m.attempt + 1
      /\ m.made <= 1 + m.blind
      /\ (m.kind = "list" => m.made = 0 /\ m.blind = 0)
      /\ (m.kind = "list" \/ m.pc = "create" => m.made = 0)
      /\ Credential(m) /\ Pages(m)
  BY <1>1 DEF CallOK, Effects, Unsent, G!Call
<1>3. CASE m.attempt < MaxRetries /\ G!Update(c, [m EXCEPT !.attempt = @ + 1])
  BY <1>1, <1>2, <1>3, RetryOK DEF Calling, G!Update, CallOK
<1>4. CASE G!Leave(c, "err", m)
  BY <1>1, <1>2, <1>4, LeaveOK DEF Calling, G!Leave, G!Update, CallOK
<1> QED
  BY <1>3, <1>4 DEF G!Throttled, G!Refused, G!Again, G!GivesUp, G!MayRetry

\* Posts that took effect, whatever GitHub answers or does not answer.
LEMMA PostCalls ==
  ASSUME IInv, NEW c \in Callers, G!HiddenPost(c) \/ G!LostPost(c) \/ G!Post(c)
  PROVE  Calling(c)
<1>1. /\ call[c] \in G!Call /\ call[c].pc = "send" /\ call[c].kind = "post" /\ CallOK(call[c])
      /\ jwt' \in 0 .. JwtTTL /\ tokens' \in [Installations -> 0 .. TokenTTL]
      /\ UNCHANGED live
  BY DEF IInv, Shared, G!HiddenPost, G!LostPost, G!Post, G!At
<1>2. /\ call[c].made = call[c].blind /\ call[c].blind \in Nat
      /\ call[c].attempt \in 0 .. MaxRetries /\ call[c].blind <= call[c].attempt
  BY <1>1 DEF CallOK, Effects, G!Call
<1>3. call[c].made + 1 \in 0 .. MaxRetries + 1 /\ call[c].blind + 1 \in 0 .. MaxRetries + 1
  BY <1>2, Constant
<1>4. CASE G!HiddenPost(c)
  <2> DEFINE m == [call[c] EXCEPT !.made = @ + 1, !.blind = @ + 1]
  <2>1. m \in G!Call
    BY <1>1, <1>3 DEF G!Call
  <2>2. /\ m.pc = "send" /\ m.kind = "post" /\ m.made = call[c].made + 1
        /\ m.blind = call[c].blind + 1 /\ m.attempt = call[c].attempt
        /\ m.left = call[c].left /\ m.age = call[c].age
    BY <1>1 DEF G!Call
  <2>3. G!Again(c, m)
    BY <1>4 DEF G!HiddenPost
  <2> HIDE DEF m
  <2>4. Credential(m) /\ Pages(m)
    BY <1>1, <2>2 DEF CallOK, Credential, Pages, Unsent
  <2>5. m.made = m.blind /\ m.blind <= m.attempt + 1 /\ m.made <= 1 + m.blind
    BY <1>2, <2>2
  <2>6. CASE call[c].attempt < MaxRetries /\ G!Update(c, [m EXCEPT !.attempt = @ + 1])
    BY <1>1, <2>1, <2>2, <2>4, <2>5, <2>6, RetryOK DEF Calling, G!Update, CallOK
  <2>7. CASE G!Leave(c, "err", m)
    BY <1>1, <2>1, <2>2, <2>5, <2>7, LeaveOK DEF Calling, G!Leave, G!Update, CallOK
  <2> QED
    BY <2>3, <2>6, <2>7 DEF G!Again, G!MayRetry
<1>5. CASE G!LostPost(c) \/ G!Post(c)
  <2> DEFINE m == [call[c] EXCEPT !.made = @ + 1]
  <2>1. m \in G!Call
    BY <1>1, <1>3 DEF G!Call
  <2>2. m.kind = "post" /\ m.made = call[c].made + 1 /\ m.blind = call[c].blind
    BY <1>1 DEF G!Call
  <2>3. PICK pc \in {"ok", "err"} : G!Leave(c, pc, m)
    BY <1>5 DEF G!LostPost, G!Post, G!GivesUp
  <2> HIDE DEF m
  <2>4. m.made <= 1 + m.blind
    BY <1>2, <2>2
  <2> QED
    BY <1>1, <2>1, <2>2, <2>3, <2>4, LeaveOK DEF Calling, G!Leave, G!Update, CallOK
<1> QED
  BY <1>4, <1>5

\* A page arrives: the last one completes what the listing got.
LEMMA ListPageCalls ==
  ASSUME IInv, NEW c \in Callers, G!ListPage(c)
  PROVE  Calling(c)
<1> DEFINE p == call[c].page
<1>1. /\ call[c] \in G!Call /\ call[c].pc = "send" /\ call[c].kind = "list" /\ CallOK(call[c])
      /\ jwt' \in 0 .. JwtTTL /\ tokens' \in [Installations -> 0 .. TokenTTL]
      /\ UNCHANGED live
  BY DEF IInv, Shared, G!ListPage, G!At
<1>2. /\ p \in 0 .. FullPages + 1 /\ call[c].got = Seen(p)
      /\ call[c].made = 0 /\ call[c].blind = 0
  BY <1>1 DEF CallOK, Effects, Pages, G!Call
<1> DEFINE m == [call[c] EXCEPT !.got = @ \cup {G!PageServed(p)}]
<1>3. G!PageServed(p) \in 1 .. FullPages + 1
  BY <1>2, NextPage
<1>4. m \in G!Call
  BY <1>1, <1>3 DEF G!Call
<1>5. /\ m.pc = "send" /\ m.kind = "list" /\ m.made = 0 /\ m.blind = 0
      /\ m.got = Seen(p) \cup {G!PageServed(p)} /\ m.page = p
      /\ m.left = call[c].left /\ m.age = call[c].age
  BY <1>1, <1>2 DEF G!Call
<1>6. /\ G!IsLast(p) => G!Leave(c, "ok", m)
      /\ ~ G!IsLast(p) => call' = [call EXCEPT ![c] = [m EXCEPT !.page = p + 1, !.attempt = 0]]
  BY DEF G!ListPage, G!Update
<1> HIDE DEF m, p
<1>7. CASE G!IsLast(p)
  <2>1. m.got = 1 .. FullPages + 1
    BY <1>2, <1>5, <1>7, NextPage
  <2>2. m.made <= 1 + m.blind
    BY <1>5
  <2> QED
    BY <1>1, <1>4, <1>5, <1>6, <1>7, <2>1, <2>2, LeaveOK DEF Calling, G!Leave, G!Update, CallOK
<1>8. CASE ~ G!IsLast(p)
  <2> DEFINE r == [m EXCEPT !.page = p + 1, !.attempt = 0]
  <2>1. p + 1 \in 0 .. FullPages + 1 /\ m.got = Seen(p + 1) /\ 0 \in 0 .. MaxRetries
    BY <1>2, <1>5, <1>8, NextPage, Constant
  <2>2. r \in G!Call
    BY <1>4, <2>1 DEF G!Call
  <2>3. /\ r.pc = "send" /\ r.kind = "list" /\ r.made = 0 /\ r.blind = 0 /\ r.attempt = 0
        /\ r.got = Seen(p + 1) /\ r.page = p + 1
        /\ r.left = call[c].left /\ r.age = call[c].age
    BY <1>4, <1>5, <2>1 DEF G!Call
  <2> HIDE DEF r
  <2>4. Credential(r)
    BY <1>1, <2>3 DEF CallOK, Credential
  <2>5. Effects(r) /\ Pages(r)
    BY <2>3 DEF Effects, Pages, Unsent
  <2> QED
    BY <1>1, <1>6, <1>8, <2>2, <2>3, <2>4, <2>5 DEF Calling, CallOK, r
<1> QED
  BY <1>7, <1>8

\* Whatever a client of GitHub does next.
LEMMA StepCalls ==
  ASSUME IInv, NEW c \in Callers, G!Step(c)
  PROVE  Calling(c)
BY CheckTokenCalls, SignJwtCalls, CreateTokenCalls, StoreTokenCalls, ThrottledCalls, PostCalls,
   ListPageCalls DEF G!Step

\* What is left of a credential and how long it has been in use add up.
LEMMA TickCalls ==
  ASSUME IInv, G!Tick
  PROVE  /\ jwt' \in 0 .. JwtTTL /\ tokens' \in [Installations -> 0 .. TokenTTL]
         /\ call' \in [Callers -> G!Call]
         /\ \A c \in Callers : CallOK(call'[c]) /\ call'[c].kind = call[c].kind
<1>1. /\ jwt \in 0 .. JwtTTL /\ tokens \in [Installations -> 0 .. TokenTTL]
      /\ call \in [Callers -> G!Call]
  BY DEF IInv, Shared
<1>2. \A n \in Nat : \A k \in 0 .. n : G!Later(k) \in 0 .. n
  BY DEF G!Later
<1>3. jwt' \in 0 .. JwtTTL
  BY <1>1, <1>2, Constant DEF G!Tick
<1>4. tokens' \in [Installations -> 0 .. TokenTTL]
  BY <1>1, <1>2, Constant DEF G!Tick
<1>5. ASSUME NEW c \in Callers
      PROVE  call'[c] \in G!Call /\ CallOK(call'[c]) /\ call'[c].kind = call[c].kind
  <2>1. CallOK(call[c]) /\ call[c] \in G!Call
    BY <1>1 DEF IInv
  <2>2. CASE call[c].pc \in {"create", "store", "send"}
    <3> DEFINE n == G!Later(call[c].left)
    <3> DEFINE a == IF call[c].age < G!LongAgo THEN call[c].age + 1 ELSE call[c].age
    <3> DEFINE m == [call[c] EXCEPT !.left = n, !.age = a]
    <3>1. call[c].left \in 0 .. JwtTTL + TokenTTL /\ call[c].age \in 0 .. G!LongAgo
      BY <2>1 DEF G!Call
    <3>2. n \in 0 .. JwtTTL + TokenTTL
      BY <3>1, Constant DEF G!Later
    <3>3. a \in 0 .. G!LongAgo
      BY <3>1, Constant
    <3>4. /\ n = 0 /\ a >= call[c].age /\ call[c].left = 0
          \/ n + a = call[c].left + call[c].age
          \/ a = G!LongAgo
      BY <3>1, Constant DEF G!Later
    <3>5. call'[c] = m
      BY <2>2 DEF G!Tick
    <3>6. n <= call[c].left
      BY <3>1 DEF G!Later
    <3> HIDE DEF n, a
    <3>7. m \in G!Call
      BY <2>1, <3>2, <3>3 DEF G!Call
    <3>8. /\ m.pc = call[c].pc /\ m.kind = call[c].kind /\ m.made = call[c].made
          /\ m.blind = call[c].blind /\ m.attempt = call[c].attempt /\ m.page = call[c].page
          /\ m.got = call[c].got /\ m.left = n /\ m.age = a
      BY <2>1 DEF G!Call
    <3> HIDE DEF m
    <3>9. \A k \in {Buffer, JwtWindow} : call[c].left + call[c].age > k => n + a > k
      BY <3>1, <3>2, <3>3, <3>4, Constant
    <3>10. Credential(m)
      BY <2>1, <3>1, <3>2, <3>6, <3>8, <3>9, Constant DEF CallOK, Credential
    <3>11. Effects(m) /\ Pages(m)
      BY <2>1, <3>8 DEF CallOK, Effects, Pages
    <3> QED
      BY <3>5, <3>7, <3>8, <3>10, <3>11 DEF CallOK
  <2>3. CASE call[c].pc \notin {"create", "store", "send"}
    BY <2>1, <2>3 DEF G!Tick
  <2> QED
    BY <2>2, <2>3
<1>6. call' \in [Callers -> G!Call]
  <2>1. \E f : call' = [c \in Callers |-> f[c]]
    <3>1. call' = [c \in Callers |-> call'[c]]
      BY DEF G!Tick
    <3> QED
      BY <3>1
  <2> QED
    BY <1>5, <2>1
<1> QED
  BY <1>3, <1>4, <1>5, <1>6

-----------------------------------------------------------------------------
(* LLMClient *)

\* A step of c's task.
Asking(c) ==
  live' = live /\ \E t \in Task : TaskOK(t) /\ task' = [task EXCEPT ![c] = t]

\* A Review or Compile that fails, and perhaps is repeated.
LEMMA FailAsks ==
  ASSUME IInv, NEW c \in Callers, L!Fail(c), live' = live, task[c].pc = "ask"
  PROVE  Asking(c)
<1>1. task[c] \in Task
  BY DEF IInv, Shared
<1>2. CASE L!MayRepeat(c)
  <2> DEFINE t == [task[c] EXCEPT !.round = 2, !.stage = "plain", !.attempt = 0]
  <2>1. 0 \in 0 .. Retries /\ 2 \in 1 .. 2
    BY Constant
  <2>2. t \in Task /\ t.pc = "ask"
    BY <1>1, <2>1 DEF Task, L!Stages
  <2>3. task' = [task EXCEPT ![c] = t]
    BY <1>2 DEF L!Fail, L!Update
  <2> HIDE DEF t
  <2> QED
    BY <2>2, <2>3 DEF Asking, TaskOK
<1>3. CASE ~ L!MayRepeat(c)
  <2> DEFINE t == [task[c] EXCEPT !.pc = "err"]
  <2>1. t \in Task /\ t.pc = "err"
    BY <1>1 DEF Task, L!PCs
  <2>2. task' = [task EXCEPT ![c] = t]
    BY <1>3 DEF L!Fail, L!Update
  <2> HIDE DEF t
  <2> QED
    BY <2>1, <2>2 DEF Asking, TaskOK
<1> QED
  BY <1>2, <1>3

\* Another chat with the prompt of a stage.
LEMMA AskAgainAsks ==
  ASSUME IInv, NEW c \in Callers, NEW stage \in L!Stages, L!AskAgain(c, stage),
         live' = live, task[c].pc = "ask"
  PROVE  Asking(c)
<1> DEFINE t == [task[c] EXCEPT !.stage = stage, !.attempt = 0]
<1>1. task[c] \in Task /\ 0 \in 0 .. Retries
  BY Constant DEF IInv, Shared
<1>2. t \in Task /\ t.pc = "ask"
  BY <1>1 DEF Task
<1>3. task' = [task EXCEPT ![c] = t]
  BY DEF L!AskAgain, L!Update
<1> HIDE DEF t
<1> QED
  BY <1>2, <1>3 DEF Asking, TaskOK

\* Whatever the model answers, an answer that is accepted is a whole one.
LEMMA StepAsks ==
  ASSUME IInv, NEW c \in Callers, L!Step(c)
  PROVE  Asking(c)
<1>1. task[c] \in Task /\ task[c].pc = "ask" /\ live' = live
  BY DEF IInv, Shared, L!Step, L!Rejected, L!Overloaded, L!Answered, L!At
<1>2. CASE L!Fail(c)
  BY <1>1, <1>2, FailAsks
<1>3. CASE L!Overloaded(c) /\ ~ L!Fail(c)
  <2> DEFINE t == [task[c] EXCEPT !.attempt = @ + 1]
  <2>1. task[c].attempt < Retries /\ task' = [task EXCEPT ![c] = t]
    BY <1>3 DEF L!Overloaded, L!Update
  <2>2. task[c].attempt + 1 \in 0 .. Retries
    BY <1>1, <2>1, Constant DEF Task
  <2>3. t \in Task /\ t.pc = "ask"
    BY <1>1, <2>2 DEF Task
  <2> HIDE DEF t
  <2> QED
    BY <1>1, <2>1, <2>3 DEF Asking, TaskOK
<1>4. CASE L!Answered(c) /\ ~ L!Fail(c)
  <2>1. PICK a \in Answers :
          \/ L!AskAgain(c, "nonempty") \/ L!AskAgain(c, "concise")
          \/ ~ L!Truncated(a) /\ L!Accept(c, a)
    BY <1>4 DEF L!Answered
  <2>2. CASE L!AskAgain(c, "nonempty") \/ L!AskAgain(c, "concise")
    BY <1>1, <2>2, AskAgainAsks DEF L!Stages
  <2>3. CASE ~ L!Truncated(a) /\ L!Accept(c, a)
    <3> DEFINE found == {f \in a.findings : L!Valid(f)}
    <3> DEFINE t == [task[c] EXCEPT !.pc = "ok", !.resp = a, !.result = found]
    <3>1. L!Decodes(a) /\ L!KnownStatus(a.status) /\ task' = [task EXCEPT ![c] = t]
      BY <1>4, <2>3 DEF L!Accept, L!Update
    <3>2. a \in L!Answer
      BY Constant
    <3>3. L!Whole(a)
      BY <2>3, <3>1 DEF L!Whole, L!Truncated
    <3>4. found \subseteq {"sound"} /\ found \in SUBSET L!FindingKinds
      BY <3>2 DEF L!Valid, L!Answer
    <3> HIDE DEF found
    <3>5. t \in Task /\ t.pc = "ok" /\ t.resp = a /\ t.result = found
      BY <1>1, <3>2, <3>4 DEF Task, L!PCs
    <3> HIDE DEF t
    <3> QED
      BY <1>1, <3>1, <3>3, <3>4, <3>5 DEF Asking, TaskOK
  <2> QED
    BY <2>1, <2>2, <2>3
<1> QED
  BY <1>2, <1>3, <1>4 DEF L!Step, L!Rejected

-----------------------------------------------------------------------------
(* Jobs *)

\* What a step does that is c's alone.
Own(c, m, t, j) ==
  /\ live' \in [Callers -> BOOLEAN]
  /\ jwt' \in 0 .. JwtTTL /\ tokens' \in [Installations -> 0 .. TokenTTL]
  /\ call' = [call EXCEPT ![c] = m]
  /\ task' = [task EXCEPT ![c] = t]
  /\ job' = [job EXCEPT ![c] = j]

\* Such a step keeps the invariant if it leaves c in order.
LEMMA OwnIInv ==
  ASSUME IInv, NEW c \in Callers, NEW m, NEW t, NEW j,
         Own(c, m, t, j), CallOK(m), TaskOK(t), JobOK(j, m)
  PROVE  IInv'
<1>1. /\ call \in [Callers -> G!Call] /\ task \in [Callers -> Task] /\ job \in [Callers -> Job]
      /\ m \in G!Call /\ t \in Task /\ j \in Job
  BY DEF IInv, Shared, CallOK, TaskOK, JobOK
<1>2. Shared'
  BY <1>1 DEF Own, Shared
<1>3. \A b \in Callers : CallOK(call'[b]) /\ TaskOK(task'[b]) /\ JobOK(job'[b], call'[b])
  BY <1>1 DEF IInv, Own
<1> QED
  BY <1>2, <1>3 DEF IInv

\* What c has is in order.
LEMMA Has ==
  ASSUME IInv, NEW c \in Callers
  PROVE  /\ live \in [Callers -> BOOLEAN] /\ jwt \in 0 .. JwtTTL
         /\ tokens \in [Installations -> 0 .. TokenTTL]
         /\ call \in [Callers -> G!Call] /\ task \in [Callers -> Task]
         /\ job \in [Callers -> Job]
         /\ CallOK(call[c]) /\ TaskOK(task[c]) /\ JobOK(job[c], call[c])
         /\ call = [call EXCEPT ![c] = call[c]]
         /\ task = [task EXCEPT ![c] = task[c]]
         /\ job = [job EXCEPT ![c] = job[c]]
<1>1. /\ live \in [Callers -> BOOLEAN] /\ jwt \in 0 .. JwtTTL
      /\ tokens \in [Installations -> 0 .. TokenTTL]
      /\ call \in [Callers -> G!Call] /\ task \in [Callers -> Task]
      /\ job \in [Callers -> Job]
  BY DEF IInv, Shared
<1>2. /\ call = [call EXCEPT ![c] = call[c]]
      /\ task = [task EXCEPT ![c] = task[c]]
      /\ job = [job EXCEPT ![c] = job[c]]
  BY <1>1
<1> QED
  BY <1>1, <1>2 DEF IInv

\* A job that is over.
LEMMA IdleJob ==
  /\ Idle \in Job /\ Idle.stage = "idle"
  /\ \A m : JobOK(Idle, m)
<1>1. L!NoAnswer \in L!Answer
  BY DEF L!NoAnswer, L!Answer, L!Bodies, L!Statuses
<1>2. Idle \in Job /\ Idle.stage = "idle"
  BY <1>1, Constant DEF Idle, Job, Stages
<1> QED
  BY <1>2 DEF JobOK

\* A call that begins.
LEMMA BeginCall ==
  ASSUME NEW i \in Installations, NEW kind \in G!Kinds
  PROVE  LET m == [G!Idle EXCEPT !.pc = "token", !.kind = kind, !.inst = i]
         IN  CallOK(m) /\ m.kind = kind
<1> DEFINE m == [G!Idle EXCEPT !.pc = "token", !.kind = kind, !.inst = i]
<1>1. G!Idle \in G!Call /\ G!Idle.made = 0 /\ G!Idle.blind = 0 /\ G!Idle.page = 0 /\ G!Idle.got = {}
  BY IdleCall DEF CallOK, G!Idle
<1>2. /\ m \in G!Call /\ m.pc = "token" /\ m.kind = kind /\ m.made = 0 /\ m.blind = 0
      /\ m.page = 0 /\ m.got = {}
  BY <1>1 DEF G!Call, G!PCs
<1> HIDE DEF m
<1>3. CallOK(m)
  BY <1>2 DEF CallOK, Credential, Effects, Pages, Unsent
<1> QED
  BY <1>2, <1>3 DEF m

\* The clients' steps.
LEMMA ClientIInv ==
  ASSUME IInv, NEW c \in Callers, GitHubStep(c) \/ LLMStep(c) \/ Expire(c)
  PROVE  IInv'
<1>1. CASE GitHubStep(c)
  <2>1. Calling(c) /\ UNCHANGED <<task, job>>
    BY <1>1, StepCalls DEF GitHubStep
  <2>2. PICK m \in G!Call : CallOK(m) /\ m.kind = call[c].kind /\ call' = [call EXCEPT ![c] = m]
    BY <2>1 DEF Calling
  <2>3. JobOK(job[c], m)
    BY <2>2, Has DEF JobOK
  <2>4. Own(c, m, task[c], job[c])
    BY <2>1, <2>2, Has DEF Own, Calling
  <2> QED
    BY <2>2, <2>3, <2>4, Has, OwnIInv
<1>2. CASE LLMStep(c)
  <2>1. Asking(c) /\ UNCHANGED <<jwt, tokens, call, job>>
    BY <1>2, StepAsks DEF LLMStep, github
  <2>2. PICK t \in Task : TaskOK(t) /\ task' = [task EXCEPT ![c] = t]
    BY <2>1 DEF Asking
  <2>3. Own(c, call[c], t, job[c])
    BY <2>1, <2>2, Has DEF Own, Asking
  <2> QED
    BY <2>2, <2>3, Has, OwnIInv
<1>3. CASE Expire(c)
  <2>1. live' = [live EXCEPT ![c] = FALSE] /\ UNCHANGED <<jwt, tokens, call, task, job>>
    BY <1>3 DEF Expire, github
  <2>2. Own(c, call[c], task[c], job[c])
    BY <2>1, Has DEF Own
  <2> QED
    BY <2>2, Has, OwnIInv
<1> QED
  BY <1>1, <1>2, <1>3

\* A job begins.
LEMMA StartIInv ==
  ASSUME IInv, NEW c \in Callers, NEW i \in Installations,
         NEW stage \in {"list", "say", "sync"}, NEW kind \in G!Kinds,
         stage = "list" => kind = "list", Start(c, i, stage, kind)
  PROVE  IInv'
<1> DEFINE m == [G!Idle EXCEPT !.pc = "token", !.kind = kind, !.inst = i]
<1> DEFINE j == [Idle EXCEPT !.stage = stage, !.inst = i]
<1>1. CallOK(m) /\ m.kind = kind
  BY BeginCall
<1>2. j \in Job /\ j.stage = stage
  BY IdleJob DEF Job, Stages
<1>3. /\ live' = [live EXCEPT ![c] = TRUE] /\ job' = [job EXCEPT ![c] = j]
      /\ call' = [call EXCEPT ![c] = m] /\ UNCHANGED <<jwt, tokens, task>>
  BY DEF Start, G!Begin
<1> HIDE DEF m, j
<1>4. JobOK(j, m)
  BY <1>1, <1>2 DEF JobOK
<1>5. Own(c, m, task[c], j)
  BY <1>3, Has DEF Own
<1> QED
  BY <1>1, <1>4, <1>5, Has, OwnIInv

\* A job ends, well or not.
LEMMA EndIInv ==
  ASSUME IInv, NEW c \in Callers, GitHubFails(c) \/ Done(c) \/ ReviewFails(c)
  PROVE  IInv'
<1>1. /\ live' = [live EXCEPT ![c] = FALSE] /\ job' = [job EXCEPT ![c] = Idle]
      /\ UNCHANGED <<jwt, tokens>>
  BY DEF GitHubFails, Done, ReviewFails, End, G!Return, L!Return, github
<1>2. CASE GitHubFails(c) \/ Done(c)
  <2>1. call' = [call EXCEPT ![c] = G!Idle] /\ UNCHANGED task
    BY <1>2 DEF GitHubFails, Done, G!Return
  <2>2. Own(c, G!Idle, task[c], Idle)
    BY <1>1, <2>1, Has DEF Own
  <2> QED
    BY <2>2, Has, IdleCall, IdleJob, OwnIInv
<1>3. CASE ReviewFails(c)
  <2>1. task' = [task EXCEPT ![c] = L!Idle] /\ UNCHANGED call
    BY <1>3 DEF ReviewFails, L!Return, github
  <2>2. Own(c, call[c], L!Idle, Idle)
    BY <1>1, <2>1, Has DEF Own
  <2> QED
    BY <2>2, Has, IdleTask, IdleJob, OwnIInv
<1> QED
  BY <1>2, <1>3

\* All pages are listed when the review begins.
LEMMA ListedIInv ==
  ASSUME IInv, NEW c \in Callers, Listed(c)
  PROVE  IInv'
<1> DEFINE j == [job[c] EXCEPT !.stage = "review", !.listed = call[c].got]
<1> DEFINE t == [L!Idle EXCEPT !.pc = "ask", !.kind = "review"]
<1>1. /\ job[c].stage = "list" /\ call[c].pc = "ok" /\ job[c] \in Job
      /\ JobOK(job[c], call[c]) /\ CallOK(call[c])
  BY Has DEF Listed, In, G!At
<1>2. call[c].got = 1 .. FullPages + 1
  BY <1>1 DEF JobOK, CallOK, Pages
<1>3. j \in Job /\ j.stage = "review" /\ j.listed = 1 .. FullPages + 1
  BY <1>1, <1>2 DEF Job, Stages
<1>4. TaskOK(t)
  BY IdleTask DEF L!Kinds
<1>5. /\ job' = [job EXCEPT ![c] = j] /\ task' = [task EXCEPT ![c] = t]
      /\ call' = [call EXCEPT ![c] = G!Idle] /\ UNCHANGED <<live, jwt, tokens>>
  BY DEF Listed, Advance, G!Return, L!Begin
<1> HIDE DEF j, t
<1>6. JobOK(j, G!Idle)
  BY <1>3 DEF JobOK
<1>7. Own(c, G!Idle, t, j)
  BY <1>5, Has DEF Own
<1> QED
  BY <1>4, <1>6, <1>7, IdleCall, OwnIInv

\* The job goes by the review's answer.
LEMMA ReviewedIInv ==
  ASSUME IInv, NEW c \in Callers, Reviewed(c)
  PROVE  IInv'
<1> DEFINE j == [job[c] EXCEPT !.stage = "compile", !.answer = task[c].resp, !.result = task[c].result]
<1> DEFINE t == [L!Idle EXCEPT !.pc = "ask", !.kind = "compile"]
<1>1. /\ job[c].stage = "review" /\ task[c].pc = "ok" /\ job[c] \in Job
      /\ JobOK(job[c], call[c]) /\ TaskOK(task[c])
  BY Has DEF Reviewed, In, L!At
<1>2. /\ L!Whole(task[c].resp) /\ task[c].result \subseteq {"sound"}
      /\ task[c].resp \in L!Answer /\ task[c].result \in SUBSET L!FindingKinds
  BY <1>1 DEF TaskOK, Task
<1>3. /\ j \in Job /\ j.stage = "compile" /\ j.listed = job[c].listed
      /\ j.answer = task[c].resp /\ j.result = task[c].result
  BY <1>1, <1>2 DEF Job, Stages
<1>4. TaskOK(t)
  BY IdleTask DEF L!Kinds
<1>5. /\ job' = [job EXCEPT ![c] = j] /\ task' = [task EXCEPT ![c] = t]
      /\ UNCHANGED <<live, jwt, tokens, call>>
  BY DEF Reviewed, Advance, github
<1> HIDE DEF j, t
<1>6. JobOK(j, call[c])
  BY <1>1, <1>2, <1>3 DEF JobOK
<1>7. Own(c, call[c], t, j)
  BY <1>5, Has DEF Own
<1> QED
  BY <1>4, <1>6, <1>7, Has, OwnIInv

\* The review that is posted goes by a whole answer, compiled or not.
LEMMA PostReviewIInv ==
  ASSUME IInv, NEW c \in Callers, PostReview(c)
  PROVE  IInv'
<1> DEFINE m == [G!Idle EXCEPT !.pc = "token", !.kind = "post", !.inst = job[c].inst]
<1>1. /\ job[c].stage = "compile" /\ job[c] \in Job
      /\ JobOK(job[c], call[c]) /\ TaskOK(task[c])
  BY Has DEF PostReview, In
<1>2. /\ Compiled(c) \in Job /\ Compiled(c).listed = job[c].listed
      /\ L!Whole(Compiled(c).answer) /\ Compiled(c).result \subseteq {"sound"}
  <2>1. CASE L!At(c, "ok")
    <3>1. /\ L!Whole(task[c].resp) /\ task[c].result \subseteq {"sound"}
          /\ task[c].resp \in L!Answer /\ task[c].result \in SUBSET L!FindingKinds
      BY <1>1, <2>1 DEF TaskOK, Task, L!At
    <3> DEFINE k == [job[c] EXCEPT !.answer = task[c].resp, !.result = task[c].result]
    <3>2. /\ k \in Job /\ k.listed = job[c].listed
          /\ k.answer = task[c].resp /\ k.result = task[c].result
      BY <1>1, <3>1 DEF Job
    <3>3. Compiled(c) = k
      BY <2>1 DEF Compiled
    <3> HIDE DEF k
    <3> QED
      BY <3>1, <3>2, <3>3
  <2>2. CASE ~ L!At(c, "ok")
    BY <1>1, <2>2 DEF Compiled, JobOK
  <2> QED
    BY <2>1, <2>2
<1> DEFINE j == [Compiled(c) EXCEPT !.stage = "post"]
<1>3. CallOK(m)
  BY <1>1, BeginCall DEF Job, G!Kinds
<1>4. /\ job' = [job EXCEPT ![c] = j] /\ task' = [task EXCEPT ![c] = L!Idle]
      /\ call' = [call EXCEPT ![c] = m] /\ UNCHANGED <<live, jwt, tokens>>
  BY DEF PostReview, Advance, G!Begin, L!Return
<1>5. /\ j \in Job /\ j.stage = "post" /\ j.listed = job[c].listed
      /\ j.answer = Compiled(c).answer /\ j.result = Compiled(c).result
  BY <1>2 DEF Job, Stages
<1> HIDE DEF j, m
<1>6. JobOK(j, m)
  BY <1>1, <1>2, <1>5 DEF JobOK
<1>7. Own(c, m, L!Idle, j)
  BY <1>4, Has DEF Own
<1> QED
  BY <1>3, <1>6, <1>7, IdleTask, OwnIInv

-----------------------------------------------------------------------------
(* The theorems *)

\* The invariant is inductive.
LEMMA Inductive ==
  /\ Init => IInv
  /\ IInv /\ [Next]_vars => IInv'
<1>1. ASSUME Init PROVE IInv
  <2>1. /\ live = [c \in Callers |-> FALSE] /\ jwt = 0 /\ tokens = [i \in Installations |-> 0]
        /\ call = [c \in Callers |-> G!Idle] /\ task = [c \in Callers |-> L!Idle]
        /\ job = [c \in Callers |-> Idle]
    BY <1>1 DEF Init, G!Init, L!Init
  <2>2. 0 \in 0 .. JwtTTL /\ 0 \in 0 .. TokenTTL
    BY Constant
  <2>3. Shared
    BY <2>1, <2>2, IdleCall, IdleTask, IdleJob DEF Shared, CallOK, TaskOK
  <2> QED
    BY <2>1, <2>3, IdleCall, IdleTask, IdleJob DEF IInv
<1>2. ASSUME IInv, Next PROVE IInv'
  <2>1. ASSUME NEW i \in Installations, NEW w \in Workers, StartReview(w, i) \/ StartPost(w, i)
        PROVE  IInv'
    BY <1>2, <2>1, StartIInv DEF StartReview, StartPost, Callers, G!Kinds
  <2>2. ASSUME NEW i \in Installations, NEW s \in Syncers, StartSync(s, i) PROVE IInv'
    BY <1>2, <2>2, StartIInv DEF StartSync, Callers, G!Kinds
  <2>3. ASSUME NEW c \in Callers, Expire(c) \/ CallerStep(c) PROVE IInv'
    BY <1>2, <2>3, ClientIInv, EndIInv, ListedIInv, ReviewedIInv, PostReviewIInv DEF CallerStep
  <2>4. CASE Tick
    <3>1. G!Tick /\ UNCHANGED <<live, task, job>>
      BY <2>4 DEF Tick, G!Tick
    <3>2. /\ jwt' \in 0 .. JwtTTL /\ tokens' \in [Installations -> 0 .. TokenTTL]
          /\ call' \in [Callers -> G!Call]
          /\ \A c \in Callers : CallOK(call'[c]) /\ call'[c].kind = call[c].kind
      BY <1>2, <3>1, TickCalls
    <3> QED
      BY <1>2, <3>1, <3>2 DEF IInv, Shared, JobOK
  <2> QED
    BY <1>2, <2>1, <2>2, <2>3, <2>4 DEF Next
<1>3. ASSUME IInv, UNCHANGED vars PROVE IInv'
  BY <1>3 DEF IInv, Shared, vars, github
<1> QED
  BY <1>1, <1>2, <1>3

\* No loop counts past its bound: retries of requests, prompts and reviews,
\* pages of listings, and the effects of one call.
THEOREM TypeCorrect == Spec => []TypeOK
<1>1. IInv => TypeOK
  BY DEF IInv, Shared, TypeOK, G!TypeOK, L!TypeOK, Task
<1> QED
  BY <1>1, Inductive, PTL DEF Spec

\* However many goroutines refresh a credential at once, in whatever order they
\* store theirs and however long their requests take: what a request is sent
\* with has not expired within the time set aside for it (auth.go:110-171).
THEOREM CredentialsOutlastCalls == Spec => []CredentialsLast
<1>1. IInv => CredentialsLast
  <2> SUFFICES ASSUME IInv, NEW c \in Callers
               PROVE  /\ call[c].pc = "send" /\ call[c].age <= Buffer => call[c].left > 0
                      /\ call[c].pc = "create" /\ call[c].age <= JwtWindow => call[c].left > 0
    BY DEF CredentialsLast, G!CredentialsLast
  <2>1. call[c] \in G!Call /\ Credential(call[c])
    BY DEF IInv, CallOK
  <2>2. call[c].left \in Nat /\ call[c].age \in Nat
    BY <2>1, Constant DEF G!Call
  <2> QED
    BY <2>1, <2>2, Constant DEF Credential
<1> QED
  BY <1>1, Inductive, PTL DEF Spec

\* A post is repeated only after GitHub itself answered with an error although
\* it took effect, so that one call makes at most one object more than GitHub
\* hid (client.go:430-467).
THEOREM OnlyHiddenRepeats == Spec => []RepeatsOnlyHidden
<1>1. IInv => RepeatsOnlyHidden
  BY DEF IInv, CallOK, Effects, RepeatsOnlyHidden, G!RepeatsOnlyHidden
<1> QED
  BY <1>1, Inductive, PTL DEF Spec

\* A review is posted only if all pages were listed and the answer it goes by
\* is whole, whatever was refused, cut short or repeated before.
THEOREM WholeAnswersPosted == Spec => []PostedOnWholeAnswers
<1>1. IInv => PostedOnWholeAnswers
  BY DEF IInv, JobOK, PostedOnWholeAnswers, In
<1> QED
  BY <1>1, Inductive, PTL DEF Spec

=============================================================================
