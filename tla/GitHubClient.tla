----------------------------- MODULE GitHubClient -----------------------------
(***************************************************************************)
(* The calls that goroutines make to GitHub through one shared client      *)
(* (internal/githubx): every call takes an installation token, from the    *)
(* cache if the token there lasts long enough, or else from GitHub against *)
(* a JWT of the app, and then sends its requests through doWithRetry.      *)
(* Neither lock is held while a request is under way.                      *)
(*                                                                         *)
(* Times are what is left of a life, so the clock needs no bound.  The     *)
(* wait before a retry is part of the time between two requests: it ends   *)
(* early only when the context does, and then so does the call.            *)
(***************************************************************************)
EXTENDS Naturals

CONSTANTS
  Callers,       \* the goroutines
  Installations, \* the installations of the app
  MaxRetries,    \* retries of a request (maxRetries)
  FullPages,     \* full pages of what a listing lists; a short one follows
  JwtTTL, JwtWindow,  \* life of a JWT, and how much of it must be left
  TokenTTL, Buffer    \* the same of an installation token

GitHubClientAssumption ==
  /\ Installations # {}
  /\ MaxRetries \in Nat /\ FullPages \in Nat
  /\ JwtTTL \in Nat /\ JwtWindow \in 0 .. JwtTTL - 1
  /\ TokenTTL \in Nat /\ Buffer \in 0 .. TokenTTL - 1

VARIABLES
  live,    \* live[c]: whether the context of c has not ended
  jwt,     \* life left of the cached JWT, 0 without one
  tokens,  \* tokens[i]: the same of the cached token of installation i
  call     \* call[c]: local variables of the call c is making

vars == <<live, jwt, tokens, call>>

PCs == {"idle", "token", "jwt", "create", "store", "send", "ok", "err"}
Kinds == {"list", "post"}

\* left is the life left of the credential the call uses, age the time since
\* it got hold of it, counted to LongAgo.  made and blind count the effects of
\* its requests, and those among them that GitHub answered with an error that
\* is retried.
LongAgo == IF Buffer < JwtWindow THEN JwtWindow + 1 ELSE Buffer + 1

Call == [pc : PCs, kind : Kinds, inst : Installations,
         left : 0 .. JwtTTL + TokenTTL, age : 0 .. LongAgo,
         attempt : 0 .. MaxRetries, page : 0 .. FullPages + 1,
         got : SUBSET (1 .. FullPages + 1),
         made : 0 .. MaxRetries + 1, blind : 0 .. MaxRetries + 1]

Idle == [pc |-> "idle", kind |-> "list", inst |-> CHOOSE i \in Installations : TRUE,
         left |-> 0, age |-> 0, attempt |-> 0, page |-> 0, got |-> {}, made |-> 0, blind |-> 0]

Init ==
  /\ live = [c \in Callers |-> FALSE]
  /\ jwt = 0
  /\ tokens = [i \in Installations |-> 0]
  /\ call = [c \in Callers |-> Idle]

At(c, pc) == call[c].pc = pc
Update(c, becomes) == call' = [call EXCEPT ![c] = becomes]

\* time.Until(expiry) > least
Lasts(left, least) == left > least

Later(left) == IF left > 0 THEN left - 1 ELSE 0

\* The call returns what came after it; its credential, attempts and page go out of scope.
Leave(c, pc, after) ==
  Update(c, [after EXCEPT !.pc = pc, !.left = 0, !.age = 0, !.attempt = 0, !.page = 0])

\* Time passes for everything at once.
Tick ==
  /\ jwt' = Later(jwt)
  /\ tokens' = [i \in Installations |-> Later(tokens[i])]
  /\ call' = [c \in Callers |->
                IF call[c].pc \in {"create", "store", "send"}
                  THEN [call[c] EXCEPT !.left = Later(@),
                                       !.age = IF @ < LongAgo THEN @ + 1 ELSE @]
                  ELSE call[c]]
  /\ UNCHANGED live

-----------------------------------------------------------------------------
(* The call, its context and its installation come from elsewhere *)

\* WithInstallation binds the job's installation to its context.
Begin(c, i, kind) ==
  /\ At(c, "idle")
  /\ call' = [call EXCEPT ![c] = [Idle EXCEPT !.pc = "token", !.kind = kind, !.inst = i]]
  /\ UNCHANGED <<jwt, tokens>>

Return(c) ==
  /\ call[c].pc \in {"ok", "err"}
  /\ call' = [call EXCEPT ![c] = Idle]
  /\ UNCHANGED <<jwt, tokens>>

-----------------------------------------------------------------------------
(* InstallationToken *)

\* Mutant: a token that has not expired will do.
MutLastsLongEnough(i) == tokens[i] > 0

\* The cached token of i outlasts installTokenBuffer.
LastsLongEnough(i) == Lasts(tokens[i], Buffer)

\* The check, under the lock.
CheckToken(c) ==
  /\ At(c, "token")
  /\ LET i == call[c].inst IN
     Update(c, IF LastsLongEnough(i)
                 THEN [call[c] EXCEPT !.pc = "send", !.left = tokens[i]]
                 ELSE [call[c] EXCEPT !.pc = "jwt"])
  /\ UNCHANGED <<live, jwt, tokens>>

\* appJWT, under a lock of its own.
SignJwt(c) ==
  /\ At(c, "jwt")
  /\ jwt' = IF Lasts(jwt, JwtWindow) THEN jwt ELSE JwtTTL
  /\ Update(c, [call[c] EXCEPT !.pc = "create", !.left = jwt'])
  /\ UNCHANGED <<live, tokens>>

\* GitHub takes a request only with a credential that has not expired.
Served(c) == live[c] /\ call[c].left > 0

\* CreateInstallationToken returns a token with its expiry.
CreateToken(c) ==
  /\ At(c, "create") /\ Served(c)
  /\ Update(c, [call[c] EXCEPT !.pc = "store", !.left = TokenTTL, !.age = 0, !.attempt = 0])
  /\ UNCHANGED <<live, jwt, tokens>>

\* The token is cached; whoever comes last wins.
StoreToken(c) ==
  /\ At(c, "store")
  /\ tokens' = [tokens EXCEPT ![call[c].inst] = call[c].left]
  /\ Update(c, [call[c] EXCEPT !.pc = "send"])
  /\ UNCHANGED <<live, jwt>>

-----------------------------------------------------------------------------
(* doWithRetry, around CreateInstallationToken and around every request *)

\* Mutant: one retry too many.
MutMayRetry(c) == call[c].attempt <= MaxRetries

\* attempt <= maxRetries in the next turn of the loop.
MayRetry(c) == call[c].attempt < MaxRetries

\* A retryable answer: 403, 429 or 5xx, or a rate limit.
Again(c, after) ==
  IF MayRetry(c)
    THEN Update(c, [after EXCEPT !.attempt = @ + 1])
    ELSE Leave(c, "err", after)

\* Such an answer without an effect.
Throttled(c) ==
  /\ call[c].pc \in {"create", "send"} /\ live[c]
  /\ Again(c, call[c])
  /\ UNCHANGED <<live, jwt, tokens>>

\* Such an answer although the post took place.
HiddenPost(c) ==
  /\ At(c, "send") /\ Served(c) /\ call[c].kind = "post"
  /\ Again(c, [call[c] EXCEPT !.made = @ + 1, !.blind = @ + 1])
  /\ UNCHANGED <<live, jwt, tokens>>

\* Mutant: a request without an answer is repeated.
MutGivesUp(c, after) == Again(c, after)

\* An answer that is not retried: 401 for an expired credential, any other
\* status, or none at all because the connection broke or the context ended.
GivesUp(c, after) == Leave(c, "err", after)

Refused(c) ==
  /\ call[c].pc \in {"create", "send"}
  /\ GivesUp(c, call[c])
  /\ UNCHANGED <<live, jwt, tokens>>

\* The post took place, but no answer arrives.
LostPost(c) ==
  /\ At(c, "send") /\ Served(c) /\ call[c].kind = "post"
  /\ GivesUp(c, [call[c] EXCEPT !.made = @ + 1])
  /\ UNCHANGED <<live, jwt, tokens>>

Post(c) ==
  /\ At(c, "send") /\ Served(c) /\ call[c].kind = "post"
  /\ Leave(c, "ok", [call[c] EXCEPT !.made = @ + 1])
  /\ UNCHANGED <<live, jwt, tokens>>

-----------------------------------------------------------------------------
(* The loops of ListPRFiles and ListInstallationRepos *)

\* GitHub counts from 1 and takes page 0 for the first.
PageServed(page) == IF page = 0 THEN 1 ELSE page

\* The page is shorter than PerPage.
IsLast(page) == PageServed(page) > FullPages

ListPage(c) ==
  /\ At(c, "send") /\ Served(c) /\ call[c].kind = "list"
  /\ LET page  == call[c].page
         after == [call[c] EXCEPT !.got = @ \cup {PageServed(page)}] IN
     IF IsLast(page)
       THEN Leave(c, "ok", after)
       ELSE Update(c, [after EXCEPT !.page = page + 1, !.attempt = 0])
  /\ UNCHANGED <<live, jwt, tokens>>

-----------------------------------------------------------------------------

Step(c) ==
  \/ CheckToken(c) \/ SignJwt(c) \/ CreateToken(c) \/ StoreToken(c)
  \/ Throttled(c) \/ HiddenPost(c) \/ Refused(c) \/ LostPost(c)
  \/ Post(c) \/ ListPage(c)

-----------------------------------------------------------------------------
(* Properties *)

\* No variable leaves its type, no loop counts past its bound.
TypeOK ==
  /\ live \in [Callers -> BOOLEAN]
  /\ jwt \in 0 .. JwtTTL
  /\ tokens \in [Installations -> 0 .. TokenTTL]
  /\ call \in [Callers -> Call]

\* However many goroutines refresh a token or the JWT at the same time, and in
\* whatever order they store theirs: nobody sends a request with a credential
\* that has expired within the time that installTokenBuffer, or
\* jwtRefreshWindow, sets aside for retries and further pages (auth.go:110-171).
CredentialsLast ==
  \A c \in Callers :
    /\ call[c].pc = "send" /\ call[c].age <= Buffer => call[c].left > 0
    /\ call[c].pc = "create" /\ call[c].age <= JwtWindow => call[c].left > 0

\* A call creates a second object on GitHub only after GitHub answered with an
\* error to a request that took effect; a broken connection never leads to a
\* second one (client.go:449-451, 457-467).
RepeatsOnlyHidden == \A c \in Callers : call[c].made <= 1 + call[c].blind

=============================================================================
