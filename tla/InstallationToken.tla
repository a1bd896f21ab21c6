------------------------- MODULE InstallationToken --------------------------
(***************************************************************************)
(* The access token that a GitHubAppInstallation caches and refreshes when *)
(* one of its API clients makes a request                                  *)
(* (github/entities/app_installation.py and github/api/raw_client.py).     *)
(*                                                                         *)
(* The handlers of an event share one installation and run concurrently.   *)
(* Nothing locks the token while a refresh is awaited: several handlers    *)
(* may refresh it at once and their answers may come in any order.         *)
(***************************************************************************)
EXTENDS Integers

CONSTANTS
  Client,     \* the handler tasks that make requests
  Lifetime,   \* how long a token is valid once GitHub has issued it
  Timeout,    \* how long the HTTP client waits for an answer
  MaxTime,    \* bound on the clock
  None        \* no token, no answer, no request

ASSUME LifetimeAssumption == Lifetime \in Nat
\* aiohttp waits for five minutes, a token is valid for an hour.
ASSUME TimeoutAssumption == Timeout \in Nat /\ Timeout <= Lifetime
ASSUME NoneAssumption == None \notin Nat

VARIABLES
  now,      \* the clock
  _token,   \* expires_at of the cached token
  stored,   \* when the cached token was stored
  client,   \* what each client is waiting for
  since,    \* when the refresh of each client began, 0 if it makes none
  answer,   \* expires_at of the token issued to a client that has not got it yet
  sent      \* the request that each client is waiting for

vars == <<now, _token, stored, client, since, answer, sent>>

Optional(S) == S \cup {None}
Request == [at : Nat, expires_at : Nat]

TypeOK ==
  /\ now \in Nat
  /\ _token \in Optional(Nat)
  /\ stored \in Nat
  /\ client \in [Client -> {"idle", "refreshing", "requesting"}]
  /\ since \in [Client -> Nat]
  /\ answer \in [Client -> Optional(Nat)]
  /\ sent \in [Client -> Optional(Request)]

Init ==
  /\ now = 0
  /\ _token = None
  /\ stored = 0
  /\ client = [c \in Client |-> "idle"]
  /\ since = [c \in Client |-> 0]
  /\ answer = [c \in Client |-> None]
  /\ sent = [c \in Client |-> None]

\* Mutant: a token expires the moment its time is reached.
ExpiredWhenReached(expires_at) == now >= expires_at

Expired(expires_at) == now > expires_at

\* Mutant: only the first request gets a token.
NeverExpires == _token # None

\* The condition of _refresh_api_token, negated.
Usable == IF _token = None THEN FALSE ELSE ~Expired(_token)

\* The token is checked and sent without a suspension in between.
Send(c, expires_at) ==
  /\ client' = [client EXCEPT ![c] = "requesting"]
  /\ sent' = [sent EXCEPT ![c] = [at |-> now, expires_at |-> expires_at]]

RequestWithToken(c) ==
  /\ client[c] = "idle"
  /\ Usable
  /\ Send(c, _token)
  /\ UNCHANGED <<now, _token, stored, since, answer>>

\* get_token posts to the access_tokens_url with a JWT made for this request.
BeginRefresh(c) ==
  /\ client[c] = "idle"
  /\ ~Usable
  /\ client' = [client EXCEPT ![c] = "refreshing"]
  /\ since' = [since EXCEPT ![c] = now]
  /\ UNCHANGED <<now, _token, stored, answer, sent>>

\* GitHub issues the token; the answer is on its way.
Issue(c) ==
  /\ client[c] = "refreshing"
  /\ answer[c] = None
  /\ answer' = [answer EXCEPT ![c] = now + Lifetime]
  /\ UNCHANGED <<now, _token, stored, client, since, sent>>

\* The answer is stored, over whatever another client has stored since, and
\* goes into the request that was waiting for it.
EndRefresh(c) ==
  /\ client[c] = "refreshing"
  /\ answer[c] # None
  /\ _token' = answer[c]
  /\ stored' = now
  /\ Send(c, answer[c])
  /\ since' = [since EXCEPT ![c] = 0]
  /\ answer' = [answer EXCEPT ![c] = None]
  /\ UNCHANGED now

\* GitHub refuses, the network fails, the answer is late or has unknown keys:
\* the exception goes to the handler, which may try again.
RefreshFails(c) ==
  /\ client[c] = "refreshing"
  /\ client' = [client EXCEPT ![c] = "idle"]
  /\ since' = [since EXCEPT ![c] = 0]
  /\ answer' = [answer EXCEPT ![c] = None]
  /\ UNCHANGED <<now, _token, stored, sent>>

RequestEnds(c) ==
  /\ client[c] = "requesting"
  /\ client' = [client EXCEPT ![c] = "idle"]
  /\ sent' = [sent EXCEPT ![c] = None]
  /\ UNCHANGED <<now, _token, stored, since, answer>>

\* Time does not pass the end of a request that times out.
Tick ==
  /\ now < MaxTime
  /\ \A c \in Client : client[c] = "refreshing" => now < since[c] + Timeout
  /\ now' = now + 1
  /\ UNCHANGED <<_token, stored, client, since, answer, sent>>

ClientStep(c) ==
  \/ RequestWithToken(c) \/ BeginRefresh(c)
  \/ Issue(c) \/ EndRefresh(c) \/ RefreshFails(c)
  \/ RequestEnds(c)

Next == (\E c \in Client : ClientStep(c)) \/ Tick

Spec == Init /\ [][Next]_vars

-----------------------------------------------------------------------------
(* Properties *)

\* No request leaves with a token that has expired, though the token may have
\* been replaced by an older one while the request was being prepared, or its
\* answer may have taken long.
SentFresh ==
  \A c \in Client : sent[c] # None => sent[c].at <= sent[c].expires_at

\* Clients that refresh at the same time do not keep each other busy: once a
\* token has been stored, a new refresh begins no earlier than a late answer
\* could have shortened the lifetime of the token.
RefreshedRarely ==
  [][\A c \in Client :
       client[c] = "idle" /\ client'[c] = "refreshing" /\ _token # None
         => now > stored + (Lifetime - Timeout)]_vars
=============================================================================
