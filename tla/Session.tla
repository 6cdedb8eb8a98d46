------------------------------ MODULE Session ------------------------------
(***************************************************************************)
(* Signing in: the CLI processes of one user, which share a credentials    *)
(* file (cli/internal/auth, cli/cmd), the server's OIDC validator with its *)
(* interceptor (backend/internal/auth, server, cmd/server), and, external, *)
(* the OIDC provider.                                                      *)
(*                                                                         *)
(* A step of a process is one HTTP exchange or one system call on the      *)
(* file.  Time passes in ticks, RefreshSkew of them in refreshSkew; the    *)
(* clocks agree.  A token carries the ticks it has left, -1 once expired.  *)
(***************************************************************************)
EXTENDS Integers, FiniteSets

CONSTANTS
  Proc,          \* the CLI processes
  RefreshToken,  \* refresh tokens, used again once no one holds them
  NoRefresh,     \* no refresh token was given
  NoToken,       \* no credential at hand: the request carries no Bearer token
  Absent, Empty, Garbled,  \* a credentials file with no credential to read
  RefreshSkew,   \* refreshSkew, in ticks
  IdLife,        \* lifetime of an ID token, in ticks
  DeviceLife,    \* lifetime of a device code, in ticks
  Setting        \* how server and provider may be set up, each with the bound taken:
                 \* which processes run, which log in, whether server and provider fail

URL == [scheme : STRING, host : STRING]

ASSUME SessionAssumption ==
  /\ {RefreshSkew, IdLife, DeviceLife} \subseteq Nat /\ RefreshSkew < IdLife
  /\ Setting \subseteq
       [config : [dev : BOOLEAN, client : BOOLEAN, issuer : URL, device : URL, token : URL],
        provider : [gives : {"none", "static", "rotating", "revoking"}, stated : BOOLEAN],
        scope : [active : SUBSET Proc, mayLogin : SUBSET Proc, faults : BOOLEAN]]

\* CachedToken, as far as it matters here.
Credential == [left : Int, refresh : RefreshToken \cup {NoRefresh}]

\* Bound: there is a refresh token for the file, for every process, and one more.
ASSUME TokenAssumption ==
  /\ NoRefresh \notin RefreshToken
  /\ \A none \in {NoToken, Absent, Empty, Garbled} : none \notin Credential
  /\ IsFiniteSet(Proc) /\ IsFiniteSet(RefreshToken)
  /\ Cardinality(RefreshToken) > Cardinality(Proc)

VARIABLES
  config,    \* the server's configuration
  provider,  \* the provider's treatment of refresh tokens
  scope,     \* the bound chosen
  up,        \* the provider answers
  status,    \* what the provider holds of each refresh token
  server,    \* "down", or where its validator is: "trying", "waiting", "open"
  keys,      \* the validator has fetched the provider's signing keys
  file,      \* the credentials file
  pc,        \* each process's next step
  login,     \* the process runs `auth login`, not a command that calls the server
  tok,       \* the credential it is to save or send
  age,       \* ticks since it chose the credential it sends
  wait,      \* ticks its device code has left
  linked     \* the file it has open is still the one at the path

world == <<config, provider, scope>>
idp == <<up, status>>
backend == <<server, keys>>
cli == <<file, pc, login, tok, age, wait, linked>>
vars == <<world, idp, backend, cli>>

NoCredential == {Absent, Empty, Garbled}

-----------------------------------------------------------------------------
(* The server.                                                             *)

NoURL == [scheme |-> "", host |-> ""]

HasIssuer == config.issuer # NoURL

\* Without dev mode both the issuer and the client id are required to start.
selectAuthMode == config.dev \/ (HasIssuer /\ config.client)

AuthEnabled == HasIssuer /\ config.client

Start ==
  /\ server = "down"
  /\ selectAuthMode
  /\ server' = IF config.dev THEN "open" ELSE "trying"
  /\ keys' = FALSE
  /\ UNCHANGED <<world, idp, cli>>

Stop ==
  /\ scope.faults
  /\ server # "down"
  /\ server' = "down"
  /\ UNCHANGED <<world, idp, keys, cli>>

MutDiscover ==
  /\ server = "trying"
  /\ server' = IF up THEN "open" ELSE "stopped"
  /\ UNCHANGED <<world, idp, keys, cli>>

\* One attempt of the background loop: NewValidator fetches the discovery document.
Discover ==
  /\ server = "trying"
  /\ server' = IF up THEN "open" ELSE "waiting"
  /\ UNCHANGED <<world, idp, keys, cli>>

Retry ==
  /\ server = "waiting"
  /\ server' = "trying"
  /\ UNCHANGED <<world, idp, keys, cli>>

Ready == server = "open"

Expired(t) == t.left < 0

MutValidate(t) ==
  CASE ~Ready -> "not_ready"
    [] Ready /\ ~keys /\ ~up -> "invalid"
    [] OTHER -> "valid"

\* LazyValidator.Validate: the token's claims are checked, then its signature.
Validate(t) ==
  CASE ~Ready -> "not_ready"
    [] Ready /\ Expired(t) -> "invalid"
    [] Ready /\ ~Expired(t) /\ ~keys /\ ~up -> "invalid"
    [] OTHER -> "valid"

\* What the interceptor makes of a request that carries t.
Intercept(t) ==
  CASE config.dev -> "served"
    [] ~config.dev /\ t = NoToken -> "unauthenticated"
    [] OTHER -> CASE Validate(t) = "not_ready" -> "unavailable"
                  [] Validate(t) = "invalid" -> "unauthenticated"
                  [] Validate(t) = "valid" -> "served"

-----------------------------------------------------------------------------
(* The provider.                                                           *)

HasToken == file \notin NoCredential

Held == (IF HasToken THEN {file.refresh} ELSE {})
        \cup {tok[p].refresh : p \in {q \in Proc : tok[q] # NoToken}}

\* The provider's record becomes s; a token no one holds any more is unused.
Sessions(s) == status' = [r \in RefreshToken |-> IF r \in Held' THEN s[r] ELSE "unused"]

\* A refresh token for p: its own name may serve again if no one else holds it.
NewFor(p) ==
  CHOOSE r \in RefreshToken :
    /\ HasToken => file.refresh # r
    /\ \A q \in Proc \ {p} : tok[q] # NoToken => tok[q].refresh # r

Outage ==
  /\ scope.faults
  /\ up' = ~up
  /\ UNCHANGED <<world, status, backend, cli>>

\* A session ends: its lifetime is over, as the provider may have stated, or it
\* is revoked.
EndSession(r) ==
  /\ status[r] = "live"
  /\ \E end \in {"ended"} \cup (IF provider.stated THEN {"overdue"} ELSE {}) :
       status' = [status EXCEPT ![r] = end]
  /\ UNCHANGED <<world, up, backend, cli>>

\* A login: a new session.  A renewal: the provider may rotate the refresh token,
\* and revoke the old one.
Rotates == provider.gives \in {"rotating", "revoking"}

Issued(p) == [left |-> IdLife, refresh |-> IF provider.gives = "none" THEN NoRefresh ELSE NewFor(p)]

Revoke(r) == IF provider.gives = "revoking" THEN [status EXCEPT ![r] = "ended"] ELSE status

Live(s, r) == [x \in RefreshToken |-> IF x = r THEN "live" ELSE s[x]]

Granted(p) == Sessions(Live(status, Issued(p).refresh))

RenewedFor(p) ==
  LET revoked == Revoke(tok[p].refresh)
  IN Sessions(IF Rotates THEN Live(revoked, NewFor(p)) ELSE revoked)

Older(n) == IF n < 0 THEN n ELSE n - 1

Aged(t) == [t EXCEPT !.left = Older(t.left)]

\* Bound: requests later than this are all the same.
Bounded(n) == IF n > RefreshSkew THEN RefreshSkew + 1 ELSE n

\* Time passes for every copy of a token, every device code and every request.
Tick ==
  /\ file' = IF HasToken THEN Aged(file) ELSE file
  /\ tok' = [p \in Proc |-> IF tok[p] = NoToken THEN NoToken ELSE Aged(tok[p])]
  /\ wait' = [p \in Proc |-> Older(wait[p])]
  /\ age' = [p \in Proc |-> IF pc[p] \in {"save", "write", "send"} /\ ~login[p] /\ tok[p] # NoToken
                                THEN Bounded(age[p] + 1) ELSE age[p]]
  /\ UNCHANGED <<world, idp, backend, pc, login, linked>>

-----------------------------------------------------------------------------
(* The CLI.                                                                *)

\* The process reaches step `to` with token t.
Go(p, to, t) ==
  /\ pc' = [pc EXCEPT ![p] = to]
  /\ tok' = [tok EXCEPT ![p] = t]
  /\ age' = [age EXCEPT ![p] = IF t = tok[p] THEN age[p] ELSE 0]

\* The process has no more to do: it ends, or first prints the server's answer.
Done(p, last) ==
  /\ Go(p, last, NoToken)
  /\ login' = [login EXCEPT ![p] = FALSE]
  /\ wait' = [wait EXCEPT ![p] = -1]
  /\ linked' = [linked EXCEPT ![p] = FALSE]

Outcomes == {"served", "unauthenticated", "unavailable"}

Exit(p) ==
  /\ pc[p] \in Outcomes
  /\ pc' = [pc EXCEPT ![p] = "idle"]
  /\ UNCHANGED <<world, idp, backend, file, login, tok, age, wait, linked>>

validateIssuerURL(u) ==
  \/ u.scheme = "http" /\ u.host = "localhost"
  \/ u.scheme = "https" /\ u.host # "internal"

validateEndpointOrigin(endpoint, issuer) == endpoint = issuer

StartLogin(p) ==
  /\ pc[p] = "idle"
  /\ p \in scope.mayLogin
  /\ pc' = [pc EXCEPT ![p] = "config"]
  /\ login' = [login EXCEPT ![p] = TRUE]
  /\ UNCHANGED <<world, idp, backend, file, tok, age, wait, linked>>

\* An exchange with the server or the provider fails: the command ends.
Unreachable(p) ==
  /\ pc[p] \in {"config", "discovery", "device", "poll"}
  /\ Done(p, "idle")
  /\ UNCHANGED <<world, idp, backend, file>>

fetchAuthConfig(p) ==
  /\ pc[p] = "config"
  /\ server # "down"
  /\ IF AuthEnabled /\ validateIssuerURL(config.issuer)
       THEN Go(p, "discovery", NoToken) /\ UNCHANGED <<login, wait, linked>>
       ELSE Done(p, "idle")
  /\ UNCHANGED <<world, idp, backend, file>>

fetchOIDCDiscovery(p) ==
  /\ pc[p] = "discovery"
  /\ up
  /\ IF \A e \in {config.device, config.token} : validateEndpointOrigin(e, config.issuer)
       THEN Go(p, "device", NoToken) /\ UNCHANGED <<login, wait, linked>>
       ELSE Done(p, "idle")
  /\ UNCHANGED <<world, idp, backend, file>>

requestDeviceCode(p) ==
  /\ pc[p] = "device"
  /\ up
  /\ Go(p, "wait", NoToken)
  /\ wait' = [wait EXCEPT ![p] = DeviceLife]
  /\ UNCHANGED <<world, idp, backend, file, login, linked>>

MutTimedOut(p) == FALSE

TimedOut(p) == wait[p] < 0

\* The head of PollForToken's loop: the deadline, then the pause.
Pause(p) ==
  /\ pc[p] = "wait"
  /\ IF TimedOut(p) THEN Done(p, "idle") ELSE Go(p, "poll", NoToken) /\ UNCHANGED <<login, wait, linked>>
  /\ UNCHANGED <<world, idp, backend, file>>

\* authorization_pending and slow_down go round the loop.
PollPending(p) ==
  /\ pc[p] = "poll"
  /\ up
  /\ Go(p, "wait", NoToken)
  /\ UNCHANGED <<world, idp, backend, file, login, wait, linked>>

\* expired_token, access_denied and any other error end it.
PollRefused(p) ==
  /\ pc[p] = "poll"
  /\ up
  /\ Done(p, "idle")
  /\ UNCHANGED <<world, idp, backend, file>>

PollGranted(p) ==
  /\ pc[p] = "poll"
  /\ up
  /\ wait[p] >= 0
  /\ Go(p, "save", Issued(p))
  /\ wait' = [wait EXCEPT ![p] = -1]
  /\ UNCHANGED <<world, up, backend, file, login, linked>>
  /\ Granted(p)

\* SaveToken, first half: WriteFile opens the file and truncates it.
Open(p) ==
  /\ pc[p] = "save"
  /\ file' = Empty
  /\ linked' = [linked EXCEPT ![p] = TRUE]
  /\ pc' = [pc EXCEPT ![p] = "write"]
  /\ UNCHANGED <<world, up, backend, login, tok, age, wait>>
  /\ Sessions(status)

\* What follows SaveToken: login has ended, any other command calls the server.
Saved(p, t) ==
  IF login[p] THEN Done(p, "idle")
              ELSE Go(p, "send", t) /\ linked' = [linked EXCEPT ![p] = FALSE] /\ UNCHANGED <<login, wait>>

\* Second half: the bytes go to the file it opened.  If another process has
\* written there meanwhile, a longer text leaves its tail behind.
Write(p) ==
  /\ pc[p] = "write"
  /\ file' \in IF ~linked[p] THEN {file}
               ELSE IF file = Empty THEN {tok[p]} ELSE {tok[p], Garbled}
  /\ Saved(p, tok[p])
  /\ UNCHANGED <<world, up, backend>>
  /\ Sessions(status)

SaveFails(p) ==
  /\ pc[p] \in {"save", "write"}
  /\ Saved(p, NoToken)
  /\ UNCHANGED <<world, up, backend, file>>
  /\ Sessions(status)

\* DeleteToken: a process that has the file open goes on writing to no name.
Logout(p) ==
  /\ pc[p] = "idle"
  /\ p \in scope.active
  /\ file' = Absent
  /\ linked' = [q \in Proc |-> FALSE]
  /\ UNCHANGED <<world, up, backend, pc, login, tok, age, wait>>
  /\ Sessions(status)

MutLongLived(t) == ~Expired(t)

\* Long enough left to be used without a renewal.
LongLived(t) == t.left > RefreshSkew

CanRefresh(t) == t.refresh # NoRefresh /\ status[t.refresh] # "overdue"

\* LoadAndRefresh, up to the renewal: LoadTokenRaw and the tests on what it returns.
LoadToken(p) ==
  /\ pc[p] = "idle"
  /\ p \in scope.active
  /\ \/ HasToken /\ LongLived(file) /\ Go(p, "send", file)
     \/ HasToken /\ ~LongLived(file) /\ CanRefresh(file) /\ Go(p, "refresh", file)
     \/ HasToken /\ ~LongLived(file) /\ ~CanRefresh(file) /\ Go(p, "send", NoToken)
     \/ ~HasToken /\ Go(p, "send", NoToken)
  /\ UNCHANGED <<world, idp, backend, file, login, wait, linked>>

MutRefreshed(p, t) == [left |-> IdLife, refresh |-> t.refresh]

\* The credential RefreshIDToken builds: a rotated refresh token replaces the
\* old one, which is kept when the answer has none.
Refreshed(p, t) == [left |-> IdLife, refresh |-> IF Rotates THEN NewFor(p) ELSE t.refresh]

RefreshIDToken(p) ==
  /\ pc[p] = "refresh"
  /\ up
  /\ status[tok[p].refresh] = "live"
  /\ Go(p, "save", Refreshed(p, tok[p]))
  /\ UNCHANGED <<world, up, backend, file, login, wait, linked>>
  /\ RenewedFor(p)

\* The provider rejects the grant, or cannot be reached: either way getClientCtx
\* goes on without a token.
RefreshFails(p) ==
  /\ pc[p] = "refresh"
  /\ Go(p, "send", NoToken)
  /\ UNCHANGED <<world, up, backend, file, login, wait, linked>>
  /\ Sessions(status)

\* The provider renews, and its answer is lost.
ReplyLost(p) ==
  /\ pc[p] = "refresh"
  /\ up
  /\ status[tok[p].refresh] = "live"
  /\ Go(p, "send", NoToken)
  /\ UNCHANGED <<world, up, backend, file, login, wait, linked>>
  /\ RenewedFor(p)

\* The request reaches the server, and what the interceptor says is printed.
Request(p) ==
  /\ pc[p] = "send"
  /\ IF server = "down" THEN Done(p, "idle") /\ UNCHANGED keys
     ELSE /\ Done(p, Intercept(tok[p]))
          /\ keys' = (keys \/ (~config.dev /\ Intercept(tok[p]) = "served"))
  /\ UNCHANGED <<world, up, server, file>>
  /\ Sessions(status)

Kill(p) ==
  /\ pc[p] \notin {"idle"} \cup Outcomes
  /\ Done(p, "idle")
  /\ UNCHANGED <<world, up, backend, file>>
  /\ Sessions(status)

-----------------------------------------------------------------------------
Init ==
  /\ \E s \in Setting : config = s.config /\ provider = s.provider /\ scope = s.scope
  /\ up \in BOOLEAN
  /\ status = [r \in RefreshToken |-> "unused"]
  /\ IF scope.faults THEN server = "down" ELSE server = "open" /\ up
  /\ keys = FALSE
  /\ file = Absent
  /\ pc = [p \in Proc |-> "idle"]
  /\ login = [p \in Proc |-> FALSE]
  /\ tok = [p \in Proc |-> NoToken]
  /\ age = [p \in Proc |-> 0]
  /\ wait = [p \in Proc |-> -1]
  /\ linked = [p \in Proc |-> FALSE]

\* What a process does by itself once it has been started.
Step(p) ==
  \/ fetchAuthConfig(p) \/ fetchOIDCDiscovery(p) \/ requestDeviceCode(p) \/ Unreachable(p)
  \/ Pause(p) \/ PollPending(p) \/ PollRefused(p) \/ PollGranted(p)
  \/ Open(p) \/ Write(p) \/ SaveFails(p)
  \/ RefreshIDToken(p) \/ RefreshFails(p) \/ ReplyLost(p)
  \/ Request(p) \/ Exit(p)

Next ==
  \/ Start \/ Stop \/ Discover \/ Retry
  \/ Outage \/ Tick
  \/ \E r \in RefreshToken : EndSession(r)
  \/ \E p \in Proc : StartLogin(p) \/ LoadToken(p) \/ Logout(p) \/ Step(p) \/ Kill(p)

Spec == Init /\ [][Next]_vars

\* Time passes, the discovery loop runs, and a started process runs on: no step
\* of it blocks for good (the HTTP client has a timeout).  Nothing is assumed
\* of the provider, the user, or whoever starts and stops things.
FairSpec ==
  /\ Spec
  /\ WF_vars(Tick) /\ WF_vars(Discover \/ Retry)
  /\ \A p \in Proc : WF_vars(Step(p))

-----------------------------------------------------------------------------
(* What every step must respect; MCSession has what must come in the end.  *)

(* auth/readiness.go, interceptor.go: whatever the order of restarts,      *)
(* outages and retried discovery, a server that is not in dev mode serves  *)
(* a request only when it carries an unexpired token of the provider, and  *)
(* only after that server itself has reached the provider.                 *)
FailClosed ==
  [][\A p \in Proc : pc[p] = "send" /\ pc'[p] = "served" /\ ~config.dev =>
       /\ server = "open"
       /\ tok[p] # NoToken
       /\ tok[p].left >= 0]_vars

(* auth/refresh.go, refreshSkew: a credential that a command took from the *)
(* file or renewed is still accepted if the request arrives within the     *)
(* skew; the one exception is a server that has never had the signing keys *)
(* and cannot fetch them.                                                  *)
FreshEnough ==
  [][\A p \in Proc :
       pc[p] = "send" /\ tok[p] # NoToken /\ age[p] <= RefreshSkew /\ pc'[p] = "unauthenticated"
         => ~keys /\ ~up]_vars

Alive(t) == t.refresh # NoRefresh /\ status[t.refresh] = "live"

\* The credentials file can be renewed, or a process is about to make it so.
Usable ==
  \/ HasToken /\ Alive(file)
  \/ \E p \in Proc : /\ pc[p] = "save" \/ (pc[p] = "write" /\ linked[p])
                     /\ Alive(tok[p])

(* auth/credentials.go, refresh.go: a login is lost only by logging out,   *)
(* by the provider ending the session, by a process that is killed, cannot *)
(* save or misses the provider's answer, by one that saves a credential    *)
(* whose session has ended meanwhile, or by two that write the file at the *)
(* same time.  Renewing, alone or against other processes, never loses it. *)
CredentialKept ==
  [][Usable /\ ~Usable' =>
       \/ \E r \in RefreshToken : EndSession(r)
       \/ file' = Garbled
       \/ \E p \in Proc : \/ Logout(p) \/ Kill(p) \/ SaveFails(p) \/ ReplyLost(p)
                          \/ (Open(p) \/ Write(p)) /\ ~Alive(tok[p])]_vars

=============================================================================
