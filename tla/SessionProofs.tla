---------------------------- MODULE SessionProofs ----------------------------
(***************************************************************************)
(* Theorems about Session, for every set of processes and refresh tokens,  *)
(* every skew and lifetime, and every configuration and provider.          *)
(***************************************************************************)
EXTENDS Session, FiniteSetTheorems, TLAPS

-----------------------------------------------------------------------------
(* The inductive invariant.                                                *)

IsToken(t) == t = [left |-> t.left, refresh |-> t.refresh] /\ t.left \in Int

Functions ==
  /\ pc = [p \in Proc |-> pc[p]]
  /\ tok = [p \in Proc |-> tok[p]]
  /\ login \in [Proc -> BOOLEAN]
  /\ age \in [Proc -> Nat]

FileIsToken == HasToken => IsToken(file)

HeldAreTokens ==
  \A p \in Proc : tok[p] # NoToken \/ pc[p] \in {"save", "write"} => IsToken(tok[p])

\* A login ends where other commands begin to call the server.
LoginsDoNotSend ==
  \A p \in Proc : pc[p] \in {"idle", "refresh", "send"} \cup Outcomes => ~login[p]

\* A credential a command has chosen outlives the skew from then on.
ChosenAreFresh ==
  \A p \in Proc :
    /\ pc[p] \in {"save", "write", "send"} /\ ~login[p]
    /\ tok[p] # NoToken /\ age[p] <= RefreshSkew
    => tok[p].left > RefreshSkew - age[p]

IInv == Functions /\ FileIsToken /\ HeldAreTokens /\ LoginsDoNotSend /\ ChosenAreFresh

-----------------------------------------------------------------------------
(* What the interceptor answers.                                           *)

\* Every request is answered in one of three ways.
LEMMA InterceptAnswers ==
  ASSUME NEW t PROVE Intercept(t) \in Outcomes
<1>1. Validate(t) \in {"not_ready", "invalid", "valid"}
  BY DEF Validate
<1> QED
  BY <1>1 DEF Intercept, Outcomes

\* Outside dev mode only a credential that has not expired gets through, and
\* only a server that is open lets it.
LEMMA ServedIsValid ==
  ASSUME NEW t, Intercept(t) = "served", ~config.dev
  PROVE  Ready /\ t # NoToken /\ ~Expired(t)
<1>1. t # NoToken
  BY DEF Intercept
<1>2. Validate(t) = "valid"
  <2>1. Validate(t) \in {"not_ready", "invalid", "valid"}
    BY DEF Validate
  <2> QED
    BY <1>1, <2>1 DEF Intercept
<1> QED
  BY <1>1, <1>2 DEF Validate

\* A credential that has not expired is refused only for want of keys.
LEMMA RefusedWithoutKeys ==
  ASSUME NEW t, t # NoToken, ~Expired(t), Intercept(t) = "unauthenticated"
  PROVE  ~keys /\ ~up
<1>1. ~config.dev
  BY DEF Intercept
<1>2. Validate(t) = "invalid"
  <2>1. Validate(t) \in {"not_ready", "invalid", "valid"}
    BY DEF Validate
  <2> QED
    BY <1>1, <2>1 DEF Intercept
<1> QED
  BY <1>2 DEF Validate

-----------------------------------------------------------------------------
(* Steps of a process keep the invariant.                                  *)

\* A process goes on with a credential that is none, fresh, or the one it had.
LEMMA GoKeeps ==
  ASSUME IInv, NEW p \in Proc, NEW to, NEW t,
         Go(p, to, t), UNCHANGED login, FileIsToken',
         t # NoToken \/ to \in {"save", "write"} => IsToken(t),
         to \in {"idle", "refresh", "send"} \cup Outcomes => ~login[p],
         to \in {"save", "write", "send"} /\ ~login[p] /\ t # NoToken =>
           t.left > RefreshSkew \/ (t = tok[p] /\ pc[p] \in {"save", "write", "send"})
  PROVE  IInv'
<1>1. Functions'
  BY DEF IInv, Functions, Go
<1>2. HeldAreTokens'
  BY DEF IInv, Functions, HeldAreTokens, Go, IsToken
<1>3. LoginsDoNotSend'
  BY DEF IInv, Functions, LoginsDoNotSend, Go, Outcomes
<1>4. ChosenAreFresh'
  <2> SUFFICES ASSUME NEW q \in Proc, (pc[q] \in {"save", "write", "send"})', ~login'[q],
                      tok'[q] # NoToken, age'[q] <= RefreshSkew
               PROVE  tok'[q].left > RefreshSkew - age'[q]
    BY DEF ChosenAreFresh
  <2>1. CASE q # p
    BY <2>1 DEF IInv, Functions, ChosenAreFresh, Go
  <2>2. CASE q = p
    <3>1. tok'[p] = t /\ pc'[p] = to /\ age'[p] \in {age[p], 0}
      BY DEF Go, IInv, Functions
    <3>2. age[p] \in Nat /\ RefreshSkew \in Nat
      BY SessionAssumption DEF IInv, Functions
    <3>3. t.left \in Int
      BY <2>2, <3>1 DEF IsToken
    <3>4. CASE t.left > RefreshSkew
      BY <2>2, <3>1, <3>2, <3>3, <3>4
    <3>5. CASE t = tok[p] /\ pc[p] \in {"save", "write", "send"}
      <4>1. age'[p] = age[p]
        BY <3>5 DEF Go, IInv, Functions
      <4> QED
        BY <2>2, <3>1, <3>5, <4>1 DEF IInv, ChosenAreFresh
    <3> QED
      BY <2>2, <3>1, <3>4, <3>5
  <2> QED
    BY <2>1, <2>2
<1> QED
  BY <1>1, <1>2, <1>3, <1>4 DEF IInv

\* A process that is done holds nothing.
LEMMA DoneKeeps ==
  ASSUME IInv, NEW p \in Proc, NEW last \in {"idle"} \cup Outcomes,
         Done(p, last), FileIsToken'
  PROVE  IInv'
<1>1. Functions'
  BY DEF IInv, Functions, Done, Go
<1>2. \A q \in Proc : \/ q # p /\ pc'[q] = pc[q] /\ tok'[q] = tok[q] /\ age'[q] = age[q]
                              /\ login'[q] = login[q]
                      \/ q = p /\ pc'[q] = last /\ tok'[q] = NoToken /\ ~login'[q]
  BY DEF IInv, Functions, Done, Go
<1>3. last \notin {"save", "write"}
  BY DEF Outcomes
<1>4. HeldAreTokens'
  BY <1>2, <1>3 DEF IInv, HeldAreTokens, IsToken
<1>5. LoginsDoNotSend'
  BY <1>2 DEF IInv, LoginsDoNotSend, Outcomes
<1>6. ChosenAreFresh'
  BY <1>2 DEF IInv, ChosenAreFresh
<1> QED
  BY <1>1, <1>4, <1>5, <1>6 DEF IInv

\* A step that moves a process on with what it has.
LEMMA MoveKeeps ==
  ASSUME IInv, NEW p \in Proc, NEW to, to \notin {"idle", "refresh", "send"} \cup Outcomes,
         pc' = [pc EXCEPT ![p] = to], UNCHANGED <<tok, age>>, FileIsToken',
         login' = login \/ login' = [login EXCEPT ![p] = TRUE],
         to = "save" => IsToken(tok[p]),
         to \in {"save", "write"} => pc[p] = "save" /\ login' = login
  PROVE  IInv'
<1>1. Functions'
  BY DEF IInv, Functions
<1>2. HeldAreTokens'
  BY DEF IInv, Functions, HeldAreTokens, IsToken
<1>3. LoginsDoNotSend'
  BY DEF IInv, Functions, LoginsDoNotSend
<1>4. ChosenAreFresh'
  <2> SUFFICES ASSUME NEW q \in Proc, pc'[q] \in {"save", "write", "send"}, ~login'[q],
                      tok[q] # NoToken, age[q] <= RefreshSkew
               PROVE  tok[q].left > RefreshSkew - age[q]
    BY DEF ChosenAreFresh
  <2>1. pc[q] \in {"save", "write", "send"} /\ ~login[q]
    BY DEF IInv, Functions
  <2> QED
    BY <2>1 DEF IInv, ChosenAreFresh
<1> QED
  BY <1>1, <1>2, <1>3, <1>4 DEF IInv

-----------------------------------------------------------------------------
(* Time.                                                                   *)

\* A token ages into a token, by at most one tick.
LEMMA AgedIsToken ==
  ASSUME NEW t, IsToken(t)
  PROVE  IsToken(Aged(t)) /\ Aged(t).left = Older(t.left)
  BY DEF IsToken, Aged, Older

\* A credential loses a tick when its age gains one.
LEMMA TickKeeps == IInv /\ Tick => IInv'
<1> SUFFICES ASSUME IInv, Tick PROVE IInv'
  OBVIOUS
<1>1. UNCHANGED <<pc, login>>
  BY DEF Tick
<1>2. Functions'
  <2>1. \A n \in Nat : Bounded(n + 1) \in Nat
    BY SessionAssumption DEF Bounded
  <2>2. age' \in [Proc -> Nat]
    BY <2>1 DEF Tick, IInv, Functions
  <2>3. tok' = [p \in Proc |-> tok'[p]]
    BY DEF Tick
  <2> QED
    BY <1>1, <2>2, <2>3 DEF IInv, Functions
<1>3. FileIsToken'
  <2>1. CASE HasToken
    BY <2>1, AgedIsToken DEF Tick, IInv, FileIsToken
  <2>2. CASE ~HasToken
    BY <2>2 DEF Tick, HasToken, FileIsToken
  <2> QED
    BY <2>1, <2>2
<1>4. \A p \in Proc : tok'[p] = IF tok[p] = NoToken THEN NoToken ELSE Aged(tok[p])
  BY DEF Tick
<1>5. HeldAreTokens'
  BY <1>1, <1>4, AgedIsToken DEF IInv, HeldAreTokens
<1>6. ChosenAreFresh'
  <2> SUFFICES ASSUME NEW p \in Proc, pc[p] \in {"save", "write", "send"}, ~login[p],
                      tok'[p] # NoToken, age'[p] <= RefreshSkew
               PROVE  tok'[p].left > RefreshSkew - age'[p]
    BY <1>1 DEF ChosenAreFresh
  <2>1. tok[p] # NoToken /\ tok'[p].left = Older(tok[p].left) /\ tok[p].left \in Int
    BY <1>4, AgedIsToken DEF IInv, HeldAreTokens, IsToken
  <2>2. age'[p] = Bounded(age[p] + 1)
    BY <2>1 DEF Tick
  <2>3. age[p] \in Nat /\ RefreshSkew \in Nat
    BY SessionAssumption DEF IInv, Functions
  <2>4. age'[p] = age[p] + 1 /\ age[p] <= RefreshSkew
    BY <2>2, <2>3 DEF Bounded
  <2>5. tok[p].left > RefreshSkew - age[p]
    BY <2>1, <2>4 DEF IInv, ChosenAreFresh
  <2> QED
    BY <2>1, <2>3, <2>4, <2>5 DEF Older
<1>7. LoginsDoNotSend'
  BY <1>1 DEF IInv, LoginsDoNotSend
<1> QED
  BY <1>2, <1>3, <1>5, <1>6, <1>7 DEF IInv

-----------------------------------------------------------------------------
(* Every step.                                                             *)

\* Signing in: nothing is sent, and what it is granted is a token.
LEMMA LoginKeeps ==
  ASSUME IInv, NEW p \in Proc,
         \/ StartLogin(p) \/ fetchAuthConfig(p) \/ fetchOIDCDiscovery(p) \/ requestDeviceCode(p)
         \/ Unreachable(p) \/ Pause(p) \/ PollPending(p) \/ PollRefused(p) \/ PollGranted(p)
  PROVE  IInv'
<1> USE DEF FileIsToken, HasToken
<1>0. UNCHANGED file
  BY DEF StartLogin, fetchAuthConfig, fetchOIDCDiscovery, requestDeviceCode, Unreachable, Pause,
         PollPending, PollRefused, PollGranted
<1>1. FileIsToken'
  BY <1>0 DEF IInv
<1>2. CASE StartLogin(p)
  BY <1>1, <1>2, MoveKeeps DEF StartLogin, Outcomes
<1>3. CASE Done(p, "idle")
  BY <1>1, <1>3, DoneKeeps
<1>4. CASE \E to \in {"discovery", "device", "wait", "poll"} : Go(p, to, NoToken) /\ UNCHANGED login
  BY <1>1, <1>4, GoKeeps DEF Outcomes
<1>5. CASE PollGranted(p)
  <2>1. Go(p, "save", Issued(p)) /\ UNCHANGED login
    BY <1>5 DEF PollGranted
  <2>2. IsToken(Issued(p)) /\ Issued(p).left > RefreshSkew
    BY SessionAssumption DEF Issued, IsToken
  <2> QED
    BY <1>1, <2>1, <2>2, GoKeeps DEF Outcomes
<1> QED
  BY <1>2, <1>3, <1>4, <1>5 DEF fetchAuthConfig, fetchOIDCDiscovery, requestDeviceCode, Unreachable,
     Pause, PollPending, PollRefused

\* After a save a login is done and any other command sends what it saved.
LEMMA SavedKeeps ==
  ASSUME IInv, NEW p \in Proc, NEW t \in {NoToken, tok[p]}, pc[p] \in {"save", "write"},
         Saved(p, t), FileIsToken'
  PROVE  IInv'
<1>1. CASE login[p]
  BY <1>1, DoneKeeps DEF Saved
<1>2. CASE ~login[p]
  <2>1. Go(p, "send", t) /\ UNCHANGED login
    BY <1>2 DEF Saved
  <2>2. IsToken(tok[p])
    BY DEF IInv, HeldAreTokens
  <2> QED
    BY <1>2, <2>1, <2>2, GoKeeps
<1> QED
  BY <1>1, <1>2

\* Saving puts a token into the file, or no credential at all.
LEMMA SaveKeeps ==
  ASSUME IInv, NEW p \in Proc, Open(p) \/ Write(p) \/ SaveFails(p)
  PROVE  IInv'
<1>1. CASE Open(p)
  <2>1. FileIsToken'
    BY <1>1 DEF Open, FileIsToken, HasToken, NoCredential
  <2> QED
    BY <1>1, <2>1, MoveKeeps DEF Open, Outcomes
<1>2. CASE Write(p)
  <2>1. pc[p] = "write" /\ Saved(p, tok[p]) /\ file' \in {file, tok[p], Garbled}
    BY <1>2 DEF Write
  <2>2. FileIsToken'
    BY <2>1 DEF FileIsToken, HasToken, NoCredential, IInv, HeldAreTokens, IsToken
  <2> QED
    BY <2>1, <2>2, SavedKeeps
<1>3. CASE SaveFails(p)
  <2>1. FileIsToken'
    BY <1>3 DEF SaveFails, IInv, FileIsToken, HasToken
  <2> QED
    BY <1>3, <2>1, SavedKeeps DEF SaveFails
<1> QED
  BY <1>1, <1>2, <1>3

\* Choosing, renewing and sending a credential.
LEMMA CallKeeps ==
  ASSUME IInv, NEW p \in Proc,
         \/ LoadToken(p) \/ RefreshIDToken(p) \/ RefreshFails(p) \/ ReplyLost(p)
         \/ Request(p) \/ Kill(p)
  PROVE  IInv'
<1>0. UNCHANGED file
  BY DEF LoadToken, RefreshIDToken, RefreshFails, ReplyLost, Request, Kill
<1>1. FileIsToken'
  BY <1>0 DEF IInv, FileIsToken, HasToken
<1>2. CASE LoadToken(p)
  <2>1. UNCHANGED login /\ ~login[p]
    BY <1>2 DEF LoadToken, IInv, LoginsDoNotSend
  <2>2. CASE Go(p, "send", NoToken)
    BY <1>1, <2>1, <2>2, GoKeeps
  <2>3. CASE HasToken /\ LongLived(file) /\ Go(p, "send", file)
    BY <1>1, <2>1, <2>3, GoKeeps DEF IInv, FileIsToken, LongLived
  <2>4. CASE HasToken /\ Go(p, "refresh", file)
    BY <1>1, <2>1, <2>4, GoKeeps DEF IInv, FileIsToken
  <2> QED
    BY <1>2, <2>2, <2>3, <2>4 DEF LoadToken
<1>3. CASE RefreshIDToken(p)
  <2>1. Go(p, "save", Refreshed(p, tok[p])) /\ UNCHANGED login
    BY <1>3 DEF RefreshIDToken
  <2>2. IsToken(Refreshed(p, tok[p])) /\ Refreshed(p, tok[p]).left > RefreshSkew
    BY SessionAssumption DEF Refreshed, IsToken
  <2> QED
    BY <1>1, <2>1, <2>2, GoKeeps DEF Outcomes
<1>4. CASE RefreshFails(p) \/ ReplyLost(p)
  <2>1. Go(p, "send", NoToken) /\ UNCHANGED login /\ pc[p] = "refresh"
    BY <1>4 DEF RefreshFails, ReplyLost
  <2> QED
    BY <1>1, <2>1, GoKeeps DEF IInv, LoginsDoNotSend
<1>5. CASE Request(p)
  BY <1>1, <1>5, InterceptAnswers, DoneKeeps DEF Request
<1>6. CASE Kill(p)
  BY <1>1, <1>6, DoneKeeps DEF Kill
<1> QED
  BY <1>2, <1>3, <1>4, <1>5, <1>6

\* What a process shows, ends, or does to the file alone.
LEMMA RestKeeps ==
  ASSUME IInv, NEW p \in Proc, Exit(p) \/ Logout(p)
  PROVE  IInv'
<1>1. CASE Exit(p)
  <2>1. /\ pc' = [pc EXCEPT ![p] = "idle"] /\ pc[p] \in Outcomes
        /\ UNCHANGED <<tok, age, login, file>>
    BY <1>1 DEF Exit
  <2> QED
    BY <2>1 DEF IInv, Functions, FileIsToken, HasToken, HeldAreTokens, LoginsDoNotSend, ChosenAreFresh,
       Outcomes, IsToken
<1>2. CASE Logout(p)
  <2>1. file' = Absent /\ UNCHANGED <<pc, tok, age, login>>
    BY <1>2 DEF Logout
  <2> QED
    BY <2>1 DEF IInv, Functions, FileIsToken, HasToken, NoCredential, HeldAreTokens, LoginsDoNotSend,
       ChosenAreFresh, IsToken
<1> QED
  BY <1>1, <1>2

\* Nobody has signed in at first.
LEMMA InitHolds == Init => IInv
<1> SUFFICES ASSUME Init PROVE IInv
  OBVIOUS
<1>1. Functions
  BY DEF Init, Functions
<1>2. FileIsToken
  BY DEF Init, FileIsToken, HasToken, NoCredential
<1>3. HeldAreTokens /\ LoginsDoNotSend /\ ChosenAreFresh
  BY DEF Init, HeldAreTokens, LoginsDoNotSend, ChosenAreFresh
<1> QED
  BY <1>1, <1>2, <1>3 DEF IInv

\* No step of anybody breaks it.
LEMMA NextKeeps == IInv /\ [Next]_vars => IInv'
<1> SUFFICES ASSUME IInv, [Next]_vars PROVE IInv'
  OBVIOUS
<1>1. CASE UNCHANGED cli
  BY <1>1 DEF cli, IInv, Functions, FileIsToken, HasToken, HeldAreTokens, LoginsDoNotSend,
     ChosenAreFresh, IsToken
<1>2. CASE Tick
  BY <1>2, TickKeeps
<1>3. ASSUME NEW p \in Proc, StartLogin(p) \/ LoadToken(p) \/ Logout(p) \/ Step(p) \/ Kill(p)
      PROVE  IInv'
  BY <1>3, LoginKeeps, SaveKeeps, CallKeeps, RestKeeps DEF Step
<1>4. CASE Start \/ Stop \/ Discover \/ Retry \/ Outage \/ \E r \in RefreshToken : EndSession(r)
  <2>1. UNCHANGED cli
    BY <1>4 DEF Start, Stop, Discover, Retry, Outage, EndSession
  <2> QED
    BY <1>1, <2>1
<1>5. CASE UNCHANGED vars
  BY <1>1, <1>5 DEF vars
<1> QED
  BY <1>2, <1>3, <1>4, <1>5 DEF Next

\* Whatever time, failures and other processes do, a process holds tokens, and
\* one it has chosen for a command is good for the skew from then on.
THEOREM Inductive == Spec => []IInv
  BY InitHolds, NextKeeps, PTL DEF Spec

-----------------------------------------------------------------------------
(* What a server answers.                                                  *)

\* The answer to a process is the interceptor's, of the credential it holds.
LEMMA AnswerIsIntercepts ==
  ASSUME IInv, [Next]_vars, NEW p \in Proc, pc[p] = "send", pc'[p] \in Outcomes
  PROVE  server # "down" /\ Intercept(tok[p]) = pc'[p]
<1>1. pc' # pc
  BY DEF Outcomes
<1>2. PICK q \in Proc : StartLogin(q) \/ LoadToken(q) \/ Logout(q) \/ Step(q) \/ Kill(q)
  BY <1>1 DEF Next, vars, cli, Start, Stop, Discover, Retry, Outage, Tick, EndSession
<1>3. \A s : pc' = [pc EXCEPT ![q] = s] => (q = p /\ pc'[p] = s) \/ pc'[p] = pc[p]
  BY DEF IInv, Functions
<1>4. q = p
  BY <1>2, <1>3 DEF Outcomes, StartLogin, LoadToken, Logout, Step, Kill, fetchAuthConfig,
     fetchOIDCDiscovery, requestDeviceCode, Unreachable, Pause, PollPending, PollRefused, PollGranted,
     Open, Write, SaveFails, Saved, RefreshIDToken, RefreshFails, ReplyLost, Request, Exit, Go, Done
<1>5. Request(p) \/ Kill(p)
  BY <1>2, <1>4 DEF Outcomes, StartLogin, LoadToken, Logout, Step, fetchAuthConfig, fetchOIDCDiscovery,
     requestDeviceCode, Unreachable, Pause, PollPending, PollRefused, PollGranted, Open, Write, SaveFails,
     RefreshIDToken, RefreshFails, ReplyLost, Exit
<1>6. pc'[p] # "idle"
  BY DEF Outcomes
<1> QED
  BY <1>3, <1>5, <1>6 DEF Request, Kill, Done, Go, IInv, Functions

\* Nobody is let in without an unexpired credential, or before the server has
\* reached the provider, in any order of restarts, outages and requests.
THEOREM Closed == Spec => FailClosed
<1>1. IInv /\ [Next]_vars => [\A p \in Proc : pc[p] = "send" /\ pc'[p] = "served" /\ ~config.dev =>
                                /\ server = "open"
                                /\ tok[p] # NoToken
                                /\ tok[p].left >= 0]_vars
  <2> SUFFICES ASSUME IInv, [Next]_vars, NEW p \in Proc, pc[p] = "send", pc'[p] = "served", ~config.dev
               PROVE  server = "open" /\ tok[p] # NoToken /\ tok[p].left >= 0
    OBVIOUS
  <2>1. Ready /\ tok[p] # NoToken /\ ~Expired(tok[p])
    BY AnswerIsIntercepts, ServedIsValid DEF Outcomes
  <2>2. tok[p].left \in Int
    BY <2>1 DEF IInv, HeldAreTokens, IsToken
  <2> QED
    BY <2>1, <2>2 DEF Ready, Expired
<1> QED
  BY <1>1, Inductive, PTL DEF Spec, FailClosed

\* A credential that a command chose is accepted if the request arrives within
\* the skew, unless the server can never have checked a signature.
THEOREM Freshness == Spec => FreshEnough
<1>1. IInv /\ [Next]_vars => [\A p \in Proc :
         pc[p] = "send" /\ tok[p] # NoToken /\ age[p] <= RefreshSkew /\ pc'[p] = "unauthenticated"
           => ~keys /\ ~up]_vars
  <2> SUFFICES ASSUME IInv, [Next]_vars, NEW p \in Proc, pc[p] = "send", tok[p] # NoToken,
                      age[p] <= RefreshSkew, pc'[p] = "unauthenticated"
               PROVE  ~keys /\ ~up
    OBVIOUS
  <2>1. Intercept(tok[p]) = "unauthenticated"
    BY AnswerIsIntercepts DEF Outcomes
  <2>2. ~login[p]
    BY DEF IInv, LoginsDoNotSend
  <2>3. tok[p].left > RefreshSkew - age[p] /\ tok[p].left \in Int
    BY <2>2 DEF IInv, ChosenAreFresh, HeldAreTokens, IsToken
  <2>4. ~Expired(tok[p])
    BY <2>3, SessionAssumption DEF Expired, IInv, Functions
  <2> QED
    BY <2>1, <2>4, RefusedWithoutKeys
<1> QED
  BY <1>1, Inductive, PTL DEF Spec, FreshEnough

-----------------------------------------------------------------------------
(* What is held, and what the provider knows of it.                        *)

\* The provider's record and the files that are open have their shape.
Records ==
  /\ status = [r \in RefreshToken |-> status[r]]
  /\ linked = [p \in Proc |-> linked[p]]

FileIsCredential == HasToken => file \in Credential

\* A process that saves has something to save, one that renews can.
HeldAreCredentials ==
  \A p \in Proc :
    /\ tok[p] # NoToken => tok[p] \in Credential
    /\ pc[p] \in {"refresh", "save", "write"} => tok[p] # NoToken
    /\ pc[p] = "refresh" => tok[p].refresh # NoRefresh

TokenInv == Functions /\ Records /\ FileIsCredential /\ HeldAreCredentials

\* There is a name no other holder uses: the others and the file are at most as
\* many as the processes, the tokens are more.
LEMMA NewIsAToken ==
  ASSUME NEW p \in Proc
  PROVE  NewFor(p) \in RefreshToken
<1>DEFINE f == [q \in Proc |-> IF q = p THEN file.refresh ELSE tok[q].refresh]
          T == {f[q] : q \in Proc}
<1>1. f \in Surjection(Proc, T)
  BY DEF Surjection
<1>2. IsFiniteSet(T) /\ Cardinality(T) <= Cardinality(Proc)
  BY <1>1, FS_Surjection, TokenAssumption
<1>3. ~(RefreshToken \subseteq T)
  <2> SUFFICES ASSUME RefreshToken \in SUBSET T PROVE FALSE
    OBVIOUS
  <2>1. Cardinality(RefreshToken) <= Cardinality(T)
    BY <1>2, FS_Subset
  <2>2. Cardinality(RefreshToken) \in Nat /\ Cardinality(T) \in Nat /\ Cardinality(Proc) \in Nat
    BY <1>2, FS_CardinalityType, TokenAssumption
  <2> QED
    BY <1>2, <2>1, <2>2, TokenAssumption
<1>4. PICK r \in RefreshToken : r \notin T
  BY <1>3
<1>5. /\ HasToken => file.refresh # r
      /\ \A q \in Proc \ {p} : tok[q] # NoToken => tok[q].refresh # r
  <2>1. \A q \in Proc : f[q] # r
    BY <1>4
  <2>2. f[p] = file.refresh /\ \A q \in Proc \ {p} : f[q] = tok[q].refresh
    OBVIOUS
  <2> QED
    BY <2>1, <2>2
<1> QED
  BY <1>5 DEF NewFor

\* What a login is granted, and what a renewal makes of a credential.
LEMMA GrantsAreCredentials ==
  ASSUME NEW p \in Proc
  PROVE  /\ Issued(p) \in Credential /\ Issued(p) # NoToken
         /\ \A t \in Credential : Refreshed(p, t) \in Credential /\ Refreshed(p, t) # NoToken
BY NewIsAToken, SessionAssumption, TokenAssumption DEF Issued, Refreshed, Credential

\* A credential is still one a tick later.
LEMMA AgedIsCredential ==
  ASSUME NEW t \in Credential
  PROVE  Aged(t) \in Credential /\ Aged(t).refresh = t.refresh
BY DEF Credential, Aged, Older

\* A process goes on with no credential, or with one it can use.
LEMMA GoHolds ==
  ASSUME TokenInv, NEW p \in Proc, NEW to, NEW t, Go(p, to, t), Functions', Records', FileIsCredential',
         \/ t = NoToken /\ to \notin {"refresh", "save", "write"}
         \/ t \in Credential /\ t # NoToken /\ (to = "refresh" => t.refresh # NoRefresh)
  PROVE  TokenInv'
<1>1. \A q \in Proc : IF q = p THEN pc'[q] = to /\ tok'[q] = t ELSE pc'[q] = pc[q] /\ tok'[q] = tok[q]
  BY DEF Go, TokenInv, Functions
<1>2. HeldAreCredentials'
  BY <1>1 DEF TokenInv, HeldAreCredentials
<1> QED
  BY <1>2 DEF TokenInv

\* The provider's record and the open files keep their shape at every step.
LEMMA RecordsKept == TokenInv /\ [Next]_vars => Records'
<1> SUFFICES ASSUME TokenInv, [Next]_vars PROVE Records'
  OBVIOUS
<1> USE DEF TokenInv, Records
<1>1. CASE UNCHANGED <<status, linked>>
  BY <1>1
<1>2. \A s : Sessions(s) => status' = [r \in RefreshToken |-> status'[r]]
  BY DEF Sessions
<1>3. ASSUME NEW p \in Proc, StartLogin(p) \/ LoadToken(p) \/ Logout(p) \/ Step(p) \/ Kill(p)
      PROVE  Records'
  <2>1. \/ UNCHANGED linked
        \/ \E b \in BOOLEAN : linked' = [linked EXCEPT ![p] = b]
        \/ linked' = [q \in Proc |-> FALSE]
    BY <1>3 DEF StartLogin, LoadToken, Logout, Step, Kill, fetchAuthConfig, fetchOIDCDiscovery,
       requestDeviceCode, Unreachable, Pause, PollPending, PollRefused, PollGranted, Open, Write,
       SaveFails, Saved, RefreshIDToken, RefreshFails, ReplyLost, Request, Exit, Done
  <2>2. UNCHANGED status \/ \E s : Sessions(s)
    BY <1>3 DEF idp, StartLogin, LoadToken, Logout, Step, Kill, fetchAuthConfig, fetchOIDCDiscovery,
       requestDeviceCode, Unreachable, Pause, PollPending, PollRefused, PollGranted, Granted, Open, Write,
       SaveFails, RefreshIDToken, RefreshFails, ReplyLost, RenewedFor, Request, Exit
  <2> QED
    BY <1>2, <2>1, <2>2
<1>4. CASE \E r \in RefreshToken : EndSession(r)
  BY <1>4 DEF EndSession, cli
<1> QED
  BY <1>1, <1>3, <1>4 DEF Next, vars, idp, cli, Start, Stop, Discover, Retry, Outage, Tick

\* Signing in and choosing a credential, saving it, renewing it, sending it.
LEMMA ProcessHolds ==
  ASSUME TokenInv, Functions', Records', NEW p \in Proc,
         StartLogin(p) \/ LoadToken(p) \/ Logout(p) \/ Step(p) \/ Kill(p)
  PROVE  TokenInv'
<1> USE DEF FileIsCredential, HasToken
<1>1. CASE UNCHANGED tok /\ UNCHANGED file /\ \E to : /\ pc' = [pc EXCEPT ![p] = to]
                                                      /\ to \notin {"refresh", "save", "write"}
  BY <1>1 DEF TokenInv, Functions, HeldAreCredentials
<1>2. CASE UNCHANGED file /\ \E to : Go(p, to, NoToken) /\ to \notin {"refresh", "save", "write"}
  BY <1>2, GoHolds DEF TokenInv
<1>3. CASE StartLogin(p) \/ Exit(p)
  BY <1>1, <1>3 DEF StartLogin, Exit
<1>4. CASE \/ fetchAuthConfig(p) \/ fetchOIDCDiscovery(p) \/ requestDeviceCode(p) \/ Unreachable(p)
           \/ Pause(p) \/ PollPending(p) \/ PollRefused(p) \/ RefreshFails(p) \/ ReplyLost(p) \/ Kill(p)
  <2>1. UNCHANGED file
    BY <1>4 DEF fetchAuthConfig, fetchOIDCDiscovery, requestDeviceCode, Unreachable,
       Pause, PollPending, PollRefused, RefreshFails, ReplyLost, Kill
  <2>2. \E to \in {"discovery", "device", "wait", "poll", "send", "idle"} : Go(p, to, NoToken)
    BY <1>4 DEF Done, fetchAuthConfig, fetchOIDCDiscovery, requestDeviceCode, Unreachable,
       Pause, PollPending, PollRefused, RefreshFails, ReplyLost, Kill
  <2> QED
    BY <1>2, <2>1, <2>2
<1>5. CASE Request(p)
  <2>1. \E to \in {"idle"} \cup Outcomes : Go(p, to, NoToken)
    BY <1>5, InterceptAnswers DEF Request, Done
  <2> QED
    BY <1>2, <1>5, <2>1 DEF Request, Outcomes
<1>6. CASE PollGranted(p)
  <2>1. Go(p, "save", Issued(p)) /\ UNCHANGED file
    BY <1>6 DEF PollGranted
  <2> QED
    BY <2>1, GrantsAreCredentials, GoHolds DEF TokenInv
<1>7. CASE RefreshIDToken(p)
  <2>1. Go(p, "save", Refreshed(p, tok[p])) /\ UNCHANGED file /\ tok[p] \in Credential
    BY <1>7 DEF RefreshIDToken, TokenInv, HeldAreCredentials
  <2> QED
    BY <2>1, GrantsAreCredentials, GoHolds DEF TokenInv
<1>8. CASE LoadToken(p)
  <2>1. UNCHANGED file
    BY <1>8 DEF LoadToken
  <2>2. CASE Go(p, "send", NoToken)
    BY <1>2, <2>1, <2>2
  <2>3. CASE HasToken /\ (Go(p, "send", file) \/ (Go(p, "refresh", file) /\ CanRefresh(file)))
    <3>1. file \in Credential /\ file # NoToken
      BY <2>3, TokenAssumption DEF TokenInv
    <3> QED
      BY <2>1, <2>3, <3>1, GoHolds DEF TokenInv, CanRefresh
  <2> QED
    BY <1>8, <2>2, <2>3 DEF LoadToken
<1>9. CASE Open(p) \/ Logout(p)
  <2>1. UNCHANGED tok /\ file' \in NoCredential
    BY <1>9 DEF Open, Logout, NoCredential
  <2>2. pc' = pc \/ (pc[p] = "save" /\ pc' = [pc EXCEPT ![p] = "write"])
    BY <1>9 DEF Open, Logout
  <2> QED
    BY <2>1, <2>2 DEF TokenInv, Functions, HeldAreCredentials
<1>10. CASE Write(p) \/ SaveFails(p)
  <2>1. tok[p] \in Credential /\ tok[p] # NoToken
    BY <1>10 DEF Write, SaveFails, TokenInv, HeldAreCredentials
  <2>2. FileIsCredential'
    BY <1>10, <2>1 DEF Write, SaveFails, TokenInv, NoCredential
  <2>3. \/ \E to \in {"idle", "send"} : Go(p, to, NoToken)
        \/ Go(p, "send", tok[p])
    BY <1>10 DEF Write, SaveFails, Saved, Done
  <2> QED
    BY <2>1, <2>2, <2>3, GoHolds
<1> QED
  BY <1>3, <1>4, <1>5, <1>6, <1>7, <1>8, <1>9, <1>10 DEF Step

\* Time passes for what is held, and changes nothing else of it.
LEMMA TickHolds ==
  ASSUME TokenInv, Tick
  PROVE  /\ FileIsCredential' /\ HeldAreCredentials'
         /\ HasToken' = HasToken /\ (HasToken => file'.refresh = file.refresh)
         /\ \A p \in Proc : tok[p] # NoToken => tok'[p] # NoToken /\ tok'[p].refresh = tok[p].refresh
<1>1. file' = IF HasToken THEN Aged(file) ELSE file
  BY DEF Tick
<1>2. \A p \in Proc : tok'[p] = IF tok[p] = NoToken THEN NoToken ELSE Aged(tok[p])
  BY DEF Tick
<1>3. HasToken => Aged(file) \in Credential /\ Aged(file).refresh = file.refresh
  BY AgedIsCredential DEF TokenInv, FileIsCredential
<1>4. \A p \in Proc : tok[p] # NoToken => Aged(tok[p]) \in Credential /\ Aged(tok[p]).refresh = tok[p].refresh
  BY AgedIsCredential DEF TokenInv, HeldAreCredentials
<1>5. HasToken' = HasToken /\ FileIsCredential'
  BY <1>1, <1>3, TokenAssumption DEF HasToken, NoCredential, FileIsCredential
<1>6. \A p \in Proc : tok[p] # NoToken => tok'[p] # NoToken
  BY <1>2, <1>4, TokenAssumption
<1>7. HeldAreCredentials'
  BY <1>2, <1>4, <1>6 DEF TokenInv, HeldAreCredentials, Tick
<1> QED
  BY <1>1, <1>2, <1>3, <1>4, <1>5, <1>6, <1>7

\* No step of anybody leaves something there that is no credential.
LEMMA TokensHold == IInv /\ TokenInv /\ [Next]_vars => TokenInv'
<1> SUFFICES ASSUME IInv, TokenInv, [Next]_vars PROVE TokenInv'
  OBVIOUS
<1>1. Functions' /\ Records'
  BY NextKeeps, RecordsKept DEF IInv
<1>2. CASE UNCHANGED cli
  BY <1>1, <1>2 DEF cli, TokenInv, FileIsCredential, HasToken, HeldAreCredentials
<1>3. CASE Tick
  BY <1>1, <1>3, TickHolds DEF TokenInv
<1>4. ASSUME NEW p \in Proc, StartLogin(p) \/ LoadToken(p) \/ Logout(p) \/ Step(p) \/ Kill(p)
      PROVE  TokenInv'
  BY <1>1, <1>4, ProcessHolds
<1>5. CASE \/ Start \/ Stop \/ Discover \/ Retry \/ Outage \/ UNCHANGED vars
           \/ \E r \in RefreshToken : EndSession(r)
  <2>1. UNCHANGED cli
    BY <1>5 DEF Start, Stop, Discover, Retry, Outage, EndSession, vars
  <2> QED
    BY <1>2, <2>1
<1> QED
  BY <1>3, <1>4, <1>5 DEF Next

\* Nobody holds anything at first.
LEMMA InitTokens == Init => TokenInv
<1> SUFFICES ASSUME Init PROVE TokenInv
  OBVIOUS
<1>1. Functions
  BY InitHolds DEF IInv
<1>2. Records
  BY DEF Init, Records
<1>3. FileIsCredential /\ HeldAreCredentials
  BY DEF Init, FileIsCredential, HasToken, NoCredential, HeldAreCredentials
<1> QED
  BY <1>1, <1>2, <1>3 DEF TokenInv

\* Whatever is in the file or about to be, is a credential of the provider.
THEOREM Credentials == Spec => [](IInv /\ TokenInv)
  BY InitHolds, NextKeeps, InitTokens, TokensHold, PTL DEF Spec

-----------------------------------------------------------------------------
(* The login is kept.                                                      *)

\* A process about to make the file one that can be renewed.
Rescues(p) ==
  /\ pc[p] = "save" \/ (pc[p] = "write" /\ linked[p])
  /\ Alive(tok[p])

\* A token someone holds is live when its provider's record says so.
LEMMA HeldIsLive ==
  ASSUME NEW s, Sessions(s), NEW r \in RefreshToken, s[r] = "live", r \in Held'
  PROVE  status'[r] = "live"
BY DEF Sessions

\* A file that can be renewed can still be, and with it whatever the others do.
LEMMA FileSaves ==
  ASSUME TokenInv', HasToken', file'.refresh # NoRefresh,
         NEW s, Sessions(s) \/ status' = s, s[file'.refresh] = "live"
  PROVE  Usable'
<1>1. file'.refresh \in RefreshToken /\ file'.refresh \in Held'
  BY DEF TokenInv, FileIsCredential, Credential, Held
<1>2. status'[file'.refresh] = "live"
  BY <1>1, HeldIsLive
<1> QED
  BY <1>2 DEF Usable, Alive

\* The same of a process that is to save it.
LEMMA HolderSaves ==
  ASSUME TokenInv', NEW p \in Proc, (pc[p] = "save" \/ (pc[p] = "write" /\ linked[p]))',
         tok'[p].refresh # NoRefresh,
         NEW s, Sessions(s) \/ status' = s, s[tok'[p].refresh] = "live"
  PROVE  Usable'
<1>1. tok'[p].refresh \in RefreshToken /\ tok'[p].refresh \in Held'
  BY DEF TokenInv, HeldAreCredentials, Credential, Held
<1>2. status'[tok'[p].refresh] = "live"
  BY <1>1, HeldIsLive
<1> QED
  BY <1>2 DEF Usable, Alive

\* A step of one process leaves to the others what they have, and, unless it is
\* the only one to save, the login with them.
LEMMA OthersSave ==
  ASSUME TokenInv', NEW p, NEW s, Sessions(s) \/ status' = s,
         \A r \in RefreshToken : status[r] = "live" => s[r] = "live",
         TokenInv, UNCHANGED file,
         \A q \in Proc \ {p} : pc'[q] = pc[q] /\ tok'[q] = tok[q] /\ linked'[q] = linked[q],
         (HasToken /\ Alive(file)) \/ \E q \in Proc \ {p} : Rescues(q)
  PROVE  Usable'
<1>1. CASE HasToken /\ Alive(file)
  <2>1. file.refresh \in RefreshToken
    BY <1>1 DEF TokenInv, FileIsCredential, Credential, Alive
  <2>2. HasToken' /\ file' = file
    BY <1>1 DEF HasToken
  <2> QED
    BY <1>1, <2>1, <2>2, FileSaves DEF Alive
<1>2. ASSUME NEW q \in Proc \ {p}, Rescues(q) PROVE Usable'
  <2>1. tok[q].refresh \in RefreshToken
    BY <1>2 DEF TokenInv, HeldAreCredentials, Credential, Rescues, Alive
  <2> QED
    BY <1>2, <2>1, HolderSaves DEF Rescues, Alive
<1> QED
  BY <1>1, <1>2

\* What a step of p leaves alone.
LEMMA OthersUntouched ==
  ASSUME TokenInv, NEW p \in Proc, StartLogin(p) \/ LoadToken(p) \/ Step(p)
  PROVE  \A q \in Proc \ {p} : pc'[q] = pc[q] /\ tok'[q] = tok[q] /\ linked'[q] = linked[q]
<1>1. /\ tok' = tok \/ \E t : tok' = [tok EXCEPT ![p] = t]
      /\ \E to : pc' = [pc EXCEPT ![p] = to]
      /\ linked' = linked \/ \E b : linked' = [linked EXCEPT ![p] = b]
  BY DEF Step, StartLogin, LoadToken, fetchAuthConfig, fetchOIDCDiscovery, requestDeviceCode, Unreachable,
     Pause, PollPending, PollRefused, PollGranted, Open, Write, SaveFails, Saved, RefreshIDToken,
     RefreshFails, ReplyLost, Request, Exit, Go, Done
<1> QED
  BY <1>1 DEF TokenInv, Functions, Records

\* Before it has anything to save, or once it has, a process cannot spoil it.
LEMMA BystanderSaves ==
  ASSUME TokenInv, TokenInv', Usable, NEW p \in Proc,
         \/ StartLogin(p) \/ LoadToken(p) \/ fetchAuthConfig(p) \/ fetchOIDCDiscovery(p)
         \/ requestDeviceCode(p) \/ Unreachable(p) \/ Pause(p) \/ PollPending(p) \/ PollRefused(p)
         \/ PollGranted(p) \/ RefreshFails(p) \/ Request(p) \/ Exit(p)
  PROVE  Usable'
<1>1. UNCHANGED file /\ pc[p] \notin {"save", "write"}
  BY DEF StartLogin, LoadToken, fetchAuthConfig, fetchOIDCDiscovery, requestDeviceCode, Unreachable,
     Pause, PollPending, PollRefused, PollGranted, RefreshFails, Request, Exit, Outcomes
<1>2. UNCHANGED status \/ Sessions(status) \/ Sessions(Live(status, Issued(p).refresh))
  BY DEF idp, StartLogin, LoadToken, fetchAuthConfig, fetchOIDCDiscovery, requestDeviceCode, Unreachable,
     Pause, PollPending, PollRefused, PollGranted, Granted, RefreshFails, Request, Exit
<1>3. \A r \in RefreshToken : status[r] = "live" => Live(status, Issued(p).refresh)[r] = "live"
  BY DEF Live
<1>4. \A q \in Proc \ {p} : pc'[q] = pc[q] /\ tok'[q] = tok[q] /\ linked'[q] = linked[q]
  BY OthersUntouched DEF Step
<1>5. (HasToken /\ Alive(file)) \/ \E q \in Proc \ {p} : Rescues(q)
  BY <1>1 DEF Usable, Rescues
<1> QED
  BY <1>1, <1>2, <1>3, <1>4, <1>5, OthersSave

\* Renewing: what it gives is live, whether the refresh token is kept, rotated,
\* or rotated and the old one revoked.
LEMMA RenewalSaves ==
  ASSUME TokenInv, TokenInv', NEW p \in Proc, RefreshIDToken(p)
  PROVE  Usable'
<1>DEFINE s == IF Rotates THEN Live(Revoke(tok[p].refresh), NewFor(p)) ELSE Revoke(tok[p].refresh)
<1>1. tok'[p] = Refreshed(p, tok[p]) /\ pc'[p] = "save" /\ Sessions(s)
  BY DEF RefreshIDToken, Go, RenewedFor, TokenInv, Functions
<1>2. tok[p].refresh \in RefreshToken /\ status[tok[p].refresh] = "live"
  BY DEF RefreshIDToken, TokenInv, HeldAreCredentials, Credential
<1>3. tok'[p].refresh \in RefreshToken /\ s[tok'[p].refresh] = "live"
  <2>1. CASE Rotates
    BY <1>1, <2>1, NewIsAToken DEF Refreshed, Live
  <2>2. CASE ~Rotates
    BY <1>1, <1>2, <2>2 DEF Refreshed, Rotates, Revoke
  <2> QED
    BY <2>1, <2>2
<1>4. tok'[p].refresh # NoRefresh
  BY <1>3, TokenAssumption
<1> HIDE DEF s
<1> QED
  BY <1>1, <1>3, <1>4, HolderSaves

\* Saving a live credential: first the process has it alone, then the file.
LEMMA SavingSaves ==
  ASSUME TokenInv, TokenInv', Usable, NEW p \in Proc,
         (Open(p) \/ Write(p)) /\ Alive(tok[p]), file' # Garbled
  PROVE  Usable'
<1>1. CASE Open(p)
  <2>1. pc'[p] = "write" /\ linked'[p] /\ tok'[p] = tok[p] /\ Sessions(status)
    BY <1>1 DEF Open, TokenInv, Functions, Records
  <2> QED
    BY <2>1, HolderSaves DEF Alive
<1>2. CASE Write(p) /\ linked[p]
  <2>1. file' = tok[p] /\ Sessions(status)
    BY <1>2 DEF Write
  <2>2. tok[p] \in Credential
    BY <1>2 DEF Write, TokenInv, HeldAreCredentials
  <2>3. HasToken'
    BY <2>1, <2>2, TokenAssumption DEF HasToken, NoCredential
  <2> QED
    BY <2>1, <2>3, FileSaves DEF Alive
<1>3. CASE Write(p) /\ ~linked[p]
  <2>1. UNCHANGED file /\ Sessions(status)
    BY <1>3 DEF Write
  <2>2. (HasToken /\ Alive(file)) \/ \E q \in Proc \ {p} : Rescues(q)
    BY <1>3 DEF Write, Usable, Rescues
  <2>3. \A q \in Proc \ {p} : pc'[q] = pc[q] /\ tok'[q] = tok[q] /\ linked'[q] = linked[q]
    BY <1>3, OthersUntouched DEF Step
  <2> QED
    BY <2>1, <2>2, <2>3, OthersSave
<1> QED
  BY <1>1, <1>2, <1>3

\* Time, the server and the provider's outages end no session.
LEMMA WorldSaves ==
  ASSUME TokenInv, TokenInv', Usable,
         Start \/ Stop \/ Discover \/ Retry \/ Outage \/ Tick \/ UNCHANGED vars
  PROVE  Usable'
<1>1. UNCHANGED <<status, pc, linked>>
  BY DEF Start, Stop, Discover, Retry, Outage, Tick, vars, idp, cli
<1>2. HasToken => HasToken' /\ file'.refresh = file.refresh
  BY TickHolds DEF Start, Stop, Discover, Retry, Outage, vars, cli, HasToken
<1>3. \A p \in Proc : tok[p] # NoToken => tok'[p].refresh = tok[p].refresh
  BY TickHolds DEF Start, Stop, Discover, Retry, Outage, vars, cli
<1>4. \A p \in Proc : Rescues(p) => tok[p] # NoToken
  BY DEF TokenInv, HeldAreCredentials, Rescues
<1> QED
  BY <1>1, <1>2, <1>3, <1>4 DEF Usable, Rescues, Alive

\* A login is lost only as CredentialKept says, whatever the provider does with
\* refresh tokens and however the processes that share the file interleave.
THEOREM LoginKept == Spec => CredentialKept
<1>DEFINE A == Usable /\ ~Usable' =>
       \/ \E r \in RefreshToken : EndSession(r)
       \/ file' = Garbled
       \/ \E p \in Proc : \/ Logout(p) \/ Kill(p) \/ SaveFails(p) \/ ReplyLost(p)
                          \/ (Open(p) \/ Write(p)) /\ ~Alive(tok[p])
<1>1. IInv /\ TokenInv /\ [Next]_vars => [A]_vars
  <2> SUFFICES ASSUME IInv, TokenInv, [Next]_vars, Usable, ~Usable' PROVE A
    OBVIOUS
  <2>1. TokenInv'
    BY TokensHold
  <2>2. ~(Start \/ Stop \/ Discover \/ Retry \/ Outage \/ Tick \/ UNCHANGED vars)
    BY <2>1, WorldSaves
  <2>3. ASSUME NEW p \in Proc, StartLogin(p) \/ LoadToken(p) \/ Logout(p) \/ Step(p) \/ Kill(p)
        PROVE  A
    <3>1. ~(\/ StartLogin(p) \/ LoadToken(p) \/ fetchAuthConfig(p) \/ fetchOIDCDiscovery(p)
            \/ requestDeviceCode(p) \/ Unreachable(p) \/ Pause(p) \/ PollPending(p) \/ PollRefused(p)
            \/ PollGranted(p) \/ RefreshFails(p) \/ Request(p) \/ Exit(p))
      BY <2>1, BystanderSaves
    <3>2. ~RefreshIDToken(p)
      BY <2>1, RenewalSaves
    <3>3. (Open(p) \/ Write(p)) /\ file' # Garbled => ~Alive(tok[p])
      BY <2>1, SavingSaves
    <3> QED
      BY <2>3, <3>1, <3>2, <3>3 DEF Step
  <2> QED
    BY <2>2, <2>3 DEF Next
<1> QED
  BY <1>1, Credentials, PTL DEF Spec, CredentialKept

=============================================================================
