-------------------------------- MODULE Auth --------------------------------
(***************************************************************************)
(* The sessions of one user: refresh-token rotation, logout and logout-all *)
(* (modules/auth), the access-token check with its Redis revocations       *)
(* (http/middleware/authenticate.ts, redis/token-revocation.ts) and the    *)
(* web client that retries a refused request after a refresh (lib/api.ts). *)
(*                                                                         *)
(* Tokens are numbered in the order of their creation; the access token    *)
(* signed along with refresh token t is t as well, and 0 is none.  A call  *)
(* is one request of a browser, with the refresh and the retry it leads    *)
(* to; each await of its handler is a step.                                *)
(***************************************************************************)
EXTENDS Naturals, FiniteSets

CONSTANTS
  Browsers,    \* 1..n: browser b starts out with token b
  Calls,       \* requests, each made at most once
  NoBrowser,   \* the sender of a call whose page is gone
  AccessTTL,   \* JWT_ACCESS_TTL, in seconds of the model
  RefreshTTL,  \* JWT_REFRESH_TTL
  MaxNow,      \* bound on the clock
  MaxFaults    \* bound on lost responses and Redis errors

ASSUME AuthAssumption ==
  /\ IsFiniteSet(Browsers) /\ Browsers = 1..Cardinality(Browsers)
  /\ IsFiniteSet(Calls)
  /\ NoBrowser \notin Browsers
  /\ {AccessTTL, RefreshTTL, MaxNow} \subseteq Nat \ {0}
  /\ MaxFaults \in Nat

VARIABLES
  token,   \* refresh_tokens: none, live or revoked
  born,    \* the time their expiry counts from
  iat,     \* issued-at second of each access token
  active,  \* users.is_active
  denied,  \* Redis: access tokens on the denylist
  cutoff,  \* Redis: the user's cutoff second; 0 when unset
  now,     \* the clock, in whole seconds
  jar,     \* the refresh cookie of each browser
  access,  \* the access token its page holds in memory
  call,    \* the calls
  astray,  \* history: tokens presented twice at once, lost, or displaced in a jar
  ended,   \* history: live tokens that a logout, a logout-all or an alarm revoked
  racing,  \* history: refreshes past their lookup when that happened
  faults   \* faults injected so far

db == <<token, born, iat, active>>
redis == <<denied, cutoff>>
client == <<jar, access>>
history == <<astray, ended, racing>>
vars == <<db, redis, now, client, call, history, faults>>

Tokens == 1..(Cardinality(Browsers) + Cardinality(Calls))
Ops == {"api", "load", "login", "logout", "logoutAll"}
Refreshing == {"lookup", "reuse", "rotate", "sign", "deliver"}
Call == [op: Ops \cup {"none"}, from: Browsers \cup {NoBrowser},
         cookie: Tokens \cup {0}, access: Tokens \cup {0}, got: Tokens \cup {0},
         stamp: 0..MaxNow, again: BOOLEAN,
         pc: Refreshing \cup {"new", "check", "refused", "verify", "issue", "revoke",
                              "deny", "sweep", "cut", "clear", "error", "done", "failed"}]
NotMade == [op |-> "none", from |-> NoBrowser, cookie |-> 0, access |-> 0,
            got |-> 0, stamp |-> 0, again |-> FALSE, pc |-> "new"]

TypeOK ==
  /\ token \in [Tokens -> {"none", "live", "revoked"}]
  /\ {born, iat} \subseteq [Tokens -> 0..MaxNow]
  /\ active \in BOOLEAN
  /\ denied \subseteq Tokens /\ cutoff \in 0..MaxNow /\ now \in 1..MaxNow
  /\ {jar, access} \subseteq [Browsers -> Tokens \cup {0}]
  /\ call \in [Calls -> Call]
  /\ astray \subseteq Tokens /\ ended \subseteq Tokens /\ racing \subseteq Calls
  /\ faults \in 0..MaxFaults

\* Every browser is signed in, the first a second longer than the others.
Init ==
  /\ token = [t \in Tokens |-> IF t \in Browsers THEN "live" ELSE "none"]
  /\ born = [t \in Tokens |-> IF t \in Browsers \ {1} THEN 1 ELSE 0]
  /\ iat = born
  /\ active = TRUE
  /\ denied = {} /\ cutoff = 0 /\ now = 1
  /\ jar = [b \in Browsers |-> b]
  /\ access = jar
  /\ call = [c \in Calls |-> NotMade]
  /\ astray = {} /\ ended = {} /\ racing = {}
  /\ faults = 0

Fault == faults < MaxFaults /\ faults' = faults + 1

At(c, p) == call[c].pc = p

\* Where call k goes on; a finished one keeps what the properties look at.
On(k, p) ==
  IF p \in {"done", "failed"}
  THEN [NotMade EXCEPT !.cookie = k.cookie, !.got = k.got, !.pc = p]
  ELSE [k EXCEPT !.pc = p]
Goto(c, p) == call' = [call EXCEPT ![c] = On(@, p)]

-----------------------------------------------------------------------------
(* The web client.                                                         *)

\* Calls that present t to /auth/refresh and have not been answered.
Presenting(t) == {c \in Calls : call[c].pc \in Refreshing /\ call[c].cookie = t}

\* POST /auth/refresh sets out with the cookie of b; without one it is a 401.
Sent(k, b) == On([k EXCEPT !.cookie = jar[b]], IF jar[b] = 0 THEN "failed" ELSE "lookup")
Clash(b) == {t \in {jar[b]} \ {0} : Presenting(t) # {}}

\* A page sends a request: any from a page that is logged in, a login from the rest.
Request(c, b, op) ==
  /\ At(c, "new")
  /\ access[b] # 0 \/ op = "login"
  /\ call' = [call EXCEPT ![c] =
       [NotMade EXCEPT !.op = op, !.from = b, !.access = access[b],
                       !.cookie = IF op = "logout" THEN jar[b] ELSE 0,
                       !.pc = IF op = "login" THEN "verify" ELSE "check"]]
  /\ UNCHANGED <<db, redis, now, client, history, faults>>

\* The page is loaded: its access token is gone, what it waited for will arrive
\* nowhere, and AuthProvider starts with a refresh.
Load(c, b) ==
  /\ At(c, "new")
  /\ access' = [access EXCEPT ![b] = 0]
  /\ call' = [d \in Calls |->
       IF d = c THEN Sent([NotMade EXCEPT !.op = "load", !.from = b], b)
       ELSE IF call[d].from = b THEN [call[d] EXCEPT !.from = NoBrowser] ELSE call[d]]
  /\ astray' = astray \cup Clash(b)
  /\ UNCHANGED <<db, redis, now, jar, ended, racing, faults>>

\* request() meets a 401: one refresh, unless this was the retry.
Refused(c) ==
  LET b == call[c].from
  IN /\ At(c, "refused")
     /\ IF b = NoBrowser
        THEN Goto(c, "done") /\ UNCHANGED astray
        ELSE call' = [call EXCEPT ![c] = Sent(@, b)] /\ astray' = astray \cup Clash(b)
     /\ UNCHANGED <<db, redis, now, client, ended, racing, faults>>

-----------------------------------------------------------------------------
(* The access-token check.                                                 *)

Lapsed(t) == now >= iat[t] + AccessTTL
Expired(t) == now >= born[t] + RefreshTTL

\* isAccessTokenRevoked and userTokenCutoff, with Redis answering.
Revoked(t) == t \in denied \/ iat[t] < cutoff

\* Where a request goes from authenticate (optionalAuthenticate for a logout).
Passed(op) == CASE op = "api" -> "done" [] op = "logout" -> "revoke" [] OTHER -> "sweep"
Turned(k) ==
  CASE k.op = "logout" -> "revoke"
    [] k.op = "api" /\ ~k.again -> "refused"
    [] OTHER -> "failed"

\* resolveAuth; with Redis away the revocations are not looked at, and a Redis
\* command that fails is a 500 (which optionalAuthenticate swallows).
Check(c) ==
  LET k == call[c]
      good == ~Lapsed(k.access)
      pass == Goto(c, Passed(k.op))
      turn == call' = [call EXCEPT ![c] = On([k EXCEPT !.access = 0], Turned(k))]
  IN /\ At(c, "check")
     /\ \/ good /\ ~Revoked(k.access) /\ pass /\ UNCHANGED faults
        \/ (good => Revoked(k.access)) /\ turn /\ UNCHANGED faults
        \/ good /\ Revoked(k.access) /\ Fault /\ pass
        \/ good /\ Fault /\ IF k.op = "logout" THEN turn ELSE Goto(c, "done")
     /\ UNCHANGED <<db, redis, now, client, history>>

-----------------------------------------------------------------------------
(* POST /auth/refresh.                                                     *)

\* Seeded fault: reuse is what domain/auth.ts calls so, a revoked token that was
\* rotated; any other goes on.
LookupRotatedOnly(c) ==
  LET t == call[c].cookie
  IN /\ At(c, "lookup")
     /\ call' = [call EXCEPT ![c] = On([@ EXCEPT !.stamp = now],
          IF token[t] = "revoked" /\ t \notin ended THEN "reuse"
          ELSE IF Expired(t) \/ ~active THEN "failed" ELSE "rotate")]
     /\ UNCHANGED <<db, redis, now, client, history, faults>>

\* The token and its user are read once, here.
Lookup(c) ==
  LET t == call[c].cookie
  IN /\ At(c, "lookup")
     /\ call' = [call EXCEPT ![c] = On([@ EXCEPT !.stamp = now],
          IF token[t] = "revoked" THEN "reuse"
          ELSE IF Expired(t) \/ ~active THEN "failed" ELSE "rotate")]
     /\ UNCHANGED <<db, redis, now, client, history, faults>>

Live == {t \in Tokens : token[t] = "live"}

\* Tokens S are revoked by something other than their own rotation.
End(S) ==
  /\ token' = [t \in Tokens |-> IF t \in S THEN "revoked" ELSE token[t]]
  /\ ended' = ended \cup S
  /\ racing' = racing \cup {c \in Calls : At(c, "rotate") /\ call[c].cookie \in S}
  /\ UNCHANGED <<born, iat, active, astray>>

\* Reuse: the whole family is revoked, and the answer is a 401.
Alarm(c) ==
  /\ At(c, "reuse")
  /\ End(Live)
  /\ Goto(c, "failed")
  /\ UNCHANGED <<redis, now, client, faults>>

\* The number of the next row of refresh_tokens.
NextToken == 1 + Cardinality({t \in Tokens : token[t] # "none"})

\* Seeded fault: the old token is linked to its successor and stays unrevoked.
RotateUnrevoked(c) ==
  /\ At(c, "rotate")
  /\ token' = [token EXCEPT ![NextToken] = "live"]
  /\ born' = [born EXCEPT ![NextToken] = call[c].stamp]
  /\ call' = [call EXCEPT ![c].got = NextToken, ![c].stamp = 0, ![c].pc = "sign"]
  /\ UNCHANGED <<iat, active, redis, now, client, history, faults>>

\* The transaction creates the successor and revokes the presented token without
\* looking at it again.
Rotate(c) ==
  /\ At(c, "rotate")
  /\ token' = [token EXCEPT ![call[c].cookie] = "revoked", ![NextToken] = "live"]
  /\ born' = [born EXCEPT ![NextToken] = call[c].stamp]
  /\ call' = [call EXCEPT ![c].got = NextToken, ![c].stamp = 0, ![c].pc = "sign"]
  /\ UNCHANGED <<iat, active, redis, now, client, history, faults>>

Sign(c) ==
  /\ At(c, "sign")
  /\ iat' = [iat EXCEPT ![call[c].got] = now]
  /\ Goto(c, "deliver")
  /\ UNCHANGED <<token, born, active, redis, now, client, history, faults>>

\* Seeded fault: the answer carries the access token only.
SetCookieNever(c, b) == UNCHANGED <<jar, astray>>

\* The cookie is replaced; what it displaces, its own predecessor apart, is out
\* of reach from now on.
SetCookie(c, b) ==
  /\ jar' = [jar EXCEPT ![b] = call[c].got]
  /\ astray' = astray \cup ({jar[b]} \ {0, call[c].cookie})

\* sendAuthResult reaches the page: a refused request is sent once more.
Deliver(c) ==
  LET b == call[c].from
  IN /\ At(c, "deliver") /\ b # NoBrowser
     /\ SetCookie(c, b)
     /\ access' = [access EXCEPT ![b] = call[c].got]
     /\ call' = [call EXCEPT ![c] =
          On([@ EXCEPT !.access = call[c].got, !.again = TRUE],
             IF call[c].op = "api" THEN "check" ELSE "done")]
     /\ UNCHANGED <<db, redis, now, ended, racing, faults>>

\* It does not: the browser keeps its cookie, which is revoked by now.
Lose(c) ==
  /\ At(c, "deliver")
  /\ IF call[c].from = NoBrowser THEN UNCHANGED faults ELSE Fault
  /\ astray' = astray \cup ({call[c].cookie, call[c].got} \ {0})
  /\ Goto(c, "done")
  /\ UNCHANGED <<db, redis, now, client, ended, racing>>

-----------------------------------------------------------------------------
(* Login, logout and logout-all.                                           *)

\* login(): the account is read and the access token signed ...
Verify(c) ==
  /\ At(c, "verify")
  /\ call' = [call EXCEPT ![c] =
       On([@ EXCEPT !.stamp = now], IF active THEN "issue" ELSE "failed")]
  /\ UNCHANGED <<db, redis, now, client, history, faults>>

\* ... before the refresh token is created.
Issue(c) ==
  /\ At(c, "issue")
  /\ token' = [token EXCEPT ![NextToken] = "live"]
  /\ born' = [born EXCEPT ![NextToken] = now]
  /\ iat' = [iat EXCEPT ![NextToken] = call[c].stamp]
  /\ call' = [call EXCEPT ![c].got = NextToken, ![c].stamp = 0, ![c].pc = "deliver"]
  /\ UNCHANGED <<active, redis, now, client, history, faults>>

\* logout() revokes the token of the cookie, if nobody has yet.
RevokePresented(c) ==
  /\ At(c, "revoke")
  /\ End({call[c].cookie} \cap Live)
  /\ Goto(c, "deny")
  /\ UNCHANGED <<redis, now, client, faults>>

\* What writes to Redis can do: happen, be skipped, or fail the request.
Written(c, D, at) ==
  \/ /\ denied' = denied \cup D /\ cutoff' = at
     /\ Goto(c, "clear") /\ UNCHANGED faults
  \/ Fault /\ Goto(c, "clear") /\ UNCHANGED redis
  \/ Fault /\ Goto(c, "error") /\ UNCHANGED redis

\* The access token that got the request in, unless it has lapsed meanwhile.
Own(c) == {t \in {call[c].access} \ {0} : ~Lapsed(t)}

Deny(c) ==
  /\ At(c, "deny")
  /\ Written(c, Own(c), cutoff)
  /\ UNCHANGED <<db, now, client, history>>

\* logoutAll() revokes every token of the user ...
Sweep(c) ==
  /\ At(c, "sweep")
  /\ End(Live)
  /\ Goto(c, "cut")
  /\ UNCHANGED <<redis, now, client, faults>>

\* ... and only then takes the second of the cutoff.
Cut(c) ==
  /\ At(c, "cut")
  /\ Written(c, Own(c), now)
  /\ UNCHANGED <<db, now, client, history>>

\* clearRefreshCookie; after a 500 the cookie stays.  The page forgets its access
\* token in either case (so does, here, whatever client calls logout-all).
Clear(c) ==
  LET b == call[c].from
  IN /\ call[c].pc \in {"clear", "error"}
     /\ IF b = NoBrowser
        THEN UNCHANGED <<client, astray>>
        ELSE /\ access' = [access EXCEPT ![b] = 0]
             /\ IF At(c, "error")
                THEN UNCHANGED <<jar, astray>>
                ELSE /\ jar' = [jar EXCEPT ![b] = 0]
                     /\ astray' = astray \cup ({jar[b]} \ {0, call[c].cookie})
     /\ Goto(c, "done")
     /\ UNCHANGED <<db, redis, now, ended, racing, faults>>

\* updateUser: the request of an administrator disables the account.
Deactivate(c) ==
  /\ At(c, "new") /\ active
  /\ active' = FALSE
  /\ Goto(c, "done")
  /\ UNCHANGED <<token, born, iat, redis, now, client, history, faults>>

Tick ==
  /\ now < MaxNow /\ now' = now + 1
  /\ UNCHANGED <<db, redis, client, call, history, faults>>

-----------------------------------------------------------------------------
Make(c) ==
  \/ \E b \in Browsers : Load(c, b) \/ \E op \in Ops \ {"load"} : Request(c, b, op)
  \/ Deactivate(c)

Serve(c) ==
  \/ Check(c) \/ Lookup(c) \/ Alarm(c) \/ Rotate(c) \/ Sign(c) \/ Verify(c)
  \/ Issue(c) \/ RevokePresented(c) \/ Deny(c) \/ Sweep(c) \/ Cut(c)

Answer(c) == Refused(c) \/ Deliver(c) \/ Lose(c) \/ Clear(c)

Next ==
  \/ \E c \in Calls : Make(c) \/ Serve(c) \/ Answer(c)
  \/ Tick

Spec == Init /\ [][Next]_vars

-----------------------------------------------------------------------------
(* Properties.                                                             *)

\* What explains that refresh token t, or access token t, no longer works.
Spent(t) == t = 0 \/ t \in astray \cup ended \/ Expired(t)
Withdrawn(t) == t # 0 /\ (Lapsed(t) \/ Revoked(t))

\* The user is turned away (a failed request, a failed page load) only for a
\* reason: the session was ended, the account disabled, the token expired, the
\* answer with its successor lost, or two refreshes presented it at once; a retry
\* only because its new access token lapsed or was revoked in turn.  One request at
\* a time, rotation never turns against its own browser
\* (auth.service.ts:91-139, api.ts:64-71).
TurnedAwayForAReason ==
  \A c \in Calls : At(c, "failed") =>
    ~active \/ Spent(call[c].cookie) \/ Withdrawn(call[c].got)

\* Every unrevoked refresh token can be found: some browser holds it, or it is on
\* its way to one, or it went astray; rotation leaves none behind.
LiveTokensAreHeld ==
  \A t \in Live :
    \/ t \in astray
    \/ \E b \in Browsers : jar[b] = t
    \/ \E c \in Calls : call[c].got = t /\ call[c].pc \in {"sign", "deliver"}

\* A session that a logout, a logout-all or a reuse alarm ended has an heir only
\* through a refresh that had read its token before (auth.service.ts:93, :118).
HeirsWereRacing ==
  \A c \in Calls : call[c].got # 0 /\ call[c].cookie \in ended => c \in racing
=============================================================================
