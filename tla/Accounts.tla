------------------------------- MODULE Accounts -------------------------------
(***************************************************************************)
(* Accounts, logins and sessions: internal/auth, the users and sessions of *)
(* the store, the authenticate middleware and the account endpoints of     *)
(* internal/api, and the "nsl user" commands that write the same database  *)
(* from another process.                                                   *)
(*                                                                         *)
(* A login and a request run in several steps, one for each call that      *)
(* reads or writes shared state, so logins, requests, administrators and   *)
(* the command line interleave in every way.  A step may also be the last  *)
(* of its handler: the store fails or the client goes away.                *)
(*                                                                         *)
(* A password stands for itself and a hash for the password it was made    *)
(* of.  A session is named after the login that made it: its id is random, *)
(* and a login makes one at most.  Left out: the locale and the wording of *)
(* answers, cookies beyond the session id they carry.                      *)
(***************************************************************************)
EXTENDS RateLimiter, Sequences

CONSTANTS
    Names,          \* account names
    Root,           \* the first administrator
    Passwords,
    Logins,         \* POST /api/auth/login handlers
    Requests,       \* handlers behind the authenticate middleware
    PatchBodies,    \* bodies of PATCH /api/admin/users/{id}
    SessionTTL,
    TouchInterval,
    MaxClock        \* bound on the clock

ASSUME AccountsAssumption ==
    /\ Root \in Names
    /\ {SessionTTL, TouchInterval, MaxClock} \subseteq Nat

VARIABLES
    users,      \* rows of users: Absent or password, role and disabled_at
    sessions,   \* rows of sessions, by id
    limiter,    \* RateLimiter.entries
    clock,
    login,      \* where each login is, and what it has read
    request,    \* the same for each request
    \* History: the failures of each address that the limiter has to count and
    \* the block they led to.
    strikes

accountVars == <<users, sessions, limiter, clock, login, request, strikes>>

Absent == [password |-> "none", role |-> "none", disabled |-> TRUE]
NoPassword == "none"   \* the seeded account "local": password_hash IS NULL
Roles == {"admin", "user"}
Keep == "keep"         \* a field the body of a patch does not have

User == [password : Passwords \cup {NoPassword}, role : Roles, disabled : BOOLEAN]
SessionRow == [user : Names, lastSeen : Nat, expires : Nat]
PatchBody == [role : Roles \cup {Keep}, password : Passwords \cup {Keep},
         disabled : {"disable", "enable", Keep}]

ASSUME PatchAssumption == PatchBodies # {} /\ PatchBodies \subseteq PatchBody

NoBody == [role |-> Keep, password |-> Keep, disabled |-> Keep]
NoSession == [user |-> Root, lastSeen |-> 0, expires |-> 0]

IdleLogin ==
    [pc |-> "idle", key |-> Keep, name |-> Root, guess |-> NoPassword,
     row |-> Absent, fresh |-> FALSE, allowedAt |-> 0]
DoneLogin == [IdleLogin EXCEPT !.pc = "done"]
IdleRequest ==
    [pc |-> "idle", session |-> Keep, row |-> NoSession, me |-> Root,
     role |-> "none", target |-> Root, body |-> NoBody, writes |-> <<>>, dead |-> FALSE, barred |-> FALSE]

SeededLocal == [password |-> NoPassword, role |-> "user", disabled |-> TRUE]

InitAccounts(now) ==
    /\ \E other \in {Absent, SeededLocal}, p \in Passwords :
         users = [n \in Names |->
                    IF n = Root
                    THEN [password |-> p, role |-> "admin", disabled |-> FALSE]
                    ELSE other]
    /\ sessions = <<>>
    /\ limiter = <<>>
    /\ clock = now
    /\ login = [l \in Logins |-> IdleLogin]
    /\ request = [r \in Requests |-> IdleRequest]
    /\ strikes = [k \in Keys |-> [count |-> 0, last |-> 0, blockedAt |-> 0]]

Tick ==
    /\ clock < MaxClock
    /\ clock' = clock + 1
    /\ UNCHANGED <<users, sessions, limiter, login, request, strikes>>

-----------------------------------------------------------------------------
(* Login *)

LoginAllow(l, key, name, guess) ==
    /\ login[l].pc = "idle"
    /\ ~ Blocked(limiter, key, clock)
    /\ limiter' = AfterAllow(limiter, key)
    /\ login' = [login EXCEPT ![l] =
          [IdleLogin EXCEPT !.pc = "lookup", !.key = key, !.name = name,
                            !.guess = guess, !.fresh = TRUE, !.allowedAt = clock]]
    /\ UNCHANGED <<users, sessions, clock, request, strikes>>

LoginLookup(l) ==
    /\ login[l].pc = "lookup"
    /\ login' = [login EXCEPT ![l].pc = "verify", ![l].row = users[login[l].name]]
    /\ UNCHANGED <<users, sessions, limiter, clock, request, strikes>>

\* A hash fits the password it was made of and no other.
VerifyPassword(hash, password) == hash = password

\* An account that is absent or has no password is verified against a hash that is
\* not its own, and never matches.
Matches(l) ==
    /\ login[l].row.password # NoPassword
    /\ VerifyPassword(login[l].row.password, login[l].guess)

\* The history of an address after a failure of a login that was allowed since
\* its last block, and what it is once the limiter has blocked it.
Struck(s, l) ==
    IF ~ login[l].fresh
    THEN s
    ELSE [s EXCEPT !.count = 1 + IF clock - s.last > BlockFor THEN 0 ELSE s.count,
                   !.last = clock]

LoginInvalid(l) ==
    /\ login[l].pc = "verify"
    /\ ~ Matches(l)
    /\ LET key == login[l].key
           after == AfterFail(limiter, key, clock)
           blocks == key \in DOMAIN after /\ after[key].blockedUntil = clock + BlockFor
       IN  /\ limiter' = after
           /\ strikes' = [strikes EXCEPT ![key] =
                 IF blocks THEN [count |-> 0, last |-> clock, blockedAt |-> clock]
                           ELSE Struck(@, l)]
           /\ login' = [m \in Logins |->
                 IF m = l THEN IdleLogin
                 ELSE IF blocks /\ login[m].key = key
                      THEN [login[m] EXCEPT !.fresh = FALSE]
                      ELSE login[m]]
    /\ UNCHANGED <<users, sessions, clock, request>>

LoginDisabled(l) ==
    /\ login[l].pc = "verify"
    /\ Matches(l)
    /\ login[l].row.disabled
    /\ login' = [login EXCEPT ![l] = IdleLogin]
    /\ UNCHANGED <<users, sessions, limiter, clock, request, strikes>>

LoginReset(l) ==
    /\ login[l].pc = "verify"
    /\ Matches(l)
    /\ ~ login[l].row.disabled
    /\ limiter' = AfterReset(limiter, login[l].key)
    /\ strikes' = [strikes EXCEPT ![login[l].key] =
                      [count |-> 0, last |-> 0, blockedAt |-> 0]]
    /\ login' = [login EXCEPT ![l] =
          [IdleLogin EXCEPT !.pc = "create", !.name = login[l].name]]
    /\ UNCHANGED <<users, sessions, clock, request>>

WithSession(id, name) ==
    [s \in DOMAIN sessions \cup {id} |->
        IF s = id THEN [user |-> name, lastSeen |-> clock, expires |-> clock + SessionTTL]
                  ELSE sessions[s]]

LoginCreate(l) ==
    /\ login[l].pc = "create"
    /\ sessions' = WithSession(l, login[l].name)
    /\ login' = [login EXCEPT ![l] = DoneLogin]
    /\ UNCHANGED <<users, limiter, clock, request, strikes>>

LoginFails(l) ==
    /\ login[l].pc \in {"lookup", "verify", "create"}
    /\ login' = [login EXCEPT ![l] = IdleLogin]
    /\ UNCHANGED <<users, sessions, limiter, clock, request, strikes>>

-----------------------------------------------------------------------------
(* Authenticate, the middleware of every request but login *)

HasAccount(n) == users[n] # Absent

LiveSession(s) == s \in DOMAIN sessions /\ sessions[s].expires > clock

\* A browser sends the cookie of a login that was answered.
Arrive(r, s) ==
    /\ request[r].pc = "idle"
    /\ login[s].pc = "done"
    /\ request' = [request EXCEPT ![r] =
          [IdleRequest EXCEPT !.pc = "get", !.session = s, !.dead = ~ LiveSession(s),
                              !.barred = s \in DOMAIN sessions /\ users[sessions[s].user].disabled]]
    /\ UNCHANGED <<users, sessions, limiter, clock, login, strikes>>

GetSession(r) ==
    LET s == request[r].session IN
    /\ request[r].pc = "get"
    /\ request' = [request EXCEPT ![r] =
          IF LiveSession(s)
          THEN [@ EXCEPT !.pc = "user", !.row = sessions[s], !.me = sessions[s].user]
          ELSE IdleRequest]
    /\ UNCHANGED <<users, sessions, limiter, clock, login, strikes>>

\* Mutant: a session alone is enough.
AnyByID(r) ==
    LET me == request[r].me IN
    /\ request[r].pc = "user"
    /\ request' = [request EXCEPT ![r].pc = "served", ![r].role = users[me].role]
    /\ UNCHANGED <<users, sessions, limiter, clock, login, strikes>>

UserByID(r) ==
    LET me == request[r].me IN
    /\ request[r].pc = "user"
    /\ request' = [request EXCEPT ![r] =
          IF ~ HasAccount(me) \/ users[me].disabled
          THEN IdleRequest
          ELSE [@ EXCEPT !.pc = IF clock - request[r].row.lastSeen >= TouchInterval
                                THEN "touch" ELSE "served",
                         !.role = users[me].role, !.row = NoSession]]
    /\ UNCHANGED <<users, sessions, limiter, clock, login, strikes>>

Touched(s) ==
    [sessions EXCEPT ![s].lastSeen = clock, ![s].expires = clock + SessionTTL]

\* Touch updates the row and refuses the request when there is none any more.  It
\* does not look at the expiry again, so it can revive a session that expired
\* since it was read; whoever waits with that session is no longer dead.
Touch(r) ==
    LET s == request[r].session IN
    /\ request[r].pc = "touch"
    /\ IF s \in DOMAIN sessions
       THEN /\ sessions' = Touched(s)
            /\ request' = [q \in Requests |->
                  [request[q] EXCEPT
                     !.pc = IF q = r THEN "served" ELSE @,
                     !.dead = @ /\ request[q].session # s]]
       ELSE /\ request' = [request EXCEPT ![r] = IdleRequest]
            /\ UNCHANGED sessions
    /\ UNCHANGED <<users, limiter, clock, login, strikes>>

Answer(r) ==
    /\ request[r].pc # "idle"
    /\ request' = [request EXCEPT ![r] = IdleRequest]
    /\ UNCHANGED <<users, sessions, limiter, clock, login, strikes>>

DeleteSession(s) == Without(sessions, s)

Logout(r) ==
    /\ request[r].pc = "served"
    /\ sessions' = DeleteSession(request[r].session)
    /\ request' = [request EXCEPT ![r] = IdleRequest]
    /\ UNCHANGED <<users, limiter, clock, login, strikes>>

-----------------------------------------------------------------------------
(* The account endpoints, behind requireAdmin: the role is the one that the *)
(* middleware read.                                                         *)

ServedAdmin(r) == request[r].pc = "served" /\ request[r].role = "admin"

\* Users.Create: a name that is taken is refused by the database.
WithUser(n, password, role) ==
    IF HasAccount(n)
    THEN users
    ELSE [users EXCEPT ![n] = [password |-> password, role |-> role, disabled |-> FALSE]]

CreateUser(r, n, password, role) ==
    /\ ServedAdmin(r)
    /\ users' = WithUser(n, password, role)
    /\ request' = [request EXCEPT ![r] = IdleRequest]
    /\ UNCHANGED <<sessions, limiter, clock, login, strikes>>

\* The writes of a patch in the order in which patchUser makes them.
PatchWrites(body) ==
    (IF body.role = Keep THEN <<>> ELSE <<"role">>)
    \o (IF body.password = Keep THEN <<>> ELSE <<"password">>)
    \o (CASE body.disabled = Keep -> <<>>
          [] body.disabled = "disable" -> <<"disable", "purge">>
          [] body.disabled = "enable" -> <<"enable">>)

PatchUser(r, n, body) ==
    /\ ServedAdmin(r)
    /\ n # request[r].me
    /\ HasAccount(n)
    /\ request' = [request EXCEPT ![r].pc = "patch", ![r].target = n,
                                  ![r].body = body, ![r].writes = PatchWrites(body)]
    /\ UNCHANGED <<users, sessions, limiter, clock, login, strikes>>

\* Nobody holds account n back any more: neither the requests that know whose they
\* are, nor those that have yet to read the session.
Released(n) ==
    LET owner(q) == IF request[q].pc # "get" THEN request[q].me
                    ELSE IF request[q].session \in DOMAIN sessions
                         THEN sessions[request[q].session].user ELSE Keep
    IN  [q \in Requests |-> [request[q] EXCEPT !.barred = @ /\ owner(q) # n]]

\* One column of the row of an account.
Updated(row, write, body) ==
    CASE write = "role" -> [row EXCEPT !.role = body.role]
      [] write = "password" -> [row EXCEPT !.password = body.password]
      [] write = "disable" -> [row EXCEPT !.disabled = TRUE]
      [] write = "enable" -> [row EXCEPT !.disabled = FALSE]
      [] write = "purge" -> row

SessionsWithout(n) ==
    Restrict(sessions, {s \in DOMAIN sessions : sessions[s].user # n})

\* One write of a patch.  The handler may fail before any of them (Answer): the
\* writes it has made stay.
PatchWrite(r) ==
    LET n == request[r].target
        body == request[r].body
        write == Head(request[r].writes)
        waiting == IF write = "enable" THEN Released(n) ELSE request
    IN
    /\ request[r].pc = "patch"
    /\ request[r].writes # <<>>
    /\ users' = [users EXCEPT ![n] = Updated(@, write, body)]
    /\ sessions' = IF write = "purge" THEN SessionsWithout(n) ELSE sessions
    /\ request' = [waiting EXCEPT ![r].writes = Tail(@)]
    /\ UNCHANGED <<limiter, clock, login, strikes>>

-----------------------------------------------------------------------------
(* The command line, a process of its own on the same database *)

CliAdd(n, password, role) ==
    /\ ~ HasAccount(n)
    /\ users' = WithUser(n, password, role)
    /\ UNCHANGED <<sessions, limiter, clock, login, request, strikes>>

CliPasswd(n, password) ==
    /\ HasAccount(n)
    /\ users' = [users EXCEPT ![n].password = password]
    /\ UNCHANGED <<sessions, limiter, clock, login, request, strikes>>

CliSetDisabled(n, disabled) ==
    /\ HasAccount(n)
    /\ users' = [users EXCEPT ![n].disabled = disabled]
    /\ request' = IF disabled THEN request ELSE Released(n)
    /\ UNCHANGED <<sessions, limiter, clock, login, strikes>>

-----------------------------------------------------------------------------
NextLogin(l) ==
    \/ \E k \in Keys, n \in Names, guess \in Passwords \cup {NoPassword} :
          LoginAllow(l, k, n, guess)
    \/ LoginLookup(l) \/ LoginInvalid(l) \/ LoginDisabled(l)
    \/ LoginReset(l) \/ LoginCreate(l) \/ LoginFails(l)

NextRequest(r) ==
    \/ \E s \in Logins : Arrive(r, s)
    \/ GetSession(r) \/ UserByID(r) \/ Touch(r) \/ Answer(r) \/ Logout(r)
    \/ \E n \in Names, p \in Passwords, role \in Roles : CreateUser(r, n, p, role)
    \/ \E n \in Names, body \in PatchBodies : PatchUser(r, n, body)
    \/ PatchWrite(r)

NextCli ==
    \E n \in Names :
        \/ \E p \in Passwords, role \in Roles : CliAdd(n, p, role)
        \/ \E p \in Passwords : CliPasswd(n, p)
        \/ \E disabled \in BOOLEAN : CliSetDisabled(n, disabled)

NextAccounts ==
    \/ Tick
    \/ \E l \in Logins : NextLogin(l)
    \/ \E r \in Requests : NextRequest(r)
    \/ NextCli

-----------------------------------------------------------------------------
\* A request is served only with a session that was alive, and for an account that
\* was enabled, at some time since the request arrived: a session that expired, was
\* logged out or purged, and an account disabled by a patch or on the command line,
\* let nothing through that arrives later (Authenticate, api.authenticate).
ServedIsEntitled ==
    \A r \in Requests :
        request[r].pc \in {"touch", "served", "patch"} =>
            ~ request[r].dead /\ ~ request[r].barred

\* However logins from one address interleave, it never has MaxFailures failures
\* without being blocked, and a login that is under way since the last block
\* passed Allow only after LoginBlockFor (RateLimiter.Fail, Allow and prune).
GuessesLimited ==
    /\ \A k \in Keys : strikes[k].count < MaxFailures
    /\ \A l \in Logins :
         (login[l].pc # "done" /\ login[l].fresh /\ strikes[login[l].key].blockedAt # 0) =>
            login[l].allowedAt >= strikes[login[l].key].blockedAt + BlockFor

=============================================================================
