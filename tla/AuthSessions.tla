---------------------------- MODULE AuthSessions ----------------------------
(***************************************************************************)
(* Refresh sessions (src/modules/auth/auth.service.ts and the routes of    *)
(* auth.controller.ts): login, refresh with token rotation, logout, the    *)
(* access check of every authenticated route and account deletion, run as  *)
(* concurrent calls on the AuthSession table.                              *)
(*                                                                         *)
(* Each prisma call is one atomic step; a call that makes two is two       *)
(* actions.  The n-th refresh token of a session is the number n: the      *)
(* stored hash of a token is the token itself.  A call is used once, and   *)
(* remembers (history) of when it began the row it found, whether its      *)
(* token was the newest, and which calls had finished.                     *)
(***************************************************************************)
EXTENDS Integers, FiniteSets

CONSTANTS
  User,        \* accounts
  Session,     \* session ids (randomUUID)
  Call,        \* requests
  Lifetime,    \* JWT_REFRESH_EXPIRES_IN
  MaxTokens,   \* bound on the refresh tokens of a session
  MaxTime,     \* bound on the clock
  Nobody       \* no user, no session

ASSUME NobodyAssumption   == Nobody \notin User \cup Session
ASSUME LifetimeAssumption == Lifetime \in Nat \ {0}
ASSUME BoundAssumption    == MaxTokens \in Nat \ {0} /\ MaxTime \in Nat

VARIABLES
  now,
  users,       \* rows of User
  sessions,    \* rows of AuthSession
  issued,      \* refresh tokens made for each session so far
  calls        \* the requests

vars == <<now, users, sessions, issued, calls>>

Token == 0 .. MaxTokens
Row   == [user : User, token : Token, createdAt : 0 .. MaxTime,
          expiresAt : 0 .. MaxTime + Lifetime, revoked : BOOLEAN]
NoRow == [user |-> Nobody]

Op == {"login", "refresh", "logout", "logoutOne", "logoutAll", "access",
       "snapshot", "delete"}

NewCall == [op |-> "none", stage |-> "unused", user |-> Nobody,
            session |-> Nobody, token |-> 0, newest |-> FALSE,
            row |-> NoRow, after |-> {}]

CallState ==
  [op : Op \cup {"none"}, stage : {"unused", "running", "ok", "failed"},
   user : User \cup {Nobody}, session : Session \cup {Nobody},
   token : Token, newest : BOOLEAN, row : Row \cup {NoRow},
   after : SUBSET Call]

TypeOK ==
  /\ now \in 0 .. MaxTime
  /\ users \subseteq User
  /\ sessions \in [Session -> Row \cup {NoRow}]
  /\ \A s \in Session : sessions[s] # NoRow => sessions[s].user \in users
  /\ issued \in [Session -> Token]
  /\ calls \in [Call -> CallState]

Init ==
  /\ now = 0
  /\ users = User
  /\ sessions = [s \in Session |-> NoRow]
  /\ issued = [s \in Session |-> 0]
  /\ calls = [c \in Call |-> NewCall]

Exists(s)   == sessions[s] # NoRow
Finished(c) == calls[c].stage \in {"ok", "failed"}

(* Neither revoked nor expired: what refreshSession, validateAccessSession *)
(* and getSessionSnapshot all ask of the row.                              *)
Open(s) == Exists(s) /\ ~sessions[s].revoked /\ now < sessions[s].expiresAt

Begins(c, call) ==
  /\ calls[c].stage = "unused"
  /\ calls' = [calls EXCEPT ![c] =
                 [call EXCEPT !.after = {d \in Call : Finished(d)}]]

Running(c, op) == calls[c].op = op /\ calls[c].stage = "running"

Ends(c, stage) == calls' = [calls EXCEPT ![c].stage = stage]

Verdict(ok) == IF ok THEN "ok" ELSE "failed"

-----------------------------------------------------------------------------
(* loginUser, loginWithGoogle, loginWithApple: the account is found.       *)
LoginVerifies(c, u) ==
  /\ u \in users
  /\ Begins(c, [NewCall EXCEPT !.op = "login", !.stage = "running",
                               !.user = u])
  /\ UNCHANGED <<now, users, sessions, issued>>

(* The foreign key of AuthSession.userId refuses a deleted account.        *)
LoginCreates(c) ==
  /\ Running(c, "login")
  /\ \/ /\ calls[c].user \in users
        /\ \E s \in Session :
             /\ issued[s] = 0
             /\ sessions' = [sessions EXCEPT ![s] =
                  [user |-> calls[c].user, token |-> 1, createdAt |-> now,
                   expiresAt |-> now + Lifetime, revoked |-> FALSE]]
             /\ issued' = [issued EXCEPT ![s] = 1]
             /\ calls' = [calls EXCEPT ![c].stage = "ok",
                                       ![c].session = s, ![c].token = 1]
     \/ /\ calls[c].user \notin users
        /\ Ends(c, "failed")
        /\ UNCHANGED <<sessions, issued>>
  /\ UNCHANGED <<now, users>>

(* Variant: the presented token is not compared with the stored hash.      *)
AcceptsAnyToken(s, n) == Open(s)

RefreshAccepts(s, n) == Open(s) /\ sessions[s].token = n

RefreshReads(c, s, n) ==
  /\ n \in 1 .. issued[s]
  /\ Begins(c, [NewCall EXCEPT !.op = "refresh",
       !.stage = IF RefreshAccepts(s, n) THEN "running" ELSE "failed",
       !.session = s, !.token = n, !.newest = (n = issued[s]),
       !.row = sessions[s], !.user = sessions[s].user])
  /\ UNCHANGED <<now, users, sessions, issued>>

(* Variant: the row read before is saved whole, with the new hash.         *)
SavesRowItRead(c, row, n) == [calls[c].row EXCEPT !.token = n]

Rotated(c, row, n) == [row EXCEPT !.token = n]

(* authSession.update by id: revokedAt and expiresAt stay as they are, and *)
(* a row that is gone is an error.                                         *)
RefreshWrites(c) ==
  LET s == calls[c].session
      n == issued[s] + 1
  IN  /\ Running(c, "refresh")
      /\ \/ /\ Exists(s) /\ n <= MaxTokens
            /\ sessions' = [sessions EXCEPT ![s] = Rotated(c, @, n)]
            /\ issued' = [issued EXCEPT ![s] = n]
            /\ Ends(c, "ok")
         \/ /\ ~Exists(s)
            /\ Ends(c, "failed")
            /\ UNCHANGED <<sessions, issued>>
      /\ UNCHANGED <<now, users>>

-----------------------------------------------------------------------------
(* updateMany: the rows of which that are not revoked become revoked.      *)
Revokes(which) ==
  sessions' = [s \in Session |-> IF s \in which /\ Exists(s)
                                 THEN [sessions[s] EXCEPT !.revoked = TRUE]
                                 ELSE sessions[s]]

(* POST /auth/logout with a refresh token, up to its database call.        *)
LogoutArrives(c, s, n) ==
  /\ n \in 1 .. issued[s]
  /\ Begins(c, [NewCall EXCEPT !.op = "logout", !.stage = "running",
                  !.session = s, !.token = n, !.row = sessions[s]])
  /\ UNCHANGED <<now, users, sessions, issued>>

(* revokeSessionByRefreshToken: one conditional update.  "ok" is a count   *)
(* of one; the route answers loggedOut: true either way.                   *)
LogoutRevokes(c) ==
  LET s       == calls[c].session
      matches == Exists(s) /\ ~sessions[s].revoked
                           /\ sessions[s].token = calls[c].token
  IN  /\ Running(c, "logout")
      /\ Revokes(IF matches THEN {s} ELSE {})
      /\ Ends(c, Verdict(matches))
      /\ UNCHANGED <<now, users, issued>>

(* revokeSessionById with the session of the access token, which logout    *)
(* does not check against the table.                                       *)
LogoutOne(c, s) ==
  /\ issued[s] > 0
  /\ Begins(c, [NewCall EXCEPT !.op = "logoutOne", !.session = s,
                  !.stage = Verdict(Exists(s) /\ ~sessions[s].revoked)])
  /\ Revokes({s})
  /\ UNCHANGED <<now, users, issued>>

(* revokeAllUserSessions.                                                  *)
LogoutAll(c, u) ==
  /\ Begins(c, [NewCall EXCEPT !.op = "logoutAll", !.stage = "ok",
                               !.user = u])
  /\ Revokes({s \in Session : sessions[s].user = u})
  /\ UNCHANGED <<now, users, issued>>

(* authenticate -> validateAccessSession, in front of every such route.    *)
AccessCheck(c, s) ==
  /\ issued[s] > 0
  /\ Begins(c, [NewCall EXCEPT !.op = "access", !.stage = Verdict(Open(s)),
                               !.session = s, !.row = sessions[s]])
  /\ UNCHANGED <<now, users, sessions, issued>>

(* The routes that read or write more after the check.                     *)
Authenticates(c, op, s) ==
  /\ op \in {"snapshot", "delete"}
  /\ issued[s] > 0
  /\ Begins(c, [NewCall EXCEPT !.op = op,
       !.stage = IF Open(s) THEN "running" ELSE "failed",
       !.session = s, !.row = sessions[s], !.user = sessions[s].user])
  /\ UNCHANGED <<now, users, sessions, issued>>

(* getSessionSnapshot: the profile, then the session again.                *)
SnapshotAnswers(c) ==
  /\ Running(c, "snapshot")
  /\ Ends(c, Verdict(calls[c].user \in users /\ Open(calls[c].session)))
  /\ UNCHANGED <<now, users, sessions, issued>>

(* deleteUserAccount: one transaction; 404 when the row is gone already.   *)
DeleteCommits(c) ==
  LET u == calls[c].user
  IN  /\ Running(c, "delete")
      /\ Ends(c, Verdict(u \in users))
      /\ users' = users \ {u}
      /\ sessions' = [s \in Session |-> IF sessions[s].user = u
                                        THEN NoRow ELSE sessions[s]]
      /\ UNCHANGED <<now, issued>>

Tick ==
  /\ now < MaxTime
  /\ now' = now + 1
  /\ UNCHANGED <<users, sessions, issued, calls>>

Next ==
  \/ Tick
  \/ \E c \in Call :
       \/ \E u \in User : LoginVerifies(c, u) \/ LogoutAll(c, u)
       \/ LoginCreates(c) \/ RefreshWrites(c) \/ LogoutRevokes(c)
       \/ SnapshotAnswers(c) \/ DeleteCommits(c)
       \/ \E s \in Session :
            \/ LogoutOne(c, s) \/ AccessCheck(c, s)
            \/ \E op \in {"snapshot", "delete"} : Authenticates(c, op, s)
            \/ \E n \in Token : RefreshReads(c, s, n) \/ LogoutArrives(c, s, n)

Spec == Init /\ [][Next]_vars

-----------------------------------------------------------------------------
Ok(c, op)  == calls[c].op = op /\ calls[c].stage = "ok"
Uses(c, s) == /\ calls[c].session = s
              /\ calls[c].op \in {"refresh", "access", "snapshot", "delete"}

(* Two refreshes with the same token both succeed only if they overlapped: *)
(* once a rotation is answered, the token it replaced is dead              *)
(* (refreshSession compares the stored hash before it rotates).            *)
ReplayRejected ==
  \A c, d \in Call :
    /\ c # d /\ Ok(c, "refresh") /\ Ok(d, "refresh")
    /\ calls[c].session = calls[d].session
    /\ calls[c].token = calls[d].token
    => c \notin calls[d].after

(* What closes session s for good: a logout that found it, a logout of all *)
(* sessions of its user, or the deletion of the account.                   *)
Closes(c, s) ==
  LET owner == {calls[d].user : d \in {e \in Call : /\ Ok(e, "login")
                                                    /\ calls[e].session = s
                                                    /\ e \in calls[c].after}}
  IN  \/ (Ok(c, "logout") \/ Ok(c, "logoutOne")) /\ calls[c].session = s
      \/ (Ok(c, "logoutAll") \/ Ok(c, "delete")) /\ calls[c].user \in owner

(* A call that begins after a session was closed does not get through with *)
(* it, even if a refresh of that session was in flight when it was closed  *)
(* and wrote to the row afterwards.                                        *)
ClosedStaysClosed ==
  \A c, d \in Call, s \in Session :
    Closes(c, s) /\ Uses(d, s) /\ c \in calls[d].after
      => calls[d].stage # "ok"

(* A session whose row is gone (its account was deleted) never gets        *)
(* another refresh token, not even from a refresh that had read the row    *)
(* before the deletion.                                                    *)
NoTokenAfterDelete ==
  \A s \in Session :
    issued[s] > 0 /\ ~Exists(s) => issued'[s] = issued[s] /\ ~Exists(s)'

(* The newest refresh token of a session works: a refresh with it fails    *)
(* only if the session was closed or had expired.  (Of two overlapping     *)
(* refreshes the one that writes last gives the newest; the token the      *)
(* other one returned is dead.)                                            *)
NewestTokenWorks ==
  \A c \in Call, s \in Session :
    /\ calls[c].op = "refresh" /\ calls[c].session = s
    /\ calls[c].newest /\ calls[c].stage = "failed"
    => ~Open(s)

(* A refresh token is taken once and the newest one of a session works;    *)
(* a session that was closed, or whose user is gone, stays closed.         *)
TokensSound        == TypeOK /\ ReplayRejected /\ NewestTokenWorks
SessionsStayClosed == [][ClosedStaysClosed' /\ NoTokenAfterDelete]_vars

(* docs/api-contracts.md: logout with a refresh token revokes that         *)
(* session.  Stated for a token that was current when the request came in. *)
LogoutRevokesSession ==
  \A c \in Call :
    LET s == calls[c].session
    IN  /\ calls[c].op = "logout" /\ Finished(c)
        /\ calls[c].row # NoRow /\ calls[c].row.token = calls[c].token
        /\ Exists(s)
        => sessions[s].revoked
=============================================================================
