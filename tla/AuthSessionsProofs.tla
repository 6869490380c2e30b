------------------------- MODULE AuthSessionsProofs -------------------------
(***************************************************************************)
(* Proofs about AuthSessions, for any accounts, sessions and calls.  IInv  *)
(* is the inductive invariant.                                             *)
(***************************************************************************)
EXTENDS AuthSessions, TLAPS

(* The row holds the newest refresh token of its session.                  *)
NewestStored == \A s \in Session : Exists(s) => sessions[s].token = issued[s]

(* A call was made with a session that had been made, and after calls that *)
(* are finished.                                                           *)
CallsKnow ==
  \A c \in Call :
    /\ \A d \in calls[c].after : Finished(d)
    /\ \A s \in Session :
         calls[c].session = s /\ calls[c].stage # "unused" => issued[s] > 0
    /\ calls[c].op = "refresh" => calls[c].session \in Session

(* What a finished rotation replaced is older than what a later one found. *)
Rotating(c) == calls[c].op = "refresh" /\ calls[c].stage \in {"running", "ok"}
RotationInv ==
  /\ \A c \in Call, s \in Session :
       Rotating(c) /\ calls[c].session = s => calls[c].token <= issued[s]
  /\ \A c \in Call, s \in Session :
       Ok(c, "refresh") /\ calls[c].session = s => calls[c].token < issued[s]
  /\ \A c, d \in Call :
       /\ Ok(c, "refresh") /\ Rotating(d) /\ c \in calls[d].after
       /\ calls[c].session = calls[d].session
       => calls[c].token < calls[d].token

(* A session that was once made and is not, or no longer, valid.           *)
Ended(s) == issued[s] > 0 /\ (Exists(s) => sessions[s].revoked)
NewestInv ==
  \A c \in Call, s \in Session :
    /\ calls[c].op = "refresh" /\ calls[c].session = s
    /\ calls[c].newest /\ calls[c].stage = "failed"
    => issued[s] > 0 /\ ~Open(s)

(* Who logged in owns the row, what a call closed has ended, and a call    *)
(* that goes on began before what closed its session was done.             *)
OwnerInv ==
  \A c \in Call, s \in Session :
    Ok(c, "login") /\ calls[c].session = s /\ Exists(s)
      => sessions[s].user = calls[c].user
ClosedInv ==
  /\ \A c \in Call, s \in Session : Closes(c, s) => Ended(s)
  /\ \A c, d \in Call, s \in Session :
       Closes(c, s) /\ Uses(d, s) /\ c \in calls[d].after
         => calls[d].stage \notin {"running", "ok"}

IInv == /\ TypeOK /\ NewestStored /\ CallsKnow /\ RotationInv
        /\ NewestInv /\ OwnerInv /\ ClosedInv

-----------------------------------------------------------------------------
LEMMA NewCallTyped == NewCall \in CallState
<1>1. 0 \in Token
  BY BoundAssumption DEF Token
<1> QED
  BY <1>1 DEF NewCall, CallState

LEMMA InitIInv == Init => IInv
<1> SUFFICES ASSUME Init PROVE IInv
  OBVIOUS
<1> USE DEF Init, NewCall
<1>1. TypeOK
  <2>1. calls \in [Call -> CallState]
    <3> HIDE DEF NewCall
    <3> QED
      BY NewCallTyped
  <2> QED
    <3> HIDE DEF NewCall
    <3>1. now \in 0 .. MaxTime /\ issued \in [Session -> Token]
      BY BoundAssumption DEF Token
    <3>2. sessions \in [Session -> Row \cup {NoRow}]
      OBVIOUS
    <3> QED
      BY <2>1, <3>1, <3>2 DEF TypeOK
<1>2. NewestStored /\ CallsKnow
  BY DEF NewestStored, CallsKnow, Exists
<1>3. RotationInv /\ NewestInv /\ OwnerInv
  BY DEF RotationInv, NewestInv, OwnerInv, Ok, Rotating
<1>4. ClosedInv
  BY DEF ClosedInv, Closes, Ok, Uses
<1> QED
  BY <1>1, <1>2, <1>3, <1>4 DEF IInv

LEMMA RowFields ==
  ASSUME NEW r \in Row \cup {NoRow}
  PROVE  /\ r # NoRow => r \in Row /\ r.user \in User
         /\ r = NoRow => r.user = Nobody
         /\ r.user \in User \cup {Nobody}
BY NobodyAssumption DEF Row, NoRow

(* A call that began keeps what it began with; one that is finished does   *)
(* not change any more.                                                    *)
LEMMA CallStep ==
  ASSUME TypeOK, [Next]_vars, NEW c \in Call, calls[c].stage # "unused"
  PROVE  /\ calls'[c].stage # "unused"
         /\ calls'[c].op = calls[c].op /\ calls'[c].user = calls[c].user
         /\ calls'[c].newest = calls[c].newest
         /\ calls'[c].after = calls[c].after
         /\ calls[c].op # "login" => /\ calls'[c].session = calls[c].session
                                     /\ calls'[c].token = calls[c].token
         /\ Finished(c) => calls'[c] = calls[c]
         /\ calls'[c].stage = "running" => calls'[c] = calls[c]
<1> USE DEF TypeOK, CallState, Finished
<1>1. ASSUME NEW d \in Call, NEW call, Begins(d, call)
      PROVE  calls'[c] = calls[c]
  BY <1>1 DEF Begins
<1>2. CASE UNCHANGED calls
  BY <1>2
<1>3. ASSUME NEW d \in Call, NEW stage \in {"ok", "failed"},
             calls[d].stage = "running", Ends(d, stage)
      PROVE  /\ calls'[c].stage # "unused"
             /\ calls'[c].op = calls[c].op /\ calls'[c].user = calls[c].user
             /\ calls'[c].newest = calls[c].newest
             /\ calls'[c].after = calls[c].after
             /\ calls'[c].session = calls[c].session
             /\ calls'[c].token = calls[c].token
             /\ Finished(c) => calls'[c] = calls[c]
             /\ calls'[c].stage = "running" => calls'[c] = calls[c]
  BY <1>3 DEF Ends
<1>4. ASSUME NEW d \in Call, LoginCreates(d)
      PROVE  /\ calls'[c].stage # "unused"
             /\ calls'[c].op = calls[c].op /\ calls'[c].user = calls[c].user
             /\ calls'[c].newest = calls[c].newest
             /\ calls'[c].after = calls[c].after
             /\ calls[c].op # "login" =>
                  /\ calls'[c].session = calls[c].session
                  /\ calls'[c].token = calls[c].token
             /\ Finished(c) => calls'[c] = calls[c]
             /\ calls'[c].stage = "running" => calls'[c] = calls[c]
  <2>1. ASSUME NEW s \in Session,
               calls' = [calls EXCEPT ![d].stage = "ok", ![d].session = s,
                                      ![d].token = 1]
        PROVE  /\ \A e \in Call \ {d} : calls'[e] = calls[e]
               /\ calls'[d].stage = "ok" /\ calls'[d].op = calls[d].op
               /\ calls'[d].user = calls[d].user
               /\ calls'[d].newest = calls[d].newest
               /\ calls'[d].after = calls[d].after
    <3>1. calls'[d] = [calls[d] EXCEPT !.stage = "ok", !.session = s,
                                       !.token = 1]
      BY <2>1
    <3>2. calls[d] \in CallState
      OBVIOUS
    <3> QED
      BY <2>1, <3>1, <3>2
  <2>2. calls[d].stage = "running" /\ calls[d].op = "login"
    BY <1>4 DEF LoginCreates, Running
  <2>3. CASE Ends(d, "failed")
    BY <1>3, <2>2, <2>3
  <2>4. CASE \E s \in Session :
               calls' = [calls EXCEPT ![d].stage = "ok", ![d].session = s,
                                      ![d].token = 1]
    <3>1. PICK s \in Session :
            calls' = [calls EXCEPT ![d].stage = "ok", ![d].session = s,
                                   ![d].token = 1]
      BY <2>4
    <3>2. CASE c = d
      BY <2>1, <2>2, <3>1, <3>2
    <3>3. CASE c # d
      BY <2>1, <3>1, <3>3
    <3> QED
      BY <3>2, <3>3
  <2> QED
    BY <1>4, <2>3, <2>4 DEF LoginCreates
<1>5. ASSUME NEW d \in Call,
             RefreshWrites(d) \/ LogoutRevokes(d) \/ SnapshotAnswers(d)
             \/ DeleteCommits(d)
      PROVE  calls[d].stage = "running" /\ (Ends(d, "ok") \/ Ends(d, "failed"))
  BY <1>5 DEF RefreshWrites, LogoutRevokes, SnapshotAnswers, DeleteCommits,
              Running, Verdict
<1>6. ASSUME NEW d \in Call, NEW u \in User,
             LoginVerifies(d, u) \/ LogoutAll(d, u)
      PROVE  \E call : Begins(d, call)
  BY <1>6 DEF LoginVerifies, LogoutAll
<1>7. ASSUME NEW d \in Call, NEW s \in Session,
             \/ LogoutOne(d, s) \/ AccessCheck(d, s)
             \/ \E op \in {"snapshot", "delete"} : Authenticates(d, op, s)
             \/ \E n \in Token : RefreshReads(d, s, n) \/ LogoutArrives(d, s, n)
      PROVE  \E call : Begins(d, call)
  BY <1>7 DEF LogoutOne, AccessCheck, Authenticates, RefreshReads,
              LogoutArrives
<1>8. CASE Tick \/ UNCHANGED vars
  BY <1>2, <1>8 DEF Tick, vars
<1> QED
  BY <1>1, <1>3, <1>4, <1>5, <1>6, <1>7, <1>8 DEF Next

(* What a step can do to the row of a session: nothing, create it, store a *)
(* newer token, revoke it, delete it with its user.                        *)
Kept(s)    == sessions'[s] = sessions[s] /\ issued'[s] = issued[s]
Created(s) == /\ issued[s] = 0 /\ issued'[s] = 1
              /\ \E u \in users : sessions'[s] =
                   [user |-> u, token |-> 1, createdAt |-> now,
                    expiresAt |-> now + Lifetime, revoked |-> FALSE]
Renewed(s) == /\ Exists(s) /\ issued'[s] = issued[s] + 1
              /\ issued'[s] <= MaxTokens
              /\ sessions'[s] = [sessions[s] EXCEPT !.token = issued'[s]]
Revoked(s) == /\ Exists(s) /\ issued'[s] = issued[s]
              /\ sessions'[s] = [sessions[s] EXCEPT !.revoked = TRUE]
Deleted(s) == sessions'[s] = NoRow /\ issued'[s] = issued[s]

LEMMA RevokesRow ==
  ASSUME TypeOK, NEW which, Revokes(which), UNCHANGED issued, NEW s \in Session
  PROVE  Kept(s) \/ Revoked(s)
BY DEF Revokes, Kept, Revoked

LEMMA RowStep ==
  ASSUME TypeOK, [Next]_vars, NEW s \in Session
  PROVE  Kept(s) \/ Created(s) \/ Renewed(s) \/ Revoked(s) \/ Deleted(s)
<1> USE DEF TypeOK
<1>1. CASE UNCHANGED <<sessions, issued>>
  BY <1>1 DEF Kept
<1>2. ASSUME NEW c \in Call, LoginCreates(c)
      PROVE  Kept(s) \/ Created(s)
  BY <1>2 DEF LoginCreates, Kept, Created
<1>3. ASSUME NEW c \in Call, RefreshWrites(c)
      PROVE  Kept(s) \/ Renewed(s)
  BY <1>3 DEF RefreshWrites, Rotated, Kept, Renewed
<1>4. ASSUME NEW c \in Call, DeleteCommits(c)
      PROVE  Kept(s) \/ Deleted(s)
  BY <1>4 DEF DeleteCommits, Kept, Deleted
<1>5. ASSUME NEW c \in Call,
             \/ LogoutRevokes(c)
             \/ \E u \in User : LogoutAll(c, u)
             \/ \E t \in Session : LogoutOne(c, t)
      PROVE  Kept(s) \/ Revoked(s)
  <2>1. UNCHANGED issued /\ \E which : Revokes(which)
    BY <1>5 DEF LogoutRevokes, LogoutAll, LogoutOne
  <2> QED
    BY <2>1, RevokesRow
<1>6. ASSUME NEW c \in Call,
             \/ \E u \in User : LoginVerifies(c, u)
             \/ SnapshotAnswers(c)
             \/ \E t \in Session :
                  \/ AccessCheck(c, t)
                  \/ \E op \in {"snapshot", "delete"} : Authenticates(c, op, t)
                  \/ \E n \in Token : RefreshReads(c, t, n) \/ LogoutArrives(c, t, n)
      PROVE  UNCHANGED <<sessions, issued>>
  BY <1>6 DEF LoginVerifies, SnapshotAnswers, AccessCheck, Authenticates,
              RefreshReads, LogoutArrives
<1>7. CASE Tick \/ UNCHANGED vars
  BY <1>1, <1>7 DEF Tick, vars
<1> QED
  BY <1>1, <1>2, <1>3, <1>4, <1>5, <1>6, <1>7 DEF Next

(* Time goes on, and no account comes back.                                *)
LEMMA ClockStep ==
  ASSUME TypeOK, [Next]_vars
  PROVE  now' \in 0 .. MaxTime /\ now' >= now /\ users' \subseteq users
<1> USE BoundAssumption DEF TypeOK
<1>1. CASE Tick
  BY <1>1 DEF Tick
<1>2. CASE UNCHANGED <<now, users>>
  BY <1>2
<1>3. ASSUME NEW c \in Call, DeleteCommits(c)
      PROVE  UNCHANGED now /\ users' \subseteq users
  BY <1>3 DEF DeleteCommits
<1>4. ASSUME NEW c \in Call,
             \/ \E u \in User : LoginVerifies(c, u) \/ LogoutAll(c, u)
             \/ LoginCreates(c) \/ RefreshWrites(c) \/ LogoutRevokes(c)
             \/ SnapshotAnswers(c)
             \/ \E s \in Session :
                  \/ LogoutOne(c, s) \/ AccessCheck(c, s)
                  \/ \E op \in {"snapshot", "delete"} : Authenticates(c, op, s)
                  \/ \E n \in Token : RefreshReads(c, s, n) \/ LogoutArrives(c, s, n)
      PROVE  UNCHANGED <<now, users>>
  BY <1>4 DEF LoginVerifies, LoginCreates, RefreshReads, RefreshWrites,
     LogoutArrives, LogoutRevokes, LogoutOne, LogoutAll, AccessCheck,
     Authenticates, SnapshotAnswers
<1> QED
  BY <1>1, <1>2, <1>3, <1>4 DEF Next, vars

(* An end is final: what has no row gets none, what is revoked or expired  *)
(* stays so, and a row keeps its user.                                     *)
LEMMA SessionStep ==
  ASSUME TypeOK, NewestStored, [Next]_vars, NEW s \in Session
  PROVE  /\ issued'[s] \in Token /\ issued'[s] >= issued[s]
         /\ sessions'[s] \in Row \cup {NoRow}
         /\ Exists(s)' => sessions'[s].token = issued'[s]
         /\ issued[s] > 0 /\ ~Exists(s) => ~Exists(s)' /\ issued'[s] = issued[s]
         /\ issued[s] > 0 /\ Exists(s)' => /\ Exists(s)
                                           /\ sessions'[s].user = sessions[s].user
         /\ Ended(s) => Ended(s)'
         /\ issued[s] > 0 /\ ~Open(s) => ~Open(s)'
<1> USE BoundAssumption, LifetimeAssumption DEF TypeOK, Exists, Ended, Open,
        NewestStored
<1>0. /\ now \in Int /\ now' \in Int /\ now' >= now
      /\ sessions[s] # NoRow =>
           /\ sessions[s] \in Row
           /\ sessions[s].expiresAt \in Int
           /\ sessions[s].token \in Token /\ sessions[s].user \in User
           /\ sessions[s].revoked \in BOOLEAN
      /\ issued[s] \in Int /\ issued[s] \in Token /\ 1 \in Token
  <2>1. now \in Int /\ now' \in Int /\ now' >= now
    BY ClockStep
  <2>2. issued[s] \in Int /\ issued[s] \in Token /\ 1 \in Token
    BY DEF Token
  <2>3. ASSUME sessions[s] # NoRow
        PROVE  /\ sessions[s] \in Row
               /\ sessions[s].expiresAt \in 0 .. MaxTime + Lifetime
               /\ sessions[s].token \in Token /\ sessions[s].user \in User
               /\ sessions[s].revoked \in BOOLEAN
    <3>1. sessions[s] \in Row
      BY <2>3
    <3> QED
      BY <3>1 DEF Row
  <2> QED
    BY <2>1, <2>2, <2>3
<1>1. CASE Kept(s)
  <2>1. sessions'[s] = sessions[s] /\ issued'[s] = issued[s]
    BY <1>1 DEF Kept
  <2>2. sessions[s] # NoRow => (now' < sessions[s].expiresAt => now < sessions[s].expiresAt)
    BY <1>0
  <2> QED
    BY <1>0, <2>1, <2>2
<1>2. CASE Created(s)
  <2>1. PICK u \in users : sessions'[s] =
           [user |-> u, token |-> 1, createdAt |-> now,
            expiresAt |-> now + Lifetime, revoked |-> FALSE]
    BY <1>2 DEF Created
  <2>2. sessions'[s] \in Row
    BY <1>0, <2>1 DEF Row
  <2> QED
    BY <1>0, <1>2, <2>1, <2>2 DEF Created
<1>3. CASE Renewed(s)
  <2>1. issued'[s] \in Token
    BY <1>0, <1>3 DEF Renewed, Token
  <2>2. /\ sessions'[s] \in Row /\ sessions'[s].token = issued'[s]
        /\ sessions'[s].user = sessions[s].user
        /\ sessions'[s].revoked = sessions[s].revoked
        /\ sessions'[s].expiresAt = sessions[s].expiresAt
    BY <1>0, <1>3, <2>1 DEF Renewed, Row
  <2> QED
    BY <1>0, <1>3, <2>1, <2>2 DEF Renewed
<1>4. CASE Revoked(s)
  <2>1. /\ sessions'[s] \in Row /\ sessions'[s].token = sessions[s].token
        /\ sessions'[s].user = sessions[s].user
        /\ sessions'[s].revoked = TRUE
    BY <1>0, <1>4 DEF Revoked, Row
  <2> QED
    BY <1>0, <1>4, <2>1 DEF Revoked
<1>5. CASE Deleted(s)
  BY <1>0, <1>5 DEF Deleted
<1> QED
  BY <1>1, <1>2, <1>3, <1>4, <1>5, RowStep

-----------------------------------------------------------------------------
(* What a call knows and does when it begins.                              *)
SessionFits(c, s) ==
  /\ issued[s] > 0
  /\ calls'[c].op = "refresh" =>
       /\ calls'[c].stage = "running" =>
            Exists(s) /\ calls'[c].token = sessions[s].token
       /\ calls'[c].stage = "failed" /\ calls'[c].newest =>
            ~(Open(s) /\ sessions[s].token = issued[s])
  /\ Uses(c, s)' /\ calls'[c].stage \in {"running", "ok"} => Open(s)
  /\ calls'[c].op = "logoutOne" /\ Exists(s)' => sessions'[s].revoked
Begun(c) ==
  /\ UNCHANGED issued
  /\ calls'[c].after = {d \in Call : Finished(d)}
  /\ calls'[c].stage = "ok" =>
       calls'[c].op \in {"logoutOne", "logoutAll", "access"}
  /\ calls'[c].op = "refresh" => calls'[c].session \in Session
  /\ \A s \in Session : calls'[c].session = s => SessionFits(c, s)
  /\ calls'[c].op = "logoutAll" => \A s \in Session :
       Exists(s)' /\ sessions'[s].user = calls'[c].user => sessions'[s].revoked
Recorded(c) ==
  /\ calls' \in [Call -> CallState]
  /\ \A d \in Call \ {c} : calls'[d] = calls[d]

LEMMA BeginsRecords ==
  ASSUME TypeOK, NEW c \in Call, NEW call \in CallState, Begins(c, call)
  PROVE  /\ Recorded(c)
         /\ calls'[c].after = {d \in Call : Finished(d)}
         /\ calls'[c].op = call.op /\ calls'[c].stage = call.stage
         /\ calls'[c].session = call.session
         /\ calls'[c].token = call.token /\ calls'[c].user = call.user
         /\ calls'[c].newest = call.newest
<1>1. calls'[c] = [call EXCEPT !.after = {d \in Call : Finished(d)}]
  BY DEF Begins, TypeOK
<1>2. \A d \in Call \ {c} : calls'[d] = calls[d]
  BY DEF Begins, TypeOK
<1>3. calls'[c] \in CallState
  BY <1>1 DEF CallState
<1>4. calls' \in [Call -> CallState]
  BY <1>3 DEF Begins, TypeOK
<1> QED
  BY <1>1, <1>2, <1>4 DEF CallState, Recorded

LEMMA LoginBegins ==
  ASSUME TypeOK, NEW c \in Call, NEW u \in User, LoginVerifies(c, u)
  PROVE  Recorded(c) /\ Begun(c)
<1> DEFINE call == [NewCall EXCEPT !.op = "login", !.stage = "running", !.user = u]
<1>1. /\ call \in CallState /\ call.op = "login" /\ call.stage = "running"
      /\ call.session = Nobody
  BY NewCallTyped DEF NewCall, CallState, Op
<1>2. Begins(c, call) /\ UNCHANGED issued
  BY DEF LoginVerifies
<1> HIDE DEF call
<1>3. Recorded(c) /\ calls'[c].after = {d \in Call : Finished(d)}
      /\ calls'[c].op = "login" /\ calls'[c].stage = "running"
      /\ calls'[c].session = Nobody
  BY <1>1, <1>2, BeginsRecords
<1> QED
  BY <1>2, <1>3, NobodyAssumption DEF Begun

LEMMA LogoutAllBegins ==
  ASSUME TypeOK, NEW c \in Call, NEW u \in User, LogoutAll(c, u)
  PROVE  Recorded(c) /\ Begun(c)
<1> DEFINE call == [NewCall EXCEPT !.op = "logoutAll", !.stage = "ok", !.user = u]
<1>1. /\ call \in CallState /\ call.op = "logoutAll" /\ call.stage = "ok"
      /\ call.session = Nobody /\ call.user = u
  BY NewCallTyped DEF NewCall, CallState, Op
<1>2. Begins(c, call) /\ UNCHANGED issued
  BY DEF LogoutAll
<1> HIDE DEF call
<1>3. /\ Recorded(c) /\ calls'[c].after = {d \in Call : Finished(d)}
      /\ calls'[c].op = "logoutAll" /\ calls'[c].stage = "ok"
      /\ calls'[c].session = Nobody /\ calls'[c].user = u
  BY <1>1, <1>2, BeginsRecords
<1>4. ASSUME NEW s \in Session, Exists(s)', sessions'[s].user = u
      PROVE  sessions'[s].revoked
  <2>1. Kept(s) \/ Revoked(s)
    BY RevokesRow DEF LogoutAll
  <2>2. sessions[s] \in Row
    BY <1>4, <2>1 DEF Kept, Revoked, Exists, TypeOK
  <2>3. sessions[s].user = u
    BY <1>4, <2>1, <2>2 DEF Kept, Revoked, Row
  <2>4. sessions'[s] = [sessions[s] EXCEPT !.revoked = TRUE]
    BY <1>4, <2>1, <2>3 DEF LogoutAll, Revokes, Exists, Kept, TypeOK
  <2> QED
    BY <2>2, <2>4 DEF Row
<1> QED
  BY <1>2, <1>3, <1>4, NobodyAssumption DEF Begun

(* The calls that name a session: it exists or existed.                    *)
LEMMA SessionCallTyped ==
  ASSUME TypeOK, NEW s \in Session
  PROVE  /\ sessions[s] \in Row \cup {NoRow}
         /\ sessions[s].user \in User \cup {Nobody}
         /\ issued[s] \in Int
         /\ \A n \in 1 .. issued[s] : n \in Token /\ issued[s] > 0
BY RowFields, BoundAssumption DEF TypeOK, Token

LEMMA RefreshBegins ==
  ASSUME TypeOK, NEW c \in Call, NEW s \in Session, NEW n \in Token,
         RefreshReads(c, s, n)
  PROVE  Recorded(c) /\ Begun(c)
<1> DEFINE stage == IF RefreshAccepts(s, n) THEN "running" ELSE "failed"
           call == [NewCall EXCEPT !.op = "refresh", !.stage = stage,
                      !.session = s, !.token = n, !.newest = (n = issued[s]),
                      !.row = sessions[s], !.user = sessions[s].user]
<1>1. /\ call \in CallState /\ call.op = "refresh" /\ call.stage = stage
      /\ call.session = s /\ call.token = n /\ call.newest = (n = issued[s])
  BY NewCallTyped, SessionCallTyped DEF NewCall, CallState, Op
<1>2. Begins(c, call) /\ UNCHANGED <<issued, sessions>> /\ issued[s] > 0
  BY SessionCallTyped DEF RefreshReads
<1> HIDE DEF call
<1>3. /\ Recorded(c) /\ calls'[c].after = {d \in Call : Finished(d)}
      /\ calls'[c].op = "refresh" /\ calls'[c].stage = stage
      /\ calls'[c].session = s /\ calls'[c].token = n
      /\ calls'[c].newest = (n = issued[s])
  BY <1>1, <1>2, BeginsRecords
<1>4. /\ stage = "running" => Open(s) /\ Exists(s) /\ n = sessions[s].token
      /\ stage = "failed" => ~(Open(s) /\ n = sessions[s].token)
      /\ stage \in {"running", "failed"}
  BY DEF RefreshAccepts, Open
<1> HIDE DEF stage
<1>5. SessionFits(c, s)
  BY <1>2, <1>3, <1>4 DEF SessionFits
<1> QED
  BY <1>2, <1>3, <1>4, <1>5 DEF Begun

LEMMA LogoutBegins ==
  ASSUME TypeOK, NEW c \in Call, NEW s \in Session, NEW n \in Token,
         LogoutArrives(c, s, n)
  PROVE  Recorded(c) /\ Begun(c)
<1> DEFINE call == [NewCall EXCEPT !.op = "logout", !.stage = "running",
                      !.session = s, !.token = n, !.row = sessions[s]]
<1>1. /\ call \in CallState /\ call.op = "logout" /\ call.stage = "running"
      /\ call.session = s
  BY NewCallTyped, SessionCallTyped DEF NewCall, CallState, Op
<1>2. Begins(c, call) /\ UNCHANGED issued /\ issued[s] > 0
  BY SessionCallTyped DEF LogoutArrives
<1> HIDE DEF call
<1>3. /\ Recorded(c) /\ calls'[c].after = {d \in Call : Finished(d)}
      /\ calls'[c].op = "logout" /\ calls'[c].stage = "running"
      /\ calls'[c].session = s
  BY <1>1, <1>2, BeginsRecords
<1> QED
  BY <1>2, <1>3 DEF Begun, SessionFits, Uses

LEMMA LogoutOneBegins ==
  ASSUME TypeOK, NEW c \in Call, NEW s \in Session, LogoutOne(c, s)
  PROVE  Recorded(c) /\ Begun(c)
<1> DEFINE stage == Verdict(Exists(s) /\ ~sessions[s].revoked)
           call == [NewCall EXCEPT !.op = "logoutOne", !.session = s,
                                   !.stage = stage]
<1>1. /\ call \in CallState /\ call.op = "logoutOne" /\ call.stage = stage
      /\ call.session = s
  BY NewCallTyped DEF NewCall, CallState, Op, Verdict
<1>2. Begins(c, call) /\ UNCHANGED issued /\ issued[s] > 0
  BY DEF LogoutOne
<1> HIDE DEF call
<1>3. /\ Recorded(c) /\ calls'[c].after = {d \in Call : Finished(d)}
      /\ calls'[c].op = "logoutOne" /\ calls'[c].stage = stage
      /\ calls'[c].session = s
  BY <1>1, <1>2, BeginsRecords
<1>4. Exists(s)' => sessions'[s].revoked
  BY DEF LogoutOne, Revokes, Exists, TypeOK, Row
<1> HIDE DEF stage
<1> QED
  BY <1>2, <1>3, <1>4 DEF Begun, SessionFits, Uses

LEMMA AccessBegins ==
  ASSUME TypeOK, NEW c \in Call, NEW s \in Session, AccessCheck(c, s)
  PROVE  Recorded(c) /\ Begun(c)
<1> DEFINE call == [NewCall EXCEPT !.op = "access", !.stage = Verdict(Open(s)),
                      !.session = s, !.row = sessions[s]]
<1>1. /\ call \in CallState /\ call.op = "access"
      /\ call.stage = Verdict(Open(s)) /\ call.session = s
  BY NewCallTyped, SessionCallTyped DEF NewCall, CallState, Op, Verdict
<1>2. Begins(c, call) /\ UNCHANGED issued /\ issued[s] > 0
  BY DEF AccessCheck
<1> HIDE DEF call
<1>3. /\ Recorded(c) /\ calls'[c].after = {d \in Call : Finished(d)}
      /\ calls'[c].op = "access" /\ calls'[c].stage = Verdict(Open(s))
      /\ calls'[c].session = s
  BY <1>1, <1>2, BeginsRecords
<1>4. SessionFits(c, s)
  BY <1>2, <1>3 DEF SessionFits, Verdict
<1> QED
  BY <1>2, <1>3, <1>4 DEF Begun

LEMMA AuthenticatedBegins ==
  ASSUME TypeOK, NEW c \in Call, NEW op, NEW s \in Session,
         Authenticates(c, op, s)
  PROVE  Recorded(c) /\ Begun(c)
<1> DEFINE stage == IF Open(s) THEN "running" ELSE "failed"
           call == [NewCall EXCEPT !.op = op, !.stage = stage, !.session = s,
                      !.row = sessions[s], !.user = sessions[s].user]
<1>1. /\ call \in CallState /\ call.op \in {"snapshot", "delete"}
      /\ call.stage = stage /\ call.session = s
  BY NewCallTyped, SessionCallTyped DEF Authenticates, NewCall, CallState, Op
<1>2. Begins(c, call) /\ UNCHANGED issued /\ issued[s] > 0
  BY DEF Authenticates
<1> HIDE DEF call
<1>3. /\ Recorded(c) /\ calls'[c].after = {d \in Call : Finished(d)}
      /\ calls'[c].op \in {"snapshot", "delete"} /\ calls'[c].stage = stage
      /\ calls'[c].session = s
  BY <1>1, <1>2, BeginsRecords
<1>4. SessionFits(c, s)
  BY <1>2, <1>3 DEF SessionFits
<1> QED
  BY <1>2, <1>3, <1>4 DEF Begun

(* What a call has done when it ends.                                      *)
Done(c) ==
  /\ calls'[c].stage \in {"ok", "failed"}
  /\ \A s \in Session : calls[c].op = "refresh" /\ calls[c].session = s =>
       /\ calls'[c].stage = "ok" => Exists(s) /\ issued'[s] = issued[s] + 1
       /\ calls'[c].stage = "failed" => ~Exists(s)
  /\ calls[c].op = "login" =>
       \/ calls'[c].stage = "failed" /\ calls'[c].session = calls[c].session
       \/ \E s \in Session :
            /\ calls'[c].session = s /\ issued[s] = 0 /\ issued'[s] = 1
            /\ sessions'[s].user = calls[c].user
  /\ \A s \in Session :
       calls[c].op = "logout" /\ calls[c].session = s
         /\ calls'[c].stage = "ok" /\ Exists(s)' => sessions'[s].revoked
  /\ calls[c].op = "delete" =>
       \A s \in Session : Exists(s)' => sessions'[s].user # calls[c].user
  /\ calls[c].op \in {"login", "refresh", "logout", "snapshot", "delete"}

LEMMA EndsRecords ==
  ASSUME TypeOK, NEW c \in Call, NEW stage \in {"ok", "failed"}, Ends(c, stage)
  PROVE  /\ Recorded(c) /\ calls'[c].stage = stage
         /\ calls'[c].session = calls[c].session
<1>1. /\ calls'[c] = [calls[c] EXCEPT !.stage = stage]
      /\ \A d \in Call \ {c} : calls'[d] = calls[d]
      /\ calls[c] \in CallState
  BY DEF Ends, TypeOK
<1>2. calls'[c] \in CallState
  BY <1>1 DEF CallState
<1>3. calls' \in [Call -> CallState]
  BY <1>2 DEF Ends, TypeOK
<1> QED
  BY <1>1, <1>3 DEF CallState, Recorded

LEMMA LoginEnds ==
  ASSUME TypeOK, NEW c \in Call, LoginCreates(c)
  PROVE  Recorded(c) /\ Done(c) /\ calls[c].stage = "running"
<1>1. calls[c].op = "login" /\ calls[c].stage = "running"
  BY DEF LoginCreates, Running
<1>2. CASE Ends(c, "failed")
  BY <1>1, <1>2, EndsRecords DEF Done
<1>3. ASSUME NEW s \in Session, issued[s] = 0,
             calls' = [calls EXCEPT ![c].stage = "ok", ![c].session = s,
                                    ![c].token = 1],
             sessions' = [sessions EXCEPT ![s] =
                  [user |-> calls[c].user, token |-> 1, createdAt |-> now,
                   expiresAt |-> now + Lifetime, revoked |-> FALSE]],
             issued' = [issued EXCEPT ![s] = 1]
      PROVE  Recorded(c) /\ Done(c)
  <2>1. /\ calls'[c] = [calls[c] EXCEPT !.stage = "ok", !.session = s, !.token = 1]
        /\ \A d \in Call \ {c} : calls'[d] = calls[d]
        /\ calls[c] \in CallState /\ 1 \in Token
    BY <1>3, BoundAssumption DEF TypeOK, Token
  <2>2. /\ calls'[c] \in CallState
        /\ calls'[c].stage = "ok" /\ calls'[c].session = s
    BY <2>1 DEF CallState
  <2>4. Recorded(c)
    BY <1>3, <2>1, <2>2 DEF Recorded, TypeOK
  <2>3. sessions'[s].user = calls[c].user /\ issued'[s] = 1
    BY <1>3 DEF TypeOK
  <2> QED
    BY <1>1, <1>3, <2>2, <2>3, <2>4 DEF Done
<1> QED
  BY <1>1, <1>2, <1>3 DEF LoginCreates

LEMMA RefreshEnds ==
  ASSUME TypeOK, NEW c \in Call, RefreshWrites(c)
  PROVE  Recorded(c) /\ Done(c) /\ calls[c].stage = "running"
<1>1. calls[c].op = "refresh" /\ calls[c].stage = "running"
  BY DEF RefreshWrites, Running
<1>2. CASE /\ Exists(calls[c].session) /\ Ends(c, "ok")
           /\ issued' = [issued EXCEPT ![calls[c].session] =
                                         issued[calls[c].session] + 1]
  BY <1>1, <1>2, EndsRecords DEF Done, TypeOK
<1>3. CASE ~Exists(calls[c].session) /\ Ends(c, "failed")
  BY <1>1, <1>3, EndsRecords DEF Done
<1> QED
  BY <1>1, <1>2, <1>3 DEF RefreshWrites

LEMMA LogoutEnds ==
  ASSUME TypeOK, NEW c \in Call, LogoutRevokes(c)
  PROVE  Recorded(c) /\ Done(c) /\ calls[c].stage = "running"
<1> DEFINE s == calls[c].session
           matches == Exists(s) /\ ~sessions[s].revoked
                        /\ sessions[s].token = calls[c].token
<1>1. /\ calls[c].op = "logout" /\ calls[c].stage = "running"
      /\ Revokes(IF matches THEN {s} ELSE {}) /\ Ends(c, Verdict(matches))
  BY DEF LogoutRevokes, Running
<1>2. CASE matches
  <2>1. Recorded(c) /\ calls'[c].stage = "ok"
    BY <1>1, <1>2, EndsRecords DEF Verdict
  <2>2. s \in Session => sessions'[s].revoked
    BY <1>1, <1>2 DEF Revokes, TypeOK, Row, Exists
  <2> QED
    BY <1>1, <2>1, <2>2 DEF Done
<1>3. CASE ~matches
  <2>1. Recorded(c) /\ calls'[c].stage = "failed"
    BY <1>1, <1>3, EndsRecords DEF Verdict
  <2> QED
    BY <1>1, <2>1 DEF Done
<1> QED
  BY <1>1, <1>2, <1>3

LEMMA SnapshotEnds ==
  ASSUME TypeOK, NEW c \in Call, SnapshotAnswers(c)
  PROVE  Recorded(c) /\ Done(c) /\ calls[c].stage = "running"
<1>1. calls[c].op = "snapshot" /\ calls[c].stage = "running"
  BY DEF SnapshotAnswers, Running
<1>2. Recorded(c) /\ calls'[c].stage \in {"ok", "failed"}
  BY EndsRecords DEF SnapshotAnswers, Verdict
<1> QED
  BY <1>1, <1>2 DEF Done

LEMMA DeleteEnds ==
  ASSUME TypeOK, NEW c \in Call, DeleteCommits(c)
  PROVE  Recorded(c) /\ Done(c) /\ calls[c].stage = "running"
<1>1. calls[c].op = "delete" /\ calls[c].stage = "running"
  BY DEF DeleteCommits, Running
<1>2. Recorded(c) /\ calls'[c].stage \in {"ok", "failed"}
  BY EndsRecords DEF DeleteCommits, Verdict
<1>3. \A s \in Session : Exists(s)' => sessions'[s].user # calls[c].user
  BY DEF DeleteCommits, Exists, TypeOK
<1> QED
  BY <1>1, <1>2, <1>3 DEF Done

(* A step begins one call, ends one, or leaves them and the sessions alone. *)
BeginsNow(c) == calls[c].stage = "unused" /\ Recorded(c) /\ Begun(c)
EndsNow(c)   == calls[c].stage = "running" /\ Recorded(c) /\ Done(c)

LEMMA OneCall ==
  ASSUME TypeOK, [Next]_vars
  PROVE  \/ UNCHANGED <<calls, sessions, issued>>
         \/ \E c \in Call : BeginsNow(c) \/ EndsNow(c)
<1>1. CASE Tick \/ UNCHANGED vars
  BY <1>1 DEF Tick, vars
<1>2. ASSUME NEW c \in Call, NEW call, Begins(c, call)
      PROVE  calls[c].stage = "unused"
  BY <1>2 DEF Begins
<1>3. ASSUME NEW c \in Call, NEW u \in User,
             LoginVerifies(c, u) \/ LogoutAll(c, u)
      PROVE  BeginsNow(c)
  BY <1>2, <1>3, LoginBegins, LogoutAllBegins
  DEF LoginVerifies, LogoutAll, BeginsNow
<1>4. ASSUME NEW c \in Call,
             LoginCreates(c) \/ RefreshWrites(c) \/ LogoutRevokes(c)
             \/ SnapshotAnswers(c) \/ DeleteCommits(c)
      PROVE  EndsNow(c)
  BY <1>4, LoginEnds, RefreshEnds, LogoutEnds, SnapshotEnds, DeleteEnds
  DEF EndsNow
<1>5. ASSUME NEW c \in Call, NEW s \in Session, NEW n \in Token,
             RefreshReads(c, s, n) \/ LogoutArrives(c, s, n)
      PROVE  BeginsNow(c)
  BY <1>2, <1>5, RefreshBegins, LogoutBegins
  DEF RefreshReads, LogoutArrives, BeginsNow
<1>6. ASSUME NEW c \in Call, NEW s \in Session, NEW op,
             \/ LogoutOne(c, s) \/ AccessCheck(c, s)
             \/ Authenticates(c, op, s)
      PROVE  BeginsNow(c)
  BY <1>2, <1>6, LogoutOneBegins, AccessBegins, AuthenticatedBegins
  DEF LogoutOne, AccessCheck, Authenticates, BeginsNow
<1> QED
  BY <1>1, <1>3, <1>4, <1>5, <1>6 DEF Next

-----------------------------------------------------------------------------
(* The tables stay tables, and no row outlives its user.                   *)
LEMMA RowsTyped ==
  ASSUME TypeOK, NewestStored, [Next]_vars
  PROVE  /\ sessions' \in [Session -> Row \cup {NoRow}]
         /\ issued' \in [Session -> Token]
<1>1. \A s \in Session : sessions'[s] \in Row \cup {NoRow} /\ issued'[s] \in Token
  BY SessionStep
<1>2. CASE UNCHANGED <<sessions, issued>>
  BY <1>2 DEF TypeOK
<1>3. ASSUME NEW c \in Call, LoginCreates(c) \/ RefreshWrites(c)
      PROVE  /\ sessions' = [s \in Session |-> sessions'[s]]
             /\ issued' = [s \in Session |-> issued'[s]]
  BY <1>3 DEF LoginCreates, RefreshWrites, TypeOK
<1>4. ASSUME NEW c \in Call,
             \/ LogoutRevokes(c) \/ DeleteCommits(c)
             \/ \E u \in User : LogoutAll(c, u)
             \/ \E s \in Session : LogoutOne(c, s)
      PROVE  /\ sessions' = [s \in Session |-> sessions'[s]]
             /\ UNCHANGED issued
  BY <1>4 DEF LogoutRevokes, DeleteCommits, LogoutAll, LogoutOne, Revokes
<1>5. ASSUME NEW c \in Call,
             \/ \E u \in User : LoginVerifies(c, u)
             \/ SnapshotAnswers(c)
             \/ \E s \in Session :
                  \/ AccessCheck(c, s)
                  \/ \E op \in {"snapshot", "delete"} : Authenticates(c, op, s)
                  \/ \E n \in Token : RefreshReads(c, s, n) \/ LogoutArrives(c, s, n)
      PROVE  UNCHANGED <<sessions, issued>>
  BY <1>5 DEF LoginVerifies, SnapshotAnswers, AccessCheck, Authenticates,
              RefreshReads, LogoutArrives
<1>6. CASE Tick \/ UNCHANGED vars
  BY <1>2, <1>6 DEF Tick, vars
<1>7. ASSUME sessions' = [s \in Session |-> sessions'[s]]
      PROVE  sessions' \in [Session -> Row \cup {NoRow}]
  BY <1>1, <1>7
<1>8. ASSUME issued' = [s \in Session |-> issued'[s]]
      PROVE  issued' \in [Session -> Token]
  BY <1>1, <1>8
<1>9. ASSUME UNCHANGED issued PROVE issued' \in [Session -> Token]
  BY <1>9 DEF TypeOK
<1> QED
  BY <1>2, <1>3, <1>4, <1>5, <1>6, <1>7, <1>8, <1>9 DEF Next

LEMMA UsersKept ==
  ASSUME TypeOK, [Next]_vars, NEW s \in Session, Exists(s)'
  PROVE  sessions'[s].user \in users'
<1>1. CASE UNCHANGED users
  <2>1. CASE Created(s)
    BY <1>1, <2>1 DEF Created
  <2>2. CASE Kept(s) \/ Renewed(s) \/ Revoked(s)
    <3>1. Exists(s) /\ sessions'[s].user = sessions[s].user
      BY <2>2 DEF Kept, Renewed, Revoked, Exists, TypeOK, Row
    <3> QED
      BY <1>1, <3>1 DEF Exists, TypeOK
  <2>3. ~Deleted(s)
    BY DEF Deleted, Exists
  <2> QED
    BY <2>1, <2>2, <2>3, RowStep
<1>2. ASSUME NEW c \in Call, DeleteCommits(c)
      PROVE  sessions'[s].user \in users'
  BY <1>2 DEF DeleteCommits, TypeOK, Exists
<1>3. UNCHANGED users \/ \E c \in Call : DeleteCommits(c)
  BY DEF Next, vars, Tick, LoginVerifies, LoginCreates, RefreshReads,
     RefreshWrites, LogoutArrives, LogoutRevokes, LogoutOne, LogoutAll,
     AccessCheck, Authenticates, SnapshotAnswers
<1> QED
  BY <1>1, <1>2, <1>3

LEMMA TypeStep == TypeOK /\ NewestStored /\ [Next]_vars => TypeOK'
<1> SUFFICES ASSUME TypeOK, NewestStored, [Next]_vars PROVE TypeOK'
  OBVIOUS
<1>1. now' \in 0 .. MaxTime /\ users' \subseteq User
  BY ClockStep DEF TypeOK
<1>2. calls' \in [Call -> CallState]
  BY OneCall DEF BeginsNow, EndsNow, Recorded, TypeOK
<1> QED
  BY <1>1, <1>2, RowsTyped, UsersKept DEF TypeOK, Exists

(* What a step leaves of a call that is not the one that begins or ends.   *)
LEMMA CallCases ==
  ASSUME TypeOK, [Next]_vars, NEW c \in Call
  PROVE  \/ calls'[c] = calls[c]
         \/ BeginsNow(c)
         \/ EndsNow(c)
BY OneCall DEF BeginsNow, EndsNow, Recorded

LEMMA NewestStep == TypeOK /\ NewestStored /\ [Next]_vars => NewestStored'
BY SessionStep DEF NewestStored, Exists

LEMMA KnowStep == TypeOK /\ NewestStored /\ CallsKnow /\ [Next]_vars => CallsKnow'
<1> SUFFICES ASSUME TypeOK, NewestStored, CallsKnow, [Next]_vars, NEW c \in Call
             PROVE  /\ \A d \in calls'[c].after : Finished(d)'
                    /\ \A s \in Session :
                         calls'[c].session = s /\ calls'[c].stage # "unused"
                           => issued'[s] > 0
                    /\ calls'[c].op = "refresh" => calls'[c].session \in Session
  BY DEF CallsKnow
<1>1. \A d \in Call : Finished(d) => Finished(d)'
  BY CallStep DEF Finished
<1>2. \A s \in Session : issued[s] > 0 => issued'[s] > 0
  BY SessionStep, BoundAssumption DEF TypeOK, Token
<1>3. CASE calls'[c] = calls[c]
  BY <1>1, <1>2, <1>3 DEF CallsKnow, TypeOK, CallState
<1>4. CASE BeginsNow(c)
  BY <1>1, <1>2, <1>4 DEF BeginsNow, Begun, SessionFits
<1>5. CASE EndsNow(c)
  <2>1. \A d \in calls'[c].after : Finished(d)'
    BY <1>1, <1>5, CallStep DEF CallsKnow, EndsNow, TypeOK, CallState
  <2>2. ASSUME NEW s \in Session, calls'[c].session = s
        PROVE  issued'[s] > 0
    <3>1. CASE calls[c].op = "login"
      BY <1>2, <1>5, <2>2, <3>1 DEF CallsKnow, EndsNow, Done
    <3>2. CASE calls[c].op # "login"
      BY <1>2, <1>5, <2>2, <3>2, CallStep DEF CallsKnow, EndsNow
    <3> QED
      BY <3>1, <3>2
  <2>3. calls'[c].op = "refresh" => calls'[c].session \in Session
    BY <1>5, CallStep DEF CallsKnow, EndsNow
  <2> QED
    BY <2>1, <2>2, <2>3
<1> QED
  BY <1>3, <1>4, <1>5, CallCases

(* A rotation under way presents a token the session has already made.     *)
LEMMA RotationStep ==
  TypeOK /\ NewestStored /\ CallsKnow /\ RotationInv /\ [Next]_vars
    => RotationInv'
<1> SUFFICES ASSUME TypeOK, NewestStored, CallsKnow, RotationInv, [Next]_vars
             PROVE  RotationInv'
  OBVIOUS
<1>0. /\ \A c \in Call : calls[c].token \in Int
      /\ \A s \in Session : issued[s] \in Int /\ issued'[s] \in Int
                                              /\ issued'[s] >= issued[s]
  BY SessionStep, BoundAssumption DEF TypeOK, CallState, Token
<1>1. ASSUME NEW c \in Call, NEW s \in Session,
             Rotating(c)', calls'[c].session = s
      PROVE  /\ calls'[c].token \in Int
             /\ calls'[c].token <= issued'[s]
             /\ Ok(c, "refresh")' => calls'[c].token < issued'[s]
  <2>1. CASE calls'[c] = calls[c]
    BY <1>0, <1>1, <2>1 DEF RotationInv, Rotating, Ok
  <2>2. CASE BeginsNow(c)
    BY <1>0, <1>1, <2>2 DEF BeginsNow, Begun, SessionFits, Rotating, Ok,
                            NewestStored
  <2>3. CASE EndsNow(c)
    <3>1. /\ calls[c].op = "refresh" /\ calls[c].session = s
          /\ calls'[c].token = calls[c].token /\ calls'[c].stage = "ok"
          /\ calls[c].stage = "running"
      BY <1>1, <2>3, CallStep DEF EndsNow, Done, Rotating
    <3>2. calls[c].token <= issued[s]
      BY <3>1 DEF RotationInv, Rotating
    <3>3. issued'[s] = issued[s] + 1
      BY <2>3, <3>1 DEF EndsNow, Done
    <3> QED
      BY <1>0, <3>1, <3>2, <3>3
  <2> QED
    BY <2>1, <2>2, <2>3, CallCases
<1>2. ASSUME NEW c \in Call, NEW d \in Call,
             Ok(c, "refresh")', Rotating(d)', c \in calls'[d].after,
             calls'[c].session = calls'[d].session
      PROVE  calls'[c].token < calls'[d].token
  <2>1. CASE BeginsNow(d)
    <3>1. calls'[c] = calls[c] /\ Ok(c, "refresh")
      BY <1>2, <2>1, CallStep DEF BeginsNow, Begun, Finished, Ok
    <3>2. calls'[d].stage = "running" /\ calls'[d].op = "refresh"
      BY <1>2, <2>1 DEF BeginsNow, Begun, Rotating
    <3>3. calls'[d].session \in Session
      BY <2>1, <3>2 DEF BeginsNow, Begun
    <3> QED
      BY <1>2, <2>1, <3>1, <3>2, <3>3
      DEF BeginsNow, Begun, SessionFits, RotationInv, NewestStored
  <2>2. CASE ~BeginsNow(d)
    <3>1. /\ calls[d].stage # "unused" /\ Rotating(d)
          /\ calls'[d].after = calls[d].after
          /\ calls'[d].session = calls[d].session
          /\ calls'[d].token = calls[d].token
      <4>1. CASE calls'[d] = calls[d]
        BY <1>2, <4>1 DEF Rotating
      <4>2. CASE EndsNow(d)
        BY <1>2, <4>2, CallStep DEF EndsNow, Rotating
      <4> QED
        BY <2>2, <4>1, <4>2, CallCases
    <3>2. calls'[c] = calls[c]
      BY <1>2, <3>1, CallStep DEF CallsKnow, Finished, TypeOK
    <3> QED
      BY <1>2, <3>1, <3>2 DEF RotationInv, Ok
  <2> QED
    BY <2>1, <2>2
<1> QED
  BY <1>1, <1>2 DEF RotationInv, Ok, Rotating

LEMMA NewestTokenStep ==
  TypeOK /\ NewestStored /\ CallsKnow /\ NewestInv /\ [Next]_vars
    => NewestInv'
<1> SUFFICES ASSUME TypeOK, NewestStored, CallsKnow, NewestInv, [Next]_vars,
                    NEW c \in Call, NEW s \in Session,
                    calls'[c].op = "refresh", calls'[c].session = s,
                    calls'[c].newest, calls'[c].stage = "failed"
             PROVE  issued'[s] > 0 /\ ~Open(s)'
  BY DEF NewestInv
<1>0. issued[s] > 0 /\ ~Open(s) => issued'[s] > 0 /\ ~Open(s)'
  BY SessionStep, BoundAssumption DEF TypeOK, Token
<1>1. CASE calls'[c] = calls[c]
  BY <1>0, <1>1 DEF NewestInv
<1>2. CASE BeginsNow(c)
  BY <1>0, <1>2 DEF BeginsNow, Begun, SessionFits, NewestStored, Open
<1>3. CASE EndsNow(c)
  <2>1. calls[c].op = "refresh" /\ calls[c].session = s /\ ~Exists(s)
    BY <1>3, CallStep DEF EndsNow, Done
  <2>2. issued[s] > 0
    BY <1>3, <2>1 DEF CallsKnow, EndsNow
  <2> QED
    BY <1>0, <2>1, <2>2 DEF Open
<1> QED
  BY <1>1, <1>2, <1>3, CallCases

LEMMA OwnerStep ==
  TypeOK /\ NewestStored /\ CallsKnow /\ OwnerInv /\ [Next]_vars => OwnerInv'
<1> SUFFICES ASSUME TypeOK, NewestStored, CallsKnow, OwnerInv, [Next]_vars,
                    NEW c \in Call, NEW s \in Session,
                    Ok(c, "login")', calls'[c].session = s, Exists(s)'
             PROVE  sessions'[s].user = calls'[c].user
  BY DEF OwnerInv
<1>1. CASE calls'[c] = calls[c]
  <2>1. Ok(c, "login") /\ calls[c].session = s /\ issued[s] > 0
    BY <1>1 DEF Ok, CallsKnow
  <2> QED
    BY <1>1, <2>1, SessionStep DEF OwnerInv
<1>2. CASE BeginsNow(c)
  BY <1>2 DEF BeginsNow, Begun, Ok
<1>3. CASE EndsNow(c)
  <2>1. calls[c].op = "login" /\ calls'[c].user = calls[c].user
    BY <1>3, CallStep DEF EndsNow, Ok
  <2> QED
    BY <1>3, <2>1 DEF EndsNow, Done, Ok
<1> QED
  BY <1>1, <1>2, <1>3, CallCases

(* Who made a session, as a call that was begun later knows it.            *)
Maker(e, s) == Ok(e, "login") /\ calls[e].session = s

LEMMA MakerStays ==
  ASSUME TypeOK, CallsKnow, [Next]_vars, NEW e \in Call, NEW s \in Session,
         Finished(e), Maker(e, s)'
  PROVE  Maker(e, s) /\ calls'[e].user = calls[e].user /\ issued[s] > 0
<1>1. calls'[e] = calls[e]
  BY CallStep DEF Finished
<1> QED
  BY <1>1 DEF Maker, Ok, CallsKnow

LEMMA ClosesCases ==
  ASSUME NEW c \in Call, NEW s \in Session
  PROVE  Closes(c, s) <=>
           \/ (Ok(c, "logout") \/ Ok(c, "logoutOne")) /\ calls[c].session = s
           \/ /\ Ok(c, "logoutAll") \/ Ok(c, "delete")
              /\ \E e \in Call : /\ Maker(e, s) /\ e \in calls[c].after
                                 /\ calls[c].user = calls[e].user
BY DEF Closes, Maker

(* A call that stays as it is closes nothing that it did not close.        *)
LEMMA ClosesStays ==
  ASSUME TypeOK, CallsKnow, [Next]_vars, NEW c \in Call, NEW s \in Session,
         calls'[c] = calls[c], Closes(c, s)'
  PROVE  Closes(c, s)
<1>1. \A op : Ok(c, op)' <=> Ok(c, op)
  BY DEF Ok
<1>2. ASSUME NEW e \in Call, Maker(e, s)', e \in calls[c].after
      PROVE  Maker(e, s) /\ calls'[e].user = calls[e].user
  BY <1>2, MakerStays DEF CallsKnow
<1>3. CASE (Ok(c, "logout") \/ Ok(c, "logoutOne")) /\ calls[c].session = s
  BY <1>3, ClosesCases
<1>4. CASE /\ Ok(c, "logoutAll") \/ Ok(c, "delete")
           /\ \E e \in Call : /\ Maker(e, s)' /\ e \in calls'[c].after
                              /\ calls'[c].user = calls'[e].user
  BY <1>2, <1>4, ClosesCases
<1>5. \/ (Ok(c, "logout") \/ Ok(c, "logoutOne"))' /\ calls'[c].session = s
      \/ /\ (Ok(c, "logoutAll") \/ Ok(c, "delete"))'
         /\ \E e \in Call : /\ Maker(e, s)' /\ e \in calls'[c].after
                            /\ calls'[c].user = calls'[e].user
  BY DEF Closes, Maker
<1> QED
  BY <1>1, <1>3, <1>4, <1>5

LEMMA ClosedStep ==
  /\ TypeOK /\ NewestStored /\ CallsKnow /\ OwnerInv /\ OwnerInv'
  /\ ClosedInv /\ [Next]_vars
  => ClosedInv'
<1> SUFFICES ASSUME TypeOK, NewestStored, CallsKnow, OwnerInv, OwnerInv',
                    ClosedInv, [Next]_vars
             PROVE  ClosedInv'
  OBVIOUS
<1>0. \A s \in Session : /\ Ended(s) => Ended(s)'
                         /\ issued[s] > 0 => issued'[s] > 0
  BY SessionStep, BoundAssumption DEF TypeOK, Token
<1>1. ASSUME NEW c \in Call, NEW s \in Session, Closes(c, s)'
      PROVE  Ended(s)'
  <2>0. \/ (Ok(c, "logout") \/ Ok(c, "logoutOne"))' /\ calls'[c].session = s
        \/ /\ (Ok(c, "logoutAll") \/ Ok(c, "delete"))'
           /\ \E e \in Call : /\ Maker(e, s)' /\ e \in calls'[c].after
                              /\ calls'[c].user = calls'[e].user
    BY <1>1 DEF Closes, Maker
  <2>1. CASE calls'[c] = calls[c]
    BY <1>0, <1>1, <2>1, ClosesStays DEF ClosedInv
  <2>2. CASE BeginsNow(c)
    <3>1. CASE Ok(c, "logoutOne")' /\ calls'[c].session = s
      BY <1>0, <2>2, <3>1 DEF BeginsNow, Begun, SessionFits, Ended, Ok
    <3>2. ASSUME NEW e \in Call, Ok(c, "logoutAll")', Maker(e, s)',
                 e \in calls'[c].after, calls'[c].user = calls'[e].user
          PROVE  Ended(s)'
      <4>1. Finished(e)
        BY <2>2, <3>2 DEF BeginsNow, Begun
      <4>2. issued[s] > 0
        BY <3>2, <4>1, MakerStays
      <4>3. Exists(s)' => sessions'[s].user = calls'[e].user
        BY <3>2 DEF OwnerInv, Maker
      <4>4. Exists(s)' => sessions'[s].revoked
        BY <2>2, <3>2, <4>3 DEF BeginsNow, Begun, Ok
      <4> QED
        BY <1>0, <4>2, <4>4 DEF Ended
    <3>3. ~Ok(c, "logout")' /\ ~Ok(c, "delete")'
      BY <2>2 DEF BeginsNow, Begun, Ok
    <3> QED
      BY <2>0, <3>1, <3>2, <3>3
  <2>3. CASE EndsNow(c)
    <3>0. /\ calls[c].stage # "unused" /\ calls'[c].op = calls[c].op
          /\ calls'[c].user = calls[c].user
          /\ calls'[c].after = calls[c].after
          /\ calls[c].op # "login" => calls'[c].session = calls[c].session
      BY <2>3, CallStep DEF EndsNow
    <3>1. CASE Ok(c, "logout")' /\ calls'[c].session = s
      BY <1>0, <2>3, <3>0, <3>1 DEF EndsNow, Done, Ended, Ok, CallsKnow
    <3>2. ASSUME NEW e \in Call, Ok(c, "delete")', Maker(e, s)',
                 e \in calls'[c].after, calls'[c].user = calls'[e].user
          PROVE  Ended(s)'
      <4>1. Finished(e)
        BY <3>0, <3>2 DEF CallsKnow
      <4>2. issued[s] > 0
        BY <3>2, <4>1, MakerStays
      <4>3. Exists(s)' => sessions'[s].user = calls'[e].user
        BY <3>2 DEF OwnerInv, Maker
      <4>4. Exists(s)' => sessions'[s].user # calls[c].user
        BY <2>3, <3>0, <3>2 DEF EndsNow, Done, Ok
      <4> QED
        BY <1>0, <3>0, <3>2, <4>2, <4>3, <4>4 DEF Ended
    <3>3. ~Ok(c, "logoutOne")' /\ ~Ok(c, "logoutAll")'
      BY <2>3, <3>0 DEF EndsNow, Done, Ok
    <3> QED
      BY <2>0, <3>1, <3>2, <3>3
  <2> QED
    BY <2>1, <2>2, <2>3, CallCases
<1>2. ASSUME NEW c \in Call, NEW d \in Call, NEW s \in Session,
             Closes(c, s)', Uses(d, s)', c \in calls'[d].after
      PROVE  calls'[d].stage \notin {"running", "ok"}
  <2>1. CASE BeginsNow(d)
    <3>1. Finished(c)
      BY <1>2, <2>1 DEF BeginsNow, Begun
    <3>2. Ended(s)
      BY <1>2, <3>1, CallStep, ClosesStays DEF ClosedInv, Finished
    <3> QED
      BY <1>2, <2>1, <3>2
      DEF BeginsNow, Begun, SessionFits, Uses, Ended, Open, Exists
  <2>2. CASE calls[d].stage = "unused" /\ ~BeginsNow(d)
    BY <2>2, CallCases DEF EndsNow
  <2>3. CASE calls[d].stage # "unused"
    <3>1. /\ calls'[d].op = calls[d].op /\ calls'[d].after = calls[d].after
          /\ calls[d].op # "login" => calls'[d].session = calls[d].session
          /\ Finished(d) => calls'[d] = calls[d]
      BY <2>3, CallStep
    <3>2. Uses(d, s) /\ c \in calls[d].after
      BY <1>2, <3>1 DEF Uses
    <3>3. Closes(c, s)
      BY <1>2, <3>2, CallStep, ClosesStays DEF CallsKnow, Finished
    <3>4. calls[d].stage = "failed"
      BY <2>3, <3>2, <3>3 DEF ClosedInv, TypeOK, CallState
    <3> QED
      BY <3>1, <3>4 DEF Finished
  <2> QED
    BY <2>1, <2>2, <2>3
<1> QED
  BY <1>1, <1>2 DEF ClosedInv

-----------------------------------------------------------------------------
(* The invariant holds of every state of every history.                    *)
THEOREM Invariance == Spec => []IInv
<1>1. Init => IInv
  BY InitIInv
<1>2. IInv /\ [Next]_vars => IInv'
  BY TypeStep, NewestStep, KnowStep, RotationStep, NewestTokenStep, OwnerStep,
     ClosedStep DEF IInv
<1> QED
  BY <1>1, <1>2, PTL DEF Spec

(* Of two refreshes with one token that both succeed, neither began after  *)
(* the other was answered, and a refresh with the newest token fails only  *)
(* when the session had ended (refreshSession's comparison and rotation).  *)
THEOREM TokensSoundHolds == Spec => []TokensSound
<1>1. IInv => TokensSound
  <2> SUFFICES ASSUME IInv PROVE TokensSound
    OBVIOUS
  <2>1. ReplayRejected
    <3> SUFFICES ASSUME NEW c \in Call, NEW d \in Call,
                        Ok(c, "refresh"), Ok(d, "refresh"),
                        calls[c].session = calls[d].session,
                        calls[c].token = calls[d].token,
                        c \in calls[d].after
                 PROVE  FALSE
      BY DEF ReplayRejected
    <3>1. calls[c].token < calls[d].token
      BY DEF IInv, RotationInv, Rotating, Ok
    <3>2. calls[c].token \in Int
      BY DEF IInv, TypeOK, CallState, Token
    <3> QED
      BY <3>1, <3>2
  <2>2. NewestTokenWorks
    BY DEF IInv, NewestInv, NewestTokenWorks
  <2> QED
    BY <2>1, <2>2 DEF TokensSound, IInv
<1> QED
  BY <1>1, Invariance, PTL

(* No call gets through with a session that was closed before the call     *)
(* began, whatever refresh of it was under way, and a session whose        *)
(* account is deleted never gets another refresh token.                    *)
THEOREM SessionsStayClosedHolds == Spec => SessionsStayClosed
<1>1. IInv /\ IInv' /\ [Next]_vars => [ClosedStaysClosed' /\ NoTokenAfterDelete]_vars
  <2> SUFFICES ASSUME IInv, IInv', [Next]_vars, ~UNCHANGED vars
               PROVE  ClosedStaysClosed' /\ NoTokenAfterDelete
    OBVIOUS
  <2>1. ClosedStaysClosed'
    BY DEF IInv, ClosedInv, ClosedStaysClosed
  <2>2. NoTokenAfterDelete
    BY SessionStep DEF IInv, NoTokenAfterDelete
  <2> QED
    BY <2>1, <2>2
<1> QED
  BY <1>1, Invariance, PTL DEF Spec, SessionsStayClosed
=============================================================================
