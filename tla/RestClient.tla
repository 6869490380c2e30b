----------------------------- MODULE RestClient -----------------------------
(***************************************************************************)
(* One call of RestClient.requestDetailed (src/core/exchange/              *)
(* rest.client.ts with retry-policy.ts): up to maxAttempts attempts, each  *)
(* with a timer that aborts it until the headers arrive, and a delay       *)
(* between attempts.  The service behind the URL is external: it performs  *)
(* the request or not, and answers, fails or says nothing.                 *)
(*                                                                         *)
(* The timer is cleared when the headers arrive, so a body that stops      *)
(* coming keeps the attempt open: BodyStalls says whether this one does.   *)
(***************************************************************************)
EXTENDS Integers

CONSTANTS MaxAttempts, TimeoutMs, BaseDelayMs, MaxDelayMs,
          RetryAfter,      \* delays a Retry-After header may ask for
          MaxTime

RestAssumption ==
  /\ MaxAttempts \in Nat \ {0} /\ TimeoutMs \in Nat \ {0}
  /\ BaseDelayMs \in Nat /\ MaxDelayMs \in Nat
  /\ RetryAfter \subseteq Nat /\ MaxTime \in Nat
  /\ \A n \in 1..MaxAttempts : BaseDelayMs * 2 ^ (n - 1) \in Nat

Status == {"ok", "retryable", "fatal"}

VARIABLES now, pc, attempt,
          until,           \* when the abort timer or the delay fires
          status,          \* of the response whose body is being read
          outcome,         \* what the caller gets
          answered,        \* history: statuses read with their bodies
          performed,       \* history: how often the service did the work
          unbounded        \* history: a body stalled, or Retry-After was used

restVars == <<now, pc, attempt, until, status, outcome, answered, performed, unbounded>>

RestInit == /\ now = 0 /\ pc = "send" /\ attempt = 1 /\ until = 0
        /\ status = "none" /\ outcome = "none"
        /\ answered = {} /\ performed = 0 /\ unbounded = FALSE

-----------------------------------------------------------------------------
Backoff(n) == BaseDelayMs * 2 ^ (n - 1)

RetryDelay == IF Backoff(attempt) < MaxDelayMs THEN Backoff(attempt) ELSE MaxDelayMs

Send == /\ pc = "send"
        /\ pc' = "headers" /\ until' = now + TimeoutMs
        /\ UNCHANGED <<now, attempt, status, outcome, answered, performed, unbounded>>

Ends(with) == pc' = "ended" /\ outcome' = with /\ UNCHANGED <<attempt, until>>

WaitsFor(delay) == /\ pc' = "delay" /\ until' = now + delay
                   /\ UNCHANGED <<attempt, outcome>>

(* Variant: every error is worth another attempt.                          *)
FailsRetryingAll(with) ==
  IF attempt >= MaxAttempts THEN Ends(with) ELSE WaitsFor(RetryDelay)

(* The catch of an attempt: a fatal status and the last attempt throw.     *)
Fails(with) ==
  IF with = "fatal" \/ attempt >= MaxAttempts
  THEN Ends(with) ELSE WaitsFor(RetryDelay)

(* The service does the work at most once per attempt, heard or not.       *)
ServicePerforms ==
  /\ pc = "headers" /\ performed < attempt
  /\ performed' = performed + 1
  /\ UNCHANGED <<now, pc, attempt, until, status, outcome, answered, unbounded>>

HeadersArrive ==
  /\ pc = "headers"
  /\ status' \in (IF performed = 0 THEN Status \ {"ok"} ELSE Status)
  /\ pc' = "body"
  /\ UNCHANGED <<now, attempt, until, outcome, answered, performed, unbounded>>

BodyStalls ==
  /\ pc = "body" /\ ~unbounded
  /\ unbounded' = TRUE
  /\ UNCHANGED <<now, pc, attempt, until, status, outcome, answered, performed>>

(* The body is there: a 2xx is returned, a retryable status waits as the   *)
(* service asks or as the policy says, and any other is thrown.            *)
BodyArrives ==
  /\ pc = "body"
  /\ CASE status = "ok" -> Ends("ok") /\ UNCHANGED unbounded
       [] status = "retryable" /\ attempt < MaxAttempts ->
            \/ WaitsFor(RetryDelay) /\ UNCHANGED unbounded
            \/ \E d \in RetryAfter : WaitsFor(d) /\ unbounded' = TRUE
       [] OTHER -> Fails(status) /\ UNCHANGED unbounded
  /\ status' = "none" /\ answered' = answered \cup {status}
  /\ UNCHANGED <<now, performed>>

(* No connection, a reset, or a body that is not what its type says.       *)
NetworkFails ==
  /\ pc \in {"headers", "body"}
  /\ Fails("network") /\ status' = "none"
  /\ UNCHANGED <<now, answered, performed, unbounded>>

TimerAborts ==
  /\ pc = "headers" /\ until <= now
  /\ Fails("timeout")
  /\ UNCHANGED <<now, status, answered, performed, unbounded>>

DelayEnds ==
  /\ pc = "delay" /\ until <= now
  /\ pc' = "send" /\ attempt' = attempt + 1
  /\ UNCHANGED <<now, until, status, outcome, answered, performed, unbounded>>

(* Timers fire on time; a body that does not stall comes with its headers. *)
Tick ==
  /\ now < MaxTime
  /\ pc \in {"headers", "delay"} => now < until
  /\ pc # "send" /\ pc # "ended" /\ (pc = "body" => unbounded)
  /\ now' = now + 1
  /\ UNCHANGED <<pc, attempt, until, status, outcome, answered, performed, unbounded>>

RestNext == \/ Send \/ ServicePerforms \/ HeadersArrive \/ BodyStalls
        \/ BodyArrives \/ NetworkFails \/ TimerAborts \/ DelayEnds \/ Tick

RestSpec == RestInit /\ [][RestNext]_restVars

-----------------------------------------------------------------------------
Budget == MaxAttempts * TimeoutMs + (MaxAttempts - 1) * MaxDelayMs

(* A caller waits at most the timeouts and capped delays of all attempts,  *)
(* unless a body stalls or the service asks for more time; and a request   *)
(* that may already have been performed is sent again only while no answer *)
(* settled it: a success or a fatal status read in full ends the call.     *)
CallsAreBounded ==
  /\ ~unbounded => now <= Budget
  /\ answered \cap {"ok", "fatal"} # {} => pc = "ended"
=============================================================================
