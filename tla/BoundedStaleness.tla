-------------------------- MODULE BoundedStaleness --------------------------
(***************************************************************************)
(* What a cached read of an upstream exchange promises its callers,        *)
(* whatever the cache does inside: an answer is the upstream data as it    *)
(* was at some instant, no older than MaxAge, and never older than data    *)
(* already handed out when the question was asked.                         *)
(***************************************************************************)
EXTENDS Integers, FiniteSets

CONSTANTS
  Request,      \* the questions that may be asked
  MaxAge,       \* how old an answer may be (a natural number)
  MaxTime       \* bound on the clock (a natural number)

VARIABLES
  now,
  answers       \* what each question has got so far

aVars == <<now, answers>>

None     == -1                        \* no instant
Instant  == 0..MaxTime
Unasked  == [status |-> "unasked", asOf |-> None, floor |-> None]

Answers  == [status : {"unasked", "waiting", "served", "failed"},
             asOf   : Instant \cup {None},
             floor  : Instant \cup {None}]

(* The newest data any caller has been given.                              *)
Newest ==
  LET given == {answers[r].asOf : r \in Request} \cup {None}
  IN  CHOOSE t \in given : \A u \in given : u <= t

ATypeOK == now \in Instant /\ answers \in [Request -> Answers]

AInit == now = 0 /\ answers = [r \in Request |-> Unasked]

ATick == now < MaxTime /\ now' = now + 1 /\ UNCHANGED answers

Acceptable(asOf, floor) == asOf \in Instant /\ asOf <= now /\ asOf >= floor
                            /\ asOf + MaxAge >= now

(* A caller asks; it waits, or is answered at once from memory.            *)
AAsk(r) ==
  /\ answers[r].status = "unasked"
  /\ \/ answers' = [answers EXCEPT ![r] =
                       [status |-> "waiting", asOf |-> None, floor |-> Newest]]
     \/ \E t \in Instant :
          /\ Acceptable(t, Newest)
          /\ answers' = [answers EXCEPT ![r] =
                           [status |-> "served", asOf |-> t, floor |-> Newest]]
  /\ UNCHANGED now

(* Everyone waiting is answered by the same outcome of one upstream call.  *)
AAnswer ==
  /\ \E W \in SUBSET {r \in Request : answers[r].status = "waiting"} :
       /\ W # {}
       /\ \E t \in Instant :
            /\ \A r \in W : Acceptable(t, answers[r].floor)
            /\ answers' = [r \in Request |->
                 IF r \in W THEN [answers[r] EXCEPT !.status = "served", !.asOf = t]
                 ELSE answers[r]]
  /\ UNCHANGED now

AFail ==
  /\ \E W \in SUBSET {r \in Request : answers[r].status = "waiting"} :
       /\ W # {}
       /\ answers' = [r \in Request |->
            IF r \in W THEN [answers[r] EXCEPT !.status = "failed"] ELSE answers[r]]
  /\ UNCHANGED now

ANext == ATick \/ AAnswer \/ AFail \/ \E r \in Request : AAsk(r)

AFairness == WF_aVars(AAnswer \/ AFail)

(* A step that keeps the promise; the liveness is in AFairness.            *)
AStep == [ANext]_aVars

ASpec == AInit /\ [][ANext]_aVars /\ AFairness
=============================================================================
