---------------------------- MODULE PrivateStreams ----------------------------
(***************************************************************************)
(* The streams of one client of /ws/trading (src/websocket/wsServer.ts):   *)
(* while it is subscribed to anything an interval polls the user's orders, *)
(* fills and portfolio at the exchanges, and sends what has changed.       *)
(*                                                                         *)
(* The three loops of a poll run side by side.  Each walks over the live   *)
(* collection of its channel and awaits one exchange after the other: it   *)
(* waits "at" an exchange until that has given its answer, and goes on     *)
(* with the answer some time later.  An exchange is subscribed to as a     *)
(* whole (the symbol '*').  An order and a portfolio are represented by a  *)
(* version, the fills of an exchange by how many there have been.          *)
(***************************************************************************)
EXTENDS Integers, Sequences, FiniteSets, SequencesExt

CONSTANTS
  Exchange,
  Offered,         \* the channels in use, of orders, fills and portfolio
  Poll,            \* identities of polls, numbers; the lowest free one is used
  MaxVersion,      \* bound on what happens at an exchange
  Recent,          \* fills asked for at once (30)
  MaxKnown,        \* MAX_PRIVATE_DIGEST_ENTRIES
  MaxSubs          \* MAX_PRIVATE_SUBSCRIPTIONS_PER_CLIENT

(* The channels are those of the handlers, polls and limits are numbers.   *)
FillsAssumption ==
  /\ Offered \subseteq {"orders", "fills", "portfolio"}
  /\ MaxVersion \in Nat /\ MaxSubs \in Nat
  /\ Recent \in Nat \ {0} /\ MaxKnown \in Nat \ {0}

VARIABLES
  truth,       \* versions and numbers of fills at the exchanges
  socket,      \* readyState of the client's socket
  registered,  \* it is in privateClientSubscriptions
  subs,        \* the subscriptions of a channel, oldest first
  timer,       \* pollTimer is set
  inFlight,    \* pollInFlight
  running,     \* the running calls of pollPrivateClient
  walk,        \* where each loop of each call is
  digests,     \* orderDigests and portfolioDigests
  sentFills,   \* sentFillIds, oldest first
  received,    \* newest version or fill the client was sent (history)
  log,         \* the last MaxKnown fills it was sent (history)
  snapshot     \* of each portfolio: "awaited" since it was subscribed to,
               \* or sent too "late", after its subscription (history)

vars == <<truth, socket, registered, subs, timer, inFlight, running, walk,
          digests, sentFills, received, log, snapshot>>
client == <<socket, registered, subs, timer>>
sent   == <<digests, sentFills, received, log, snapshot>>

Feed    == Offered \X Exchange
Fill    == Exchange \X (1 .. MaxVersion)
Nowhere == "nowhere"
Waiting == -1
Unsent  == -1
AtEnd   == [at |-> Nowhere, ahead |-> <<>>, answer |-> Waiting]

SubscriptionCount == MapThenSumSet(LAMBDA l : Len(subs[l]), Offered)

TypeOK ==
  /\ truth \in [Feed -> 0 .. MaxVersion]
  /\ socket \in {"open", "closing", "gone"} /\ registered \in BOOLEAN
  /\ \A l \in Offered : IsInjective(subs[l]) /\ ToSet(subs[l]) \subseteq Exchange
  /\ SubscriptionCount <= MaxSubs
  /\ timer \in BOOLEAN /\ inFlight \in BOOLEAN
  /\ running \subseteq Poll
  /\ \A p \in Poll, l \in Offered :
       /\ walk[p][l].at \in Exchange \cup {Nowhere}
       /\ walk[p][l].answer \in Waiting .. MaxVersion
       /\ ToSet(walk[p][l].ahead) \subseteq Exchange
  /\ digests \in [Feed -> Unsent .. MaxVersion]
  /\ ToSet(sentFills) \subseteq Fill /\ Len(sentFills) <= MaxKnown
  /\ received \in [Feed -> Unsent .. MaxVersion]
  /\ ToSet(log) \subseteq Fill
  /\ snapshot \in [Exchange -> {"idle", "awaited", "late"}]

Init ==
  /\ truth = [f \in Feed |-> 0]
  /\ socket = "open" /\ registered = TRUE
  /\ subs = [l \in Offered |-> <<>>]
  /\ timer = FALSE /\ inFlight = FALSE
  /\ running = {}
  /\ walk = [p \in Poll |-> [l \in Offered |-> AtEnd]]
  /\ digests = [f \in Feed |-> Unsent]
  /\ received = [f \in Feed |-> Unsent]
  /\ sentFills = <<>> /\ log = <<>>
  /\ snapshot = [e \in Exchange |-> "idle"]

Subscribed(l, e) == e \in ToSet(subs[l])
AnyActive(s) == \E l \in Offered : s[l] # <<>>

(* A loop goes to the next entry of its collection and asks the exchange.  *)
Visit(ahead) ==
  IF ahead = <<>> THEN AtEnd
  ELSE [at |-> Head(ahead), ahead |-> Tail(ahead), answer |-> Waiting]

-----------------------------------------------------------------------------
(* Something happens to the user's account at an exchange.                 *)
Happens(l, e) ==
  /\ truth[<<l, e>>] < MaxVersion
  /\ truth' = [truth EXCEPT ![<<l, e>>] = @ + 1]
  /\ UNCHANGED <<client, inFlight, running, walk, sent>>

(* pollPrivateClient up to the first await of each loop; w is where the    *)
(* loops of other calls are, s what is subscribed to.                      *)
PollStarts(w, s) ==
  \E p \in Poll \ running :
    /\ \A q \in Poll \ running : p <= q
    /\ running' = running \cup {p}
    /\ inFlight' = TRUE
    /\ walk' = [w EXCEPT ![p] = [l \in Offered |-> Visit(s[l])]]

MayPoll == registered /\ socket = "open" /\ ~inFlight

(* A collection an entry is deleted from.                                  *)
Without(seq, e) ==
  LET k == CHOOSE i \in DOMAIN seq : seq[i] = e
  IN  IF e \in ToSet(seq)
      THEN [i \in 1 .. Len(seq) - 1 |-> IF i < k THEN seq[i] ELSE seq[i + 1]]
      ELSE seq

(* The loops under way see an entry of their collection go, or a new one   *)
(* (added) at its end.                                                     *)
Seen(l, e, added) ==
  [p \in Poll |-> [walk[p] EXCEPT ![l].ahead =
     IF walk[p][l].at = Nowhere THEN <<>>
     ELSE Without(@, e) \o added]]

Admits(l, e) == Subscribed(l, e) \/ SubscriptionCount < MaxSubs

(* The first subscription of a client sets its interval and polls at once. *)
Subscribe(l, e) ==
  /\ registered /\ socket # "gone" /\ Admits(l, e)
  /\ subs' = [subs EXCEPT ![l] = IF Subscribed(l, e) THEN @ ELSE Append(@, e)]
  /\ timer' = TRUE
  /\ snapshot' = [snapshot EXCEPT ![e] =
       IF l = "portfolio" /\ ~Subscribed(l, e) /\ @ = "idle"
       THEN "awaited" ELSE @]
  /\ LET seen == IF Subscribed(l, e) THEN walk
                 ELSE Seen(l, e, <<e>>)
     IN  IF ~timer /\ MayPoll THEN PollStarts(seen, subs')
                              ELSE walk' = seen /\ UNCHANGED <<running, inFlight>>
  /\ UNCHANGED <<truth, socket, registered, digests, sentFills, received, log>>

(* Only a portfolio's digest is dropped with its subscription.             *)
DigestsWithout(l, e) ==
  IF l = "portfolio" THEN [digests EXCEPT ![<<l, e>>] = Unsent] ELSE digests

Unsubscribe(l, e) ==
  /\ registered /\ socket # "gone"
  /\ subs' = [subs EXCEPT ![l] = Without(@, e)]
  /\ timer' = (timer /\ AnyActive(subs'))
  /\ walk' = Seen(l, e, <<>>)
  /\ digests' = DigestsWithout(l, e)
  /\ snapshot' = [snapshot EXCEPT ![e] = IF l = "portfolio" THEN "idle" ELSE @]
  /\ UNCHANGED <<truth, socket, registered, inFlight, running, sentFills,
                 received, log>>

IntervalFires ==
  /\ timer /\ MayPoll
  /\ PollStarts(walk, subs)
  /\ UNCHANGED <<truth, client, sent>>

-----------------------------------------------------------------------------
(* An exchange answers the query a loop waits for.                         *)
Answers(p, l) ==
  LET w == walk[p][l]
  IN  /\ w.at # Nowhere /\ w.answer = Waiting
      /\ walk' = [walk EXCEPT ![p][l].answer = truth[<<l, w.at>>]]
      /\ UNCHANGED <<truth, client, inFlight, running, sent>>

(* It fails: the loop logs this and goes on.                               *)
Fails(p, l) ==
  /\ walk[p][l].at # Nowhere /\ walk[p][l].answer = Waiting
  /\ walk' = [walk EXCEPT ![p][l] = Visit(@.ahead)]
  /\ UNCHANGED <<truth, client, inFlight, running, sent>>

(* addBoundedSetValue of a value that is not in the set.                   *)
AddBounded(seq, f) ==
  IF Len(seq) >= MaxKnown THEN Append(Tail(seq), f) ELSE Append(seq, f)

LastSent(seq, f) ==
  IF Len(seq) >= MaxKnown THEN Append(Tail(seq), f) ELSE Append(seq, f)

(* The newest fills of an exchange, newest first.                          *)
RecentFills(e, n) ==
  [i \in 1 .. (IF n < Recent THEN n ELSE Recent) |-> <<e, n - i + 1>>]

SendsFill(acc, f) ==
  IF f \in ToSet(acc.known) THEN acc
  ELSE [known |-> AddBounded(acc.known, f), log |-> LastSent(acc.log, f),
        newest |-> IF f[2] > acc.newest THEN f[2] ELSE acc.newest]

(* What is known, and was sent, after the first i of those fills.          *)
AfterFills(e, n) ==
  LET fills == RecentFills(e, n)
      after[i \in 0 .. Len(fills)] ==
        IF i = 0 THEN [known |-> sentFills, log |-> log, newest |-> received[<<"fills", e>>]]
        ELSE SendsFill(after[i - 1], fills[i])
  IN  after

SendsFills(e, n) ==
  LET after == AfterFills(e, n)[Len(RecentFills(e, n))]
  IN  /\ sentFills' = after.known
      /\ IF socket = "open"
         THEN /\ log' = after.log
              /\ received' = [received EXCEPT ![<<"fills", e>>] = after.newest]
         ELSE UNCHANGED <<log, received>>
      /\ UNCHANGED <<digests, snapshot>>

(* An order or a portfolio is sent when its digest has changed.            *)
SendsVersion(l, e, v) ==
  /\ digests' = [digests EXCEPT ![<<l, e>>] = v]
  /\ IF digests[<<l, e>>] # v /\ socket = "open"
     THEN /\ received' = [received EXCEPT ![<<l, e>>] = v]
          /\ snapshot' = [snapshot EXCEPT ![e] =
               IF l # "portfolio" THEN @
               ELSE IF Subscribed(l, e) THEN "idle" ELSE "late"]
     ELSE UNCHANGED <<received, snapshot>>
  /\ UNCHANGED <<sentFills, log>>

(* A loop goes on with an answer, whether or not the client still wants it.*)
Delivers(p, l) ==
  LET w == walk[p][l]
  IN  /\ w.at # Nowhere /\ w.answer # Waiting
      /\ IF l = "fills" THEN SendsFills(w.at, w.answer)
                        ELSE SendsVersion(l, w.at, w.answer)
      /\ walk' = [walk EXCEPT ![p][l] = Visit(w.ahead)]
      /\ UNCHANGED <<truth, client, inFlight, running>>

(* Variant: a call that ends does not give up the flag.                    *)
EndsBusy(p) ==
  /\ p \in running /\ \A l \in Offered : walk[p][l].at = Nowhere
  /\ running' = running \ {p}
  /\ UNCHANGED <<truth, client, inFlight, walk, sent>>

(* All three loops have ended.                                             *)
PollEnds(p) ==
  /\ p \in running /\ \A l \in Offered : walk[p][l].at = Nowhere
  /\ running' = running \ {p}
  /\ inFlight' = FALSE
  /\ UNCHANGED <<truth, client, walk, sent>>

-----------------------------------------------------------------------------
(* Either side closes, or sendJson closes a slow consumer.                 *)
Closes ==
  /\ socket = "open" /\ socket' = "closing"
  /\ UNCHANGED <<truth, registered, subs, timer, inFlight, running, walk, sent>>

(* cleanupPrivateClient.                                                   *)
Cleanup == registered' = FALSE /\ timer' = FALSE

(* The close event of the socket.                                          *)
Closed ==
  /\ socket = "closing" /\ socket' = "gone"
  /\ Cleanup
  /\ UNCHANGED <<truth, subs, inFlight, running, walk, sent>>

(* The heartbeat gives the client up, or the server closes.                *)
Dropped ==
  /\ registered /\ socket # "gone" /\ socket' = "closing"
  /\ Cleanup
  /\ UNCHANGED <<truth, subs, inFlight, running, walk, sent>>

ClientActs == \E f \in Feed : Subscribe(f[1], f[2]) \/ Unsubscribe(f[1], f[2])

Next ==
  \/ \E f \in Feed : Happens(f[1], f[2])
  \/ ClientActs
  \/ IntervalFires
  \/ \E p \in Poll : \/ \E l \in Offered : Answers(p, l) \/ Fails(p, l)
                                                         \/ Delivers(p, l)
                     \/ PollEnds(p)
  \/ Closes \/ Closed \/ Dropped

Spec == Init /\ [][Next]_vars

(* The interval fires, every query ends and now and then one succeeds.     *)
FairSpec ==
  /\ Spec /\ WF_vars(IntervalFires)
  /\ WF_vars(\E p \in Poll : PollEnds(p))
  /\ \A l \in Offered :
       /\ WF_vars(\E p \in Poll : Answers(p, l) \/ Fails(p, l))
       /\ WF_vars(\E p \in Poll : Delivers(p, l))
       /\ \A e \in Exchange :
            SF_vars(\E p \in Poll : walk[p][l].at = e /\ Answers(p, l))

-----------------------------------------------------------------------------
(* Of the last MaxKnown fills the client was sent none was sent twice,     *)
(* whatever polls failed and however it subscribed meanwhile.              *)
FillsNotRepeated == IsInjective(log)

(* What a client is told of an order or a portfolio never goes back to an  *)
(* earlier state: no answer overtakes a later one (pollInFlight).  Once    *)
(* the client has settled its subscriptions it learns the newest order,    *)
(* portfolio and fill of each, unless it leaves; and who subscribes to a   *)
(* portfolio is sent it, also when it has not changed since it was sent    *)
(* last (handlePrivateSubscription).                                       *)
CaughtUp ==
  /\ [][\A f \in Feed : received'[f] >= received[f]]_vars
  /\ <>[][~ClientActs]_vars =>
       /\ \A f \in Feed, v \in 1 .. MaxVersion :
            (Subscribed(f[1], f[2]) /\ truth[f] = v)
              ~> \/ received[f] = v \/ truth[f] # v \/ ~Subscribed(f[1], f[2])
                 \/ socket # "open"
       /\ \A e \in Exchange :
            snapshot[e] = "awaited" ~> snapshot[e] # "awaited" \/ socket # "open"
=============================================================================
