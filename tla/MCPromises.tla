----------------------------- MODULE MCPromises ------------------------------
(* What the server promises whatever happens meanwhile, one part at a time:   *)
(* an account for who signs in, an answer for who calls through a cache, an   *)
(* end to a shutdown and to the warming of candles, and the latest prices for *)
(* Redis.  The parts run under fairness, each with its own state.  The people *)
(* who sign in:                                                               *)
(* two devices of one Google account, two of an Apple account, one of which   *)
(* hides the e-mail, and someone who signs up by e-mail; the Google account   *)
(* was linked before identities were kept.                                    *)
EXTENDS Accounts, ServerLifecycle, MarketDataStore, TLC

ASSUME PromisesAssumption == StoreAssumption

Kinds == {"representative", "batch"}

Device(slot, provider, account, email) ==
  [slot |-> slot, provider |-> provider, account |-> account, email |-> email]

MCClient ==
  {Device(1, "google", <<"g">>, <<"a">>), Device(2, "google", <<"g">>, <<"c">>),
   Device(1, "apple", <<"p">>, <<"a">>), Device(2, "apple", <<"p">>, NoEmail),
   Device(1, "email", <<"a">>, <<"a">>)}

MCLegacy == 1 :> Row("google", <<"g">>, <<"b">>)

VARIABLES
  chosen,      \* the part that acts
  swr, now, cacheAnswers, entry, loads, inFlight, waitsOn, slotNow,
  nextStartAt, cooldownUntil, graphs, slotInFlight, status, dueAt, todo, work,
  deferred, kimchiNow, cache, kimchiLoads, outcome, kimchiCalls, kimchiAnswers,
  response

RC == INSTANCE RequestCache WITH
  Request <- {"r1", "r2"}, Nobody <- "nobody", Ttl <- 1, StaleTtl <- 2,
  MaxLoad <- 2, Modes <- BOOLEAN, MaxTime <- 6, answers <- cacheAnswers

CS == INSTANCE CandleSlots WITH
  Market <- {1, 2}, Request <- {"r"}, MinInterval <- 1, Jitter <- 1,
  Cooldown <- 4, MaxAttach <- 2, Margin <- 1, Timeout <- 1, MaxFetches <- 1,
  Concurrency <- 1, WarmupConcurrency <- 1, WarmupDelay <- 1,
  WarmupTimeout <- 1, LastArrival <- 1, MaxTime <- 10, now <- slotNow,
  inFlight <- slotInFlight

KS == INSTANCE KimchiSnapshots WITH
  Caller <- {"r", "b"}, KindOf <- [r |-> "representative", b |-> "batch"],
  Ttl <- [k \in Kinds |-> 1], StaleTtl <- [k \in Kinds |-> 2], MaxLoad <- 1,
  Fresh <- 0, Slight <- 1, MaxTime <- 2, now <- kimchiNow,
  loads <- kimchiLoads, calls <- kimchiCalls, answers <- kimchiAnswers

cacheVars == <<swr, now, cacheAnswers, entry, loads, inFlight, waitsOn>>
slotVars == <<slotNow, nextStartAt, cooldownUntil, graphs, slotInFlight,
              status, dueAt, todo, work, deferred>>
kimchiVars == <<kimchiNow, cache, kimchiLoads, outcome, kimchiCalls,
                kimchiAnswers, response>>

SumInit ==
  /\ chosen \in {"accounts", "server", "store", "cache", "slots", "kimchi"}
  /\ Init
  /\ ServerInit
  /\ StoreInit
  /\ RC!Init /\ (chosen = "cache" \/ ~swr)
  /\ CS!Init
  /\ KS!Init

SumNext ==
  /\ UNCHANGED chosen
  /\ \/ /\ chosen = "accounts" /\ Next
        /\ UNCHANGED <<serverVars, storeVars, cacheVars, slotVars, kimchiVars>>
     \/ /\ chosen = "server" /\ ServerNext
        /\ UNCHANGED <<vars, storeVars, cacheVars, slotVars, kimchiVars>>
     \/ /\ chosen = "store" /\ StoreNext
        /\ UNCHANGED <<vars, serverVars, cacheVars, slotVars, kimchiVars>>
     \/ /\ chosen = "cache" /\ RC!Next
        /\ UNCHANGED <<vars, serverVars, storeVars, slotVars, kimchiVars>>
     \/ /\ chosen = "slots" /\ CS!Next
        /\ UNCHANGED <<vars, serverVars, storeVars, cacheVars, kimchiVars>>
     \/ /\ chosen = "kimchi" /\ KS!Next
        /\ UNCHANGED <<vars, serverVars, storeVars, cacheVars, slotVars>>

sumVars == <<chosen, vars, serverVars, storeVars, cacheVars, slotVars,
             kimchiVars>>

(* The fairness of each part, for what acts.                                 *)
FairSumSpec ==
  /\ SumInit /\ [][SumNext]_sumVars
  /\ \A c \in Client : /\ WF_vars(chosen = "accounts" /\ Proceeds(c))
                       /\ WF_vars(chosen = "accounts" /\ SocialBegins(c))
  /\ \A l \in {"r1", "r2"} :
       /\ WF_cacheVars(chosen = "cache" /\ (RC!LoaderResolves(l) \/ RC!LoaderRejects(l)))
       /\ WF_cacheVars(chosen = "cache" /\ RC!LoadFinishes(l))
  /\ WF_serverVars(chosen = "server" /\ HeartbeatFires)
  /\ WF_serverVars(chosen = "server" /\ Forced)
  /\ \A c \in Connection : WF_serverVars(chosen = "server" /\ Closed(c))
  /\ \A k \in Kinds : /\ WF_kimchiVars(chosen = "kimchi" /\ (KS!LoadResolves(k) \/ KS!LoadRejects(k)))
                      /\ WF_kimchiVars(chosen = "kimchi" /\ KS!LoadEnds(k))
  /\ \A c \in {"r", "b"} :
       WF_kimchiVars(chosen = "kimchi" /\ (KS!Resumes(c) \/ KS!Collects(c)))
  /\ WF_slotVars(chosen = "slots" /\ CS!BatchStep)
  /\ WF_slotVars(chosen = "slots" /\ CS!RequestStep)
  /\ WF_slotVars(chosen = "slots" /\ CS!Tick)
  /\ WF_storeVars(chosen = "store" /\ Flush)
  /\ WF_storeVars(chosen = "store" /\ (Exec \/ ExecFails))

-----------------------------------------------------------------------------

\* AccountsStay of Accounts, NobodyLeftOpen of ServerLifecycle,
\* NothingForgotten of MarketDataStore

(* Whoever signs in with Google or Apple gets an account, however the        *)
(* sign-ins of the same person overlap (resolveSocialUser).                  *)
EveryoneSignsIn == chosen = "accounts" => EveryoneGetsIn

(* The provider cache loads once at a time; it and the Kimchi snapshots keep *)
(* the promise of BoundedStaleness, that everyone is answered included.      *)
KeepsPromise == [](RC!CacheAssumption /\ RC!TypeOK /\ RC!SingleLoad)
                /\ RC!KeepsPromise /\ KS!SnapshotsKeepPromise

(* What was begun ends: a shutdown with the server down, a client that no    *)
(* longer answers with being dropped, the warming of a market's candles with *)
(* its key given back, and what the store persists with Redis caught up once *)
(* pipelines have ceased to fail.                                            *)
WorkEnds == /\ ShutdownEnds /\ DeadIsDropped /\ CS!WarmedKeysLeave
            /\ RedisCatchesUp
===============================================================================
