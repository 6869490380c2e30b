-------------------------- MODULE RequestCacheProofs --------------------------
(***************************************************************************)
(* Proofs about RequestCache, for any number of requests, any ages and any *)
(* length of a load: one load at a time, no failure while an entry can be  *)
(* used, and the safety of BoundedStaleness, step by step.  IInv is the    *)
(* inductive invariant.  The snapshot caches of the Kimchi premium keep    *)
(* that promise too, and SnapInv is theirs; then come other caches: the    *)
(* rows of the premium (KimchiRows), AssetImages and NewsFeed.             *)
(***************************************************************************)
EXTENDS RequestCache, Sequences, FiniteSetTheorems, TLAPS

MaxAge == StaleTtl + 2 * MaxLoad - 1

(* The load that the map holds is the only one, and who waits waits on it. *)
MapInv ==
  /\ \A l \in Request : loads[l].state # "none" => inFlight = l
  /\ inFlight # Nobody => loads[inFlight].state # "none"
  /\ \A r \in Request : answers[r].status = "waiting" <=> waitsOn[r] # Nobody
  /\ \A r \in Request : waitsOn[r] # Nobody => waitsOn[r] = inFlight

(* Nothing newer than the entry was handed out, and nothing in the entry   *)
(* was old when it was stored.                                             *)
EntryInv ==
  /\ entry.asOf <= entry.cachedAt /\ entry.cachedAt <= now
  /\ entry.cachedAt <= entry.asOf + MaxLoad
  /\ \A r \in Request :
       /\ answers[r].asOf <= entry.asOf
       /\ answers[r].status = "waiting" => answers[r].floor <= entry.asOf
       /\ answers[r].status = "waiting" => answers[r].asOf = None
       /\ answers[r].status = "unasked" => answers[r] = Unasked

(* A load runs for MaxLoad at most; the entry does not change under it,    *)
(* and what it resolves with is the entry's data.                          *)
LoadInv(l) ==
  /\ loads[l].state = "running" =>
       /\ loads[l].startedAt \in Instant
       /\ loads[l].startedAt <= now /\ now <= loads[l].startedAt + MaxLoad
       /\ loads[l].fallback = entry /\ entry.cachedAt <= loads[l].startedAt
       /\ loads[l].refresh => /\ entry # NoEntry
                              /\ entry.cachedAt + StaleTtl > loads[l].startedAt
  /\ loads[l].state = "resolved" =>
       /\ entry # NoEntry /\ loads[l].asOf = entry.asOf
       /\ entry.asOf + MaxAge >= now
  /\ loads[l].state = "rejected" => ~IsUsable(entry)

LoadsInv == \A l \in Request : LoadInv(l)

IInv == TypeOK /\ MapInv /\ EntryInv /\ LoadsInv

-----------------------------------------------------------------------------
(* A set of integers between two bounds has a greatest element: of the     *)
(* sets of what is greater than one of its members, take a smallest.       *)
LEMMA GreatestExists ==
  ASSUME NEW lo \in Int, NEW hi \in Int, NEW T \in SUBSET (lo .. hi), T # {}
  PROVE  \E t \in T : \A u \in T : u <= t
<1> DEFINE Above(t) == {u \in T : u > t}
           Aboves   == {Above(t) : t \in T}
           R        == StrictSubsetOrdering(T)
<1>1. IsFiniteSet(T)
  BY FS_Interval, FS_Subset
<1>2. Aboves \subseteq FiniteSubsetsOf(T)
  BY <1>1, FS_Subset DEF FiniteSubsetsOf
<1>3. Aboves # {}
  OBVIOUS
<1>4. IsWellFoundedOn(R, FiniteSubsetsOf(T))
  BY FS_StrictSubsetOrderingWellFounded
<1>5. PICK least \in Aboves : \A U \in Aboves : <<U, least>> \notin R
  <2> HIDE DEF Aboves, R
  <2> QED
    BY <1>2, <1>3, <1>4, WFMin
<1>6. PICK t \in T : least = Above(t)
  BY <1>5
<1>7. ASSUME NEW u \in T, u > t
      PROVE  FALSE
  <2>1. t \in Int /\ u \in Int /\ \A v \in T : v \in Int
    OBVIOUS
  <2>2. Above(u) \subseteq Above(t) /\ u \in Above(t) /\ u \notin Above(u)
    <3>1. /\ \A v \in T : v > u => v > t
          /\ ~(u > u)
      BY <1>7, <2>1
    <3> QED
      BY <1>7, <3>1
  <2>3. <<Above(u), Above(t)>> \in R
    BY <2>2 DEF StrictSubsetOrdering
  <2> QED
    BY <1>5, <1>6, <2>3
<1>8. \A u \in T : u <= t
  BY <1>7
<1> QED
  BY <1>8

(* The newest data handed out is data that was handed out, or none.        *)
LEMMA NewestGiven ==
  ASSUME CacheAssumption, TypeOK
  PROVE  /\ Newest \in Instant \cup {None}
         /\ Newest = None \/ \E r \in Request : Newest = answers[r].asOf
<1> DEFINE given == {answers[r].asOf : r \in Request} \cup {None}
<1>1. given \in SUBSET (-1 .. MaxTime) /\ given # {}
  BY DEF TypeOK, CacheAssumption, Promise!ATypeOK, Promise!Answers, None,
         Promise!None, Promise!Instant
<1>2. PICK t \in given : \A u \in given : u <= t
  <2> HIDE DEF given
  <2>1. -1 \in Int /\ MaxTime \in Int
    BY DEF CacheAssumption
  <2> QED
    BY <1>1, <2>1, GreatestExists
<1>3. Newest \in given
  BY <1>2 DEF Newest, Promise!Newest, None
<1> QED
  BY <1>1, <1>3 DEF Instant, Promise!Instant, None, Promise!None, CacheAssumption

LEMMA EntryFields ==
  ASSUME CacheAssumption, TypeOK
  PROVE  /\ entry.asOf \in Instant \cup {None} /\ entry.asOf \in Int
         /\ entry.cachedAt \in Instant \cup {None} /\ entry.cachedAt \in Int
         /\ entry # NoEntry => entry \in Entry /\ entry.asOf \in Instant
         /\ now \in Instant /\ now \in Int /\ None \in Int /\ None = -1
<1>0. /\ Instant = 0 .. MaxTime /\ None = -1 /\ now \in Instant
      /\ \A t \in Instant : t \in Int
  BY DEF CacheAssumption, Instant, Promise!Instant, None, Promise!None, TypeOK,
         Promise!ATypeOK
<1>1. CASE entry = NoEntry
  BY <1>0, <1>1 DEF NoEntry
<1>2. CASE entry \in Entry
  BY <1>0, <1>2 DEF Entry
<1> QED
  BY <1>0, <1>1, <1>2 DEF TypeOK

LEMMA InitIInv == CacheAssumption /\ Init => IInv
<1> SUFFICES ASSUME CacheAssumption, Init PROVE IInv
  OBVIOUS
<1> USE DEF CacheAssumption
<1>0. /\ now = 0 /\ now \in Promise!Instant
      /\ answers = [r \in Request |-> Unasked] /\ Unasked \in Promise!Answers
      /\ Unasked.status = "unasked" /\ Unasked.asOf = -1
  BY DEF Init, Promise!AInit, Promise!Instant, Unasked, Promise!Unasked,
         Promise!Answers, Promise!None
<1>1. NoLoad \in Load /\ NoLoad.state = "none"
  BY DEF NoLoad, Load
<1>2. TypeOK
  BY <1>0, <1>1 DEF TypeOK, Init, Promise!ATypeOK
<1>3. MapInv
  BY <1>0, <1>1 DEF MapInv, Init
<1>4. EntryInv
  <2>1. entry.asOf = -1 /\ entry.cachedAt = -1
    BY DEF Init, NoEntry, None, Promise!None
  <2> QED
    BY <1>0, <2>1 DEF EntryInv
<1>5. LoadsInv
  BY <1>1 DEF LoadsInv, LoadInv, Init
<1> QED
  BY <1>2, <1>3, <1>4, <1>5 DEF IInv

-----------------------------------------------------------------------------
(* One caller's answer changes.                                            *)
LEMMA Answered ==
  ASSUME TypeOK, NEW r \in Request, NEW new \in Promise!Answers,
         answers' = [answers EXCEPT ![r] = new]
  PROVE  /\ answers' \in [Request -> Promise!Answers] /\ answers'[r] = new
         /\ \A q \in Request \ {r} : answers'[q] = answers[q]
BY DEF TypeOK, Promise!ATypeOK

LEMMA AnswersTyped ==
  ASSUME CacheAssumption, TypeOK,
         NEW status \in {"waiting", "served"}, NEW asOf \in Instant \cup {None}
  PROVE  [status |-> status, asOf |-> asOf, floor |-> Newest] \in Promise!Answers
BY NewestGiven DEF Promise!Answers, Instant, None

(* Nothing newer than the entry was given, so it is above every floor.     *)
LEMMA NewestBelowEntry ==
  ASSUME CacheAssumption, TypeOK, EntryInv
  PROVE  Newest <= entry.asOf
<1>1. None <= entry.asOf
  BY EntryFields DEF Instant, Promise!Instant, CacheAssumption
<1> QED
  BY <1>1, NewestGiven DEF EntryInv

LEMMA Started ==
  ASSUME CacheAssumption, IInv, NEW r \in Request, NEW isRefresh \in BOOLEAN,
         inFlight = Nobody, StartLoad(r, isRefresh), UNCHANGED <<now, entry>>,
         isRefresh => IsUsable(entry)
  PROVE  /\ loads' \in [Request -> Load] /\ inFlight' = r
         /\ loads'[r].state = "running"
         /\ \A l \in Request : loads'[l].state # "none" => l = r
         /\ \A q \in Request : waitsOn[q] = Nobody
         /\ LoadsInv'
<1> USE DEF IInv
<1> DEFINE new == [state |-> "running", refresh |-> isRefresh,
                   startedAt |-> now, fallback |-> entry, asOf |-> None]
<1>1. new \in Load
  BY EntryFields DEF Load, TypeOK
<1>2. loads' = [loads EXCEPT ![r] = new] /\ inFlight' = r
  BY DEF StartLoad
<1>3. loads'[r] = new /\ \A l \in Request \ {r} : loads'[l] = loads[l]
  <2> HIDE DEF new
  <2> QED
    BY <1>2 DEF TypeOK
<1>4. loads' \in [Request -> Load]
  <2> HIDE DEF new
  <2> QED
    BY <1>1, <1>2 DEF TypeOK
<1>5. /\ \A l \in Request \ {r} : loads'[l].state = "none"
      /\ \A q \in Request : waitsOn[q] = Nobody
  BY <1>3 DEF MapInv, CacheAssumption
<1>6. LoadInv(r)'
  <2>1. now \in Int /\ now <= now /\ now <= now + MaxLoad
        /\ entry.cachedAt <= now /\ now \in Instant
    BY EntryFields DEF EntryInv, CacheAssumption
  <2> QED
    BY <1>3, <2>1 DEF LoadInv, IsUsable
<1>7. LoadsInv'
  BY <1>5, <1>6 DEF LoadsInv, LoadInv
<1> QED
  BY <1>2, <1>3, <1>4, <1>5, <1>7

(* An answer from memory: what the entry has, of an age that may be shown. *)
LEMMA Served ==
  ASSUME CacheAssumption, IInv, NEW r \in Request, Asks(r), IsUsable(entry),
         Serve(r, entry.asOf), UNCHANGED <<now, entry, waitsOn>>
  PROVE  /\ Promise!ATypeOK' /\ EntryInv'
         /\ \A q \in Request : answers'[q].status = "waiting"
                                 <=> waitsOn[q] # Nobody
         /\ Promise!AAsk(r)
<1> USE DEF IInv
<1> DEFINE new == [status |-> "served", asOf |-> entry.asOf, floor |-> Newest]
<1>1. new \in Promise!Answers
  BY AnswersTyped, EntryFields
<1>2. answers' = [answers EXCEPT ![r] = new]
  BY DEF Serve
<1>3. /\ answers' \in [Request -> Promise!Answers] /\ answers'[r] = new
      /\ \A q \in Request \ {r} : answers'[q] = answers[q]
  <2> HIDE DEF new
  <2> QED
    BY <1>1, <1>2, Answered
<1>4. Promise!ATypeOK'
  BY <1>3 DEF Promise!ATypeOK, TypeOK
<1>5. EntryInv'
  <2>1. entry.asOf <= entry.asOf
    BY EntryFields
  <2> QED
    BY <1>3, <2>1 DEF EntryInv
<1>6. \A q \in Request : answers'[q].status = "waiting" <=> waitsOn[q] # Nobody
  BY <1>3 DEF MapInv, Asks
<1>7. Promise!Acceptable(entry.asOf, Newest)
  <2>1. entry # NoEntry /\ entry.cachedAt + StaleTtl > now
    BY DEF IsUsable
  <2>2. entry.asOf + MaxAge >= now
    BY <2>1, EntryFields DEF EntryInv, CacheAssumption, MaxAge
  <2>3. entry.asOf <= now
    BY EntryFields DEF EntryInv
  <2> QED
    BY <2>1, <2>2, <2>3, EntryFields, NewestBelowEntry
    DEF Promise!Acceptable, MaxAge, Instant
<1>8. Promise!AAsk(r)
  BY <1>2, <1>7, EntryFields
  DEF Promise!AAsk, Asks, Newest, Instant, Promise!Acceptable
<1> QED
  BY <1>4, <1>5, <1>6, <1>8

(* A caller that waits, for a load that is in flight from now on.          *)
LEMMA Waits ==
  ASSUME CacheAssumption, IInv, NEW r \in Request, NEW l \in Request, Asks(r),
         Wait(r, l), inFlight = Nobody \/ inFlight = l, inFlight' = l,
         UNCHANGED <<now, entry>>
  PROVE  /\ Promise!ATypeOK' /\ EntryInv'
         /\ waitsOn' \in [Request -> Request \cup {Nobody}]
         /\ \A q \in Request : answers'[q].status = "waiting"
                                 <=> waitsOn'[q] # Nobody
         /\ \A q \in Request : waitsOn'[q] # Nobody => waitsOn'[q] = inFlight'
         /\ Promise!AAsk(r)
<1> USE DEF IInv
<1> DEFINE new == [status |-> "waiting", asOf |-> None, floor |-> Newest]
<1>1. new \in Promise!Answers
  BY AnswersTyped
<1>2. answers' = [answers EXCEPT ![r] = new]
  BY DEF Wait
<1>3. /\ answers' \in [Request -> Promise!Answers] /\ answers'[r] = new
      /\ \A q \in Request \ {r} : answers'[q] = answers[q]
  <2> HIDE DEF new
  <2> QED
    BY <1>1, <1>2, Answered
<1>4. Promise!ATypeOK'
  BY <1>3 DEF Promise!ATypeOK, TypeOK
<1>5. EntryInv'
  <2>1. None <= entry.asOf
    BY EntryFields DEF Instant, Promise!Instant, CacheAssumption
  <2> QED
    BY <1>3, <2>1, NewestBelowEntry DEF EntryInv
<1>6. /\ waitsOn' \in [Request -> Request \cup {Nobody}] /\ waitsOn'[r] = l
      /\ \A q \in Request \ {r} : waitsOn'[q] = waitsOn[q]
  BY DEF Wait, TypeOK
<1>7. /\ \A q \in Request : answers'[q].status = "waiting" <=> waitsOn'[q] # Nobody
      /\ \A q \in Request : waitsOn'[q] # Nobody => waitsOn'[q] = inFlight'
  BY <1>3, <1>6 DEF MapInv, CacheAssumption
<1>8. Promise!AAsk(r)
  BY <1>2 DEF Promise!AAsk, Asks, Newest, None
<1> QED
  BY <1>4, <1>5, <1>6, <1>7, <1>8

-----------------------------------------------------------------------------
(* The steps, each with what it does to the promise.                       *)
LEMMA HitStep ==
  ASSUME CacheAssumption, IInv, NEW r \in Request,
         HitFresh(r) \/ (ServeStale(r) /\ inFlight # Nobody)
  PROVE  IInv' /\ Promise!AAsk(r)
<1> USE DEF IInv
<1>1. /\ Asks(r) /\ IsUsable(entry) /\ Serve(r, entry.asOf)
      /\ UNCHANGED <<swr, now, entry, loads, inFlight, waitsOn>>
  <2>1. CASE HitFresh(r)
    BY <2>1, EntryFields DEF HitFresh, IsFresh, IsUsable, CacheAssumption
  <2>2. CASE ServeStale(r) /\ inFlight # Nobody
    BY <2>2 DEF ServeStale, MayServeStale
  <2> QED
    BY <2>1, <2>2
<1>2. /\ Promise!ATypeOK' /\ EntryInv' /\ Promise!AAsk(r)
      /\ \A q \in Request : answers'[q].status = "waiting" <=> waitsOn[q] # Nobody
  BY <1>1, Served
<1>3. TypeOK' /\ MapInv' /\ LoadsInv'
  BY <1>1, <1>2 DEF TypeOK, MapInv, LoadsInv, LoadInv, IsUsable
<1> QED
  BY <1>2, <1>3

LEMMA RefreshStep ==
  ASSUME CacheAssumption, IInv, NEW r \in Request, ServeStale(r),
         inFlight = Nobody
  PROVE  IInv' /\ Promise!AAsk(r)
<1> USE DEF IInv
<1>1. /\ Asks(r) /\ IsUsable(entry) /\ Serve(r, entry.asOf)
      /\ StartLoad(r, TRUE) /\ UNCHANGED <<swr, now, entry, waitsOn>>
  BY DEF ServeStale, MayServeStale
<1>2. /\ Promise!ATypeOK' /\ EntryInv' /\ Promise!AAsk(r)
      /\ \A q \in Request : answers'[q].status = "waiting" <=> waitsOn[q] # Nobody
  BY <1>1, Served
<1>3. /\ loads' \in [Request -> Load] /\ inFlight' = r
      /\ loads'[r].state = "running"
      /\ \A l \in Request : loads'[l].state # "none" => l = r
      /\ \A q \in Request : waitsOn[q] = Nobody
      /\ LoadsInv'
  BY <1>1, Started
<1>4. TypeOK' /\ MapInv'
  BY <1>1, <1>2, <1>3 DEF TypeOK, MapInv
<1> QED
  BY <1>2, <1>3, <1>4

LEMMA JoinStep ==
  ASSUME CacheAssumption, IInv, NEW r \in Request, JoinLoad(r)
  PROVE  IInv' /\ Promise!AAsk(r)
<1> USE DEF IInv
<1>1. /\ Asks(r) /\ inFlight \in Request /\ Wait(r, inFlight)
      /\ UNCHANGED <<swr, now, entry, loads, inFlight>>
  BY DEF JoinLoad, MissesCache, TypeOK
<1>2. /\ Promise!ATypeOK' /\ EntryInv' /\ Promise!AAsk(r)
      /\ waitsOn' \in [Request -> Request \cup {Nobody}]
      /\ \A q \in Request : answers'[q].status = "waiting" <=> waitsOn'[q] # Nobody
      /\ \A q \in Request : waitsOn'[q] # Nobody => waitsOn'[q] = inFlight'
  BY <1>1, Waits
<1>3. TypeOK' /\ MapInv' /\ LoadsInv'
  BY <1>1, <1>2 DEF TypeOK, MapInv, LoadsInv, LoadInv, IsUsable
<1> QED
  BY <1>2, <1>3

LEMMA MissStep ==
  ASSUME CacheAssumption, IInv, NEW r \in Request, LoadOnMiss(r)
  PROVE  IInv' /\ Promise!AAsk(r)
<1> USE DEF IInv
<1>1. /\ Asks(r) /\ inFlight = Nobody /\ StartLoad(r, FALSE) /\ Wait(r, r)
      /\ inFlight' = r /\ UNCHANGED <<swr, now, entry>>
  BY DEF LoadOnMiss, MissesCache, StartLoad
<1>2. /\ Promise!ATypeOK' /\ EntryInv' /\ Promise!AAsk(r)
      /\ waitsOn' \in [Request -> Request \cup {Nobody}]
      /\ \A q \in Request : answers'[q].status = "waiting" <=> waitsOn'[q] # Nobody
      /\ \A q \in Request : waitsOn'[q] # Nobody => waitsOn'[q] = inFlight'
  BY <1>1, Waits
<1>3. /\ loads' \in [Request -> Load] /\ loads'[r].state = "running"
      /\ \A l \in Request : loads'[l].state # "none" => l = r
      /\ LoadsInv'
  BY <1>1, Started
<1>4. TypeOK' /\ MapInv'
  BY <1>1, <1>2, <1>3 DEF TypeOK, MapInv
<1> QED
  BY <1>2, <1>3, <1>4

LEMMA TickStep == ASSUME CacheAssumption, IInv, Tick PROVE IInv' /\ Promise!ATick
<1> USE DEF IInv
<1>1. /\ now' = now + 1 /\ now' \in Instant /\ now < MaxTime
      /\ UNCHANGED <<swr, answers, entry, loads, inFlight, waitsOn>>
      /\ \A l \in Request :
           /\ loads[l].state \notin {"resolved", "rejected"}
           /\ loads[l].state = "running" => now < loads[l].startedAt + MaxLoad
  BY EntryFields DEF Tick, Settled, Instant, Promise!Instant, CacheAssumption
<1>2. TypeOK' /\ MapInv'
  BY <1>1 DEF TypeOK, MapInv, Promise!ATypeOK, Instant
<1>3. EntryInv'
  BY <1>1, EntryFields DEF EntryInv
<1>4. ASSUME NEW l \in Request
      PROVE  LoadInv(l)'
  <2>1. CASE loads[l].state = "running"
    <3>1. loads[l].startedAt \in Int /\ MaxLoad \in Int
      BY <2>1 DEF LoadsInv, LoadInv, Instant, Promise!Instant, CacheAssumption
    <3> QED
      BY <1>1, <2>1, <3>1, EntryFields DEF LoadsInv, LoadInv
  <2>2. CASE loads[l].state # "running"
    BY <1>1, <2>2 DEF LoadInv
  <2> QED
    BY <2>1, <2>2
<1> QED
  BY <1>1, <1>2, <1>3, <1>4 DEF LoadsInv, Promise!ATick

(* When l settles, the other loads are none.                               *)
LEMMA Settles ==
  ASSUME IInv, NEW l \in Request, loads[l].state # "none",
         NEW new \in Load, loads' = [loads EXCEPT ![l] = new]
  PROVE  /\ loads' \in [Request -> Load] /\ loads'[l] = new
         /\ \A k \in Request \ {l} : loads'[k] = loads[k]
                                       /\ loads'[k].state = "none"
BY DEF IInv, TypeOK, MapInv

LEMMA ResolveStep ==
  ASSUME CacheAssumption, IInv, NEW l \in Request, LoaderResolves(l)
  PROVE  IInv' /\ UNCHANGED <<now, answers>>
<1> USE DEF IInv
<1>1. PICK t \in loads[l].startedAt .. now :
        /\ entry' = [asOf |-> t, cachedAt |-> now]
        /\ loads' = [loads EXCEPT ![l].state = "resolved", ![l].asOf = t]
  BY DEF LoaderResolves
<1>2. /\ loads[l].state = "running" /\ loads[l] \in Load
      /\ UNCHANGED <<swr, now, answers, inFlight, waitsOn>>
  BY DEF LoaderResolves, TypeOK
<1>3. /\ loads[l].startedAt \in Int /\ loads[l].startedAt >= 0
      /\ loads[l].startedAt <= now /\ now <= loads[l].startedAt + MaxLoad
      /\ entry.cachedAt <= loads[l].startedAt
  BY <1>2 DEF LoadsInv, LoadInv, Instant, Promise!Instant, CacheAssumption
<1>4. /\ t \in Instant /\ t \in Int /\ t <= now /\ now <= t + MaxLoad
      /\ entry.cachedAt <= t
  BY <1>3, EntryFields DEF Instant, Promise!Instant, CacheAssumption
<1>5. /\ entry' \in Entry /\ entry'.asOf = t /\ entry'.cachedAt = now
      /\ entry' # NoEntry
  BY <1>1, <1>4, EntryFields DEF Entry, NoEntry, Instant, Promise!Instant, CacheAssumption
<1>6. /\ loads' \in [Request -> Load] /\ loads'[l].state = "resolved"
      /\ loads'[l].asOf = t
      /\ \A k \in Request \ {l} : loads'[k].state = "none"
  <2> DEFINE new == [loads[l] EXCEPT !.state = "resolved", !.asOf = t]
  <2>1. new \in Load /\ new.state = "resolved" /\ new.asOf = t
    BY <1>2, <1>4 DEF Load
  <2>2. loads' = [loads EXCEPT ![l] = new]
    BY <1>1 DEF TypeOK
  <2> HIDE DEF new
  <2> QED
    BY <1>2, <2>1, <2>2, Settles
<1>7. TypeOK' /\ MapInv'
  BY <1>2, <1>5, <1>6 DEF TypeOK, MapInv, Promise!ATypeOK
<1>8. EntryInv'
  <2>1. ASSUME NEW r \in Request
        PROVE  /\ answers[r].asOf <= t
               /\ answers[r].status = "waiting" => answers[r].floor <= t
    <3>1. answers[r].asOf \in Int /\ answers[r].floor \in Int
      BY DEF TypeOK, Promise!ATypeOK, Promise!Answers, Promise!Instant,
             Promise!None, CacheAssumption
    <3>2. entry.asOf <= t
      BY <1>4, EntryFields DEF EntryInv
    <3> QED
      BY <1>4, <3>1, <3>2, EntryFields DEF EntryInv
  <2> QED
    BY <1>2, <1>4, <1>5, <2>1, EntryFields DEF EntryInv
<1>9. LoadsInv'
  <2>1. t + MaxAge >= now
    BY <1>4, EntryFields DEF CacheAssumption, MaxAge
  <2> QED
    BY <1>2, <1>5, <1>6, <2>1 DEF LoadsInv, LoadInv
<1> QED
  BY <1>2, <1>7, <1>8, <1>9

LEMMA RejectStep ==
  ASSUME CacheAssumption, IInv, NEW l \in Request, LoaderRejects(l)
  PROVE  IInv' /\ UNCHANGED <<now, answers>>
<1> USE DEF IInv
<1>1. /\ loads[l].state = "running" /\ loads[l] \in Load
      /\ UNCHANGED <<swr, now, answers, entry, inFlight, waitsOn>>
  BY DEF LoaderRejects, TypeOK
<1>2. /\ loads[l].startedAt \in Int
      /\ loads[l].startedAt <= now /\ now <= loads[l].startedAt + MaxLoad
      /\ loads[l].fallback = entry
      /\ loads[l].refresh => /\ entry # NoEntry
                             /\ entry.cachedAt + StaleTtl > loads[l].startedAt
  BY <1>1 DEF LoadsInv, LoadInv, Instant, Promise!Instant, CacheAssumption
<1>3. CASE FallsBack(l)
  <2> DEFINE new == [loads[l] EXCEPT !.state = "resolved", !.asOf = entry.asOf]
  <2>1. new \in Load /\ new.state = "resolved" /\ new.asOf = entry.asOf
    BY <1>1, EntryFields DEF Load
  <2>2. loads' = [loads EXCEPT ![l] = new]
    BY <1>2, <1>3 DEF LoaderRejects, TypeOK
  <2>3. /\ loads' \in [Request -> Load] /\ loads'[l] = new
        /\ \A k \in Request \ {l} : loads'[k].state = "none"
    <3> HIDE DEF new
    <3> QED
      BY <1>1, <2>1, <2>2, Settles
  <2> HIDE DEF new
  <2>4. entry # NoEntry /\ entry.asOf + MaxAge >= now
    BY <1>2, <1>3, EntryFields
    DEF FallsBack, IsUsable, EntryInv, CacheAssumption, MaxAge
  <2>5. LoadsInv'
    BY <1>1, <2>1, <2>3, <2>4 DEF LoadsInv, LoadInv
  <2> QED
    BY <1>1, <2>1, <2>3, <2>5
    DEF TypeOK, MapInv, EntryInv, Promise!ATypeOK
<1>4. CASE ~FallsBack(l)
  <2> DEFINE new == [loads[l] EXCEPT !.state = "rejected"]
  <2>1. new \in Load /\ new.state = "rejected"
    BY <1>1 DEF Load
  <2>2. loads' = [loads EXCEPT ![l] = new]
    BY <1>4 DEF LoaderRejects, TypeOK
  <2>3. /\ loads' \in [Request -> Load] /\ loads'[l] = new
        /\ \A k \in Request \ {l} : loads'[k].state = "none"
    <3> HIDE DEF new
    <3> QED
      BY <1>1, <2>1, <2>2, Settles
  <2> HIDE DEF new
  <2>4. ~IsUsable(entry)
    BY <1>2, <1>4 DEF FallsBack
  <2>5. LoadsInv'
    BY <1>1, <2>1, <2>3, <2>4 DEF LoadsInv, LoadInv, IsUsable
  <2> QED
    BY <1>1, <2>1, <2>3, <2>5
    DEF TypeOK, MapInv, EntryInv, Promise!ATypeOK
<1> QED
  BY <1>3, <1>4

(* The load's outcome goes to everyone who holds its promise, and to none  *)
(* else; a failure leaves no entry that could have been used.              *)
LEMMA FinishStep ==
  ASSUME CacheAssumption, IInv, NEW l \in Request, LoadFinishes(l)
  PROVE  /\ IInv'
         /\ Promise!AAnswer \/ Promise!AFail \/ UNCHANGED <<now, answers>>
         /\ \A r \in Request : answers[r].status # "failed"
                               /\ answers'[r].status = "failed" => ~IsUsable(entry)
<1> USE DEF IInv
<1> DEFINE W == {r \in Request : waitsOn[r] = l}
           Told(r) == IF loads[l].state = "resolved"
                      THEN [answers[r] EXCEPT !.status = "served",
                                              !.asOf = entry.asOf]
                      ELSE [answers[r] EXCEPT !.status = "failed"]
<1>1. /\ loads[l].state \in {"resolved", "rejected"} /\ inFlight = l
      /\ inFlight' = Nobody /\ UNCHANGED <<swr, now, entry>>
      /\ waitsOn' = [r \in Request |-> IF waitsOn[r] = l THEN Nobody ELSE waitsOn[r]]
      /\ loads[l].state = "resolved" => /\ entry # NoEntry
                                        /\ loads[l].asOf = entry.asOf
                                        /\ entry.asOf + MaxAge >= now
      /\ loads[l].state = "rejected" => ~IsUsable(entry)
  BY DEF LoadFinishes, Settled, MapInv, LoadsInv, LoadInv
<1>2. answers' = [r \in Request |-> IF r \in W THEN Told(r) ELSE answers[r]]
  BY <1>1 DEF LoadFinishes
<1>3. /\ W \in SUBSET {r \in Request : answers[r].status = "waiting"}
      /\ \A r \in Request : answers[r].status = "waiting" => r \in W
  BY <1>1 DEF MapInv, CacheAssumption
<1>4. \A r \in Request : answers[r] \in Promise!Answers
  BY DEF TypeOK, Promise!ATypeOK
<1>5. \A r \in W : /\ Told(r) \in Promise!Answers
                   /\ Told(r).status \in {"served", "failed"}
                   /\ Told(r).status = "failed" => loads[l].state = "rejected"
                   /\ Told(r).asOf <= entry.asOf
  <2> SUFFICES ASSUME NEW r \in W
               PROVE  /\ Told(r) \in Promise!Answers
                      /\ Told(r).status \in {"served", "failed"}
                      /\ Told(r).status = "failed" => loads[l].state = "rejected"
                      /\ Told(r).asOf <= entry.asOf
    OBVIOUS
  <2>1. answers[r] \in Promise!Answers /\ answers[r].asOf <= entry.asOf
    BY <1>4 DEF EntryInv
  <2>2. /\ entry.asOf <= entry.asOf
        /\ entry.asOf \in Promise!Instant \cup {Promise!None}
    BY EntryFields DEF Instant, None
  <2>3. CASE loads[l].state = "resolved"
    BY <2>1, <2>2, <2>3 DEF Promise!Answers
  <2>4. CASE loads[l].state = "rejected"
    BY <2>1, <2>4 DEF Promise!Answers
  <2> QED
    BY <1>1, <2>3, <2>4
<1>6. /\ answers' \in [Request -> Promise!Answers]
      /\ \A r \in W : answers'[r] = Told(r)
      /\ \A r \in Request \ W : answers'[r] = answers[r]
  <2>1. W \subseteq Request
    OBVIOUS
  <2>2. \A r \in Request : answers'[r] = IF r \in W THEN Told(r) ELSE answers[r]
    BY <1>2
  <2>3. answers' = [r \in Request |-> answers'[r]]
    BY <1>2
  <2> HIDE DEF Told, W
  <2> QED
    BY <2>1, <2>2, <2>3, <1>4, <1>5
<1>7. /\ loads' \in [Request -> Load] /\ waitsOn' = [r \in Request |-> Nobody]
      /\ \A k \in Request : loads'[k].state = "none"
  <2>1. NoLoad \in Load /\ NoLoad.state = "none"
    BY DEF NoLoad, Load
  <2>2. \A r \in Request : waitsOn[r] = l \/ waitsOn[r] = Nobody
    BY <1>1 DEF MapInv
  <2> QED
    BY <1>1, <2>1, <2>2, Settles DEF LoadFinishes
<1>8. IInv'
  <2> HIDE DEF Told
  <2>1. TypeOK'
    BY <1>1, <1>6, <1>7 DEF TypeOK, Promise!ATypeOK
  <2>2. \A r \in Request : answers'[r].status # "waiting"
    BY <1>3, <1>5, <1>6
  <2>3. MapInv'
    BY <1>1, <1>7, <2>2 DEF MapInv
  <2>4. EntryInv'
    <3>1. ASSUME NEW r \in Request
          PROVE  /\ answers'[r].asOf <= entry.asOf
                 /\ answers'[r].status = "unasked" => answers'[r] = Unasked
      BY <1>5, <1>6 DEF EntryInv
    <3> QED
      BY <1>1, <2>2, <3>1 DEF EntryInv
  <2>5. LoadsInv'
    BY <1>7 DEF LoadsInv, LoadInv
  <2> QED
    BY <2>1, <2>3, <2>4, <2>5
<1>9. Promise!AAnswer \/ Promise!AFail \/ UNCHANGED <<now, answers>>
  <2>1. CASE W = {}
    <3>1. answers = [r \in Request |-> answers[r]]
      BY DEF TypeOK, Promise!ATypeOK
    <3>2. answers' = [r \in Request |-> answers[r]]
      <4> HIDE DEF W, Told
      <4> QED
        BY <1>2, <2>1
    <3> QED
      BY <1>1, <3>1, <3>2
  <2>2. CASE W # {} /\ loads[l].state = "resolved"
    <3>1. \A r \in W : Promise!Acceptable(entry.asOf, answers[r].floor)
      <4>1. \A r \in W : answers[r].floor <= entry.asOf /\ answers[r].floor \in Int
        BY <1>3, <1>4 DEF EntryInv, Promise!Answers, Promise!Instant, Promise!None,
                          CacheAssumption
      <4>2. /\ entry.asOf \in Promise!Instant /\ entry.asOf <= now
            /\ entry.asOf + MaxAge >= now
        BY <1>1, <2>2, EntryFields DEF EntryInv, Instant
      <4> QED
        BY <4>1, <4>2, EntryFields DEF Promise!Acceptable, MaxAge
    <3>2. entry.asOf \in Promise!Instant
      BY <1>1, <2>2, EntryFields DEF Instant
    <3>3. answers' = [r \in Request |->
                       IF r \in W THEN [answers[r] EXCEPT !.status = "served",
                                                         !.asOf = entry.asOf]
                       ELSE answers[r]]
      BY <1>2, <2>2
    <3> HIDE DEF W
    <3> QED
      BY <1>1, <1>3, <2>2, <3>1, <3>2, <3>3 DEF Promise!AAnswer
  <2>3. CASE W # {} /\ loads[l].state = "rejected"
    <3>1. answers' = [r \in Request |->
                       IF r \in W THEN [answers[r] EXCEPT !.status = "failed"]
                       ELSE answers[r]]
      BY <1>2, <2>3
    <3> HIDE DEF W
    <3> QED
      BY <1>1, <1>3, <2>3, <3>1 DEF Promise!AFail
  <2> QED
    BY <1>1, <2>1, <2>2, <2>3
<1>10. \A r \in Request : answers[r].status # "failed"
                          /\ answers'[r].status = "failed" => ~IsUsable(entry)
  <2> HIDE DEF Told
  <2> QED
    BY <1>1, <1>5, <1>6
<1> QED
  BY <1>8, <1>9, <1>10

-----------------------------------------------------------------------------
(* What any step does: to the invariant, to the promise, to who fails.     *)
LEMMA Step ==
  ASSUME CacheAssumption, IInv, [Next]_vars
  PROVE  /\ IInv' /\ [Promise!ANext]_(Promise!aVars)
         /\ [\A r \in Request :
                answers[r].status # "failed" /\ answers'[r].status = "failed" =>
                  ~IsUsable(entry)]_vars
<1> DEFINE Blamed == \A r \in Request : answers[r].status # "failed"
                       /\ answers'[r].status = "failed" => ~IsUsable(entry)
<1>1. CASE Tick
  BY <1>1, TickStep DEF Promise!ANext, Promise!ATick
<1>2. ASSUME NEW r \in Request, Promise!AAsk(r)
      PROVE  Promise!ANext /\ Blamed
  <2>1. Promise!ANext
    BY <1>2 DEF Promise!ANext
  <2>2. /\ \A q \in Request \ {r} : answers'[q] = answers[q]
        /\ answers'[r].status # "failed"
    BY <1>2 DEF Promise!AAsk, IInv, TypeOK, Promise!ATypeOK
  <2> QED
    BY <2>1, <2>2
<1>3. ASSUME NEW r \in Request,
             HitFresh(r) \/ ServeStale(r) \/ JoinLoad(r) \/ LoadOnMiss(r)
      PROVE  IInv' /\ Promise!ANext /\ Blamed
  <2>1. IInv' /\ Promise!AAsk(r)
    BY <1>3, HitStep, RefreshStep, JoinStep, MissStep
  <2> QED
    BY <1>2, <2>1
<1>4. ASSUME NEW l \in Request, LoaderResolves(l) \/ LoaderRejects(l)
      PROVE  IInv' /\ UNCHANGED Promise!aVars /\ Blamed
  <2>1. IInv' /\ UNCHANGED <<now, answers>>
    BY <1>4, ResolveStep, RejectStep
  <2> QED
    BY <2>1 DEF Promise!aVars
<1>5. ASSUME NEW l \in Request, LoadFinishes(l)
      PROVE  IInv' /\ [Promise!ANext]_(Promise!aVars) /\ Blamed
  BY <1>5, FinishStep DEF Promise!ANext, Promise!aVars
<1>6. CASE UNCHANGED vars
  BY <1>6 DEF vars, IInv, TypeOK, MapInv, EntryInv, LoadsInv, LoadInv,
              IsUsable, Promise!ATypeOK, Promise!aVars
<1> QED
  BY <1>1, <1>3, <1>4, <1>5, <1>6 DEF Next

(* The invariant of withRequestCache.                                      *)
THEOREM Invariance == ASSUME CacheAssumption PROVE Spec => []IInv
<1>1. Init => IInv
  BY InitIInv
<1>2. IInv /\ [Next]_vars => IInv'
  BY Step
<1> QED
  BY <1>1, <1>2, PTL DEF Spec

(* However calls overlap, one load of the key runs at a time: inFlight     *)
(* names the only load there is (withRequestCache's in-flight map).        *)
THEOREM SingleLoadHolds ==
  ASSUME CacheAssumption PROVE Spec => [](TypeOK /\ SingleLoad)
<1>1. IInv => TypeOK /\ SingleLoad
  BY DEF IInv, MapInv, SingleLoad
<1> QED
  BY <1>1, Invariance, PTL

(* A caller sees the exchange's failure only when there is no entry inside *)
(* its stale window (the .catch of the load).                              *)
THEOREM ErrorOnlyWithoutStaleHolds ==
  ASSUME CacheAssumption PROVE Spec => [][ErrorOnlyWithoutStale]_vars
<1>1. IInv /\ [Next]_vars => [ErrorOnlyWithoutStale]_vars
  BY Step DEF ErrorOnlyWithoutStale
<1> QED
  BY <1>1, Invariance, PTL DEF Spec

(* The cache implements the safety of BoundedStaleness: every step of it   *)
(* is a step of the promise, or changes neither clock nor answers.         *)
THEOREM ImplementsPromise ==
  ASSUME CacheAssumption
  PROVE  Spec => Promise!AInit /\ [][Promise!ANext]_(Promise!aVars)
<1>1. Init => Promise!AInit
  BY DEF Init
<1>2. IInv /\ [Next]_vars => [Promise!ANext]_(Promise!aVars)
  BY Step
<1> QED
  BY <1>1, <1>2, Invariance, PTL DEF Spec

-----------------------------------------------------------------------------
(* The Kimchi snapshots keep the same promise, for each kind of snapshot.  *)
(* The clock, the answers and the loads have the names they have above.    *)
CONSTANTS Caller, KindOf, TtlOf, StaleTtlOf, Fresh, Slight
VARIABLES cache, outcome, calls, response

K == INSTANCE KimchiSnapshots WITH Ttl <- TtlOf, StaleTtl <- StaleTtlOf

Times    == 0 .. MaxTime
Moment   == Times \cup {-1}
Snapshot == [asOf : Times, cachedAt : Times, usable : BOOLEAN]
Kept     == Snapshot \cup {K!NoSnapshot}
Age(k)   == StaleTtlOf[k] + 2 * MaxLoad - 1

SnapLoads ==
  [state : {"none", "running", "resolved", "rejected"}, refresh : BOOLEAN,
   startedAt : Moment, kept : Kept, value : Kept]
SnapCalls ==
  [pc : {"new", "joined", "owner", "resumed", "given", "images", "failed", "done"},
   entries : Kept]
SnapAnswers ==
  [status : {"unasked", "waiting", "served", "failed"}, asOf : Moment, floor : Moment]
SnapResponses ==
  [meta : Kept, ready : BOOLEAN, badge : {"none", "sync", "ready", "delayed"}]

SnapTypeOK ==
  /\ now \in Times
  /\ cache \in [K!Kind -> Kept]
  /\ loads \in [K!Kind -> SnapLoads]
  /\ calls \in [Caller -> SnapCalls]
  /\ answers \in [Caller -> SnapAnswers]
  /\ response \in [Caller -> SnapResponses]

USE DEF SnapLoads, SnapCalls, SnapAnswers, SnapResponses

(* Nothing in the cache was old when it was stored.                        *)
CacheOk(k) ==
  /\ cache[k].asOf <= cache[k].cachedAt /\ cache[k].cachedAt <= now
  /\ cache[k].cachedAt <= cache[k].asOf + MaxLoad

(* The snapshot does not change under a load, and what the load resolves   *)
(* with is that snapshot, or the one that takes its place.                 *)
LoadOk(k) ==
  /\ loads[k].state = "none" => loads[k] = K!NoLoad
  /\ loads[k].state = "running" =>
       /\ loads[k].startedAt \in Times
       /\ loads[k].startedAt <= now /\ now <= loads[k].startedAt + MaxLoad
       /\ loads[k].kept = cache[k] /\ cache[k].cachedAt <= loads[k].startedAt
       /\ loads[k].refresh =>
            /\ cache[k] # K!NoSnapshot
            /\ cache[k].cachedAt + StaleTtlOf[k] > loads[k].startedAt
  /\ loads[k].state = "resolved" =>
       /\ loads[k].value = cache[k] /\ cache[k] # K!NoSnapshot
       /\ cache[k].asOf + Age(k) >= now

(* Nothing newer than the snapshot was handed out.                         *)
CallOk(c) ==
  /\ answers[c].asOf <= cache[KindOf[c]].asOf
  /\ calls[c].pc = "new" => answers[c] = K!Unasked
  /\ calls[c].pc \in {"joined", "owner"} =>
       /\ answers[c].status = "waiting"
       /\ answers[c].floor <= cache[KindOf[c]].asOf

SnapInv ==
  /\ SnapTypeOK
  /\ \A k \in K!Kind : CacheOk(k) /\ LoadOk(k)
  /\ \A c \in Caller : CallOk(c)

(* What a caller may be told, and what may happen to the callers of a      *)
(* kind: the steps of BoundedStaleness in terms of all answers.            *)
MayBeTold(k, t, floor) ==
  t \in Times /\ t <= now /\ t >= floor /\ t + Age(k) >= now

Told(c, status, t) ==
  answers' = [answers EXCEPT ![c] =
                [status |-> status, asOf |-> t, floor |-> K!Newest(KindOf[c])]]

CallerAsks(c) ==
  /\ answers[c].status = "unasked" /\ now' = now
  /\ \/ Told(c, "waiting", -1)
     \/ \E t \in Times :
          MayBeTold(KindOf[c], t, K!Newest(KindOf[c])) /\ Told(c, "served", t)

CallersEnd(k) ==
  \E W \in SUBSET {c \in K!Of(k) : answers[c].status = "waiting"} :
    /\ now' = now
    /\ \/ \E t \in Times :
            /\ \A c \in W : MayBeTold(k, t, answers[c].floor)
            /\ answers' = [c \in Caller |->
                 IF c \in W THEN [answers[c] EXCEPT !.status = "served", !.asOf = t]
                 ELSE answers[c]]
       \/ answers' = [c \in Caller |->
            IF c \in W THEN [answers[c] EXCEPT !.status = "failed"] ELSE answers[c]]

PromiseKept ==
  \/ now < MaxTime /\ now' = now + 1 /\ UNCHANGED answers
  \/ \E c \in Caller : CallerAsks(c)
  \/ \E k \in K!Kind : CallersEnd(k)
  \/ UNCHANGED <<now, answers>>

(* The same for one kind alone, as BoundedStaleness has it.                *)
Part(k) == [c \in K!Of(k) |-> answers[c]]

NewestOf(k) ==
  LET given == {Part(k)[c].asOf : c \in K!Of(k)} \cup {-1}
  IN  CHOOSE t \in given : \A u \in given : u <= t

KindAsks(k, c) ==
  /\ Part(k)[c].status = "unasked"
  /\ \/ Part(k)' = [Part(k) EXCEPT ![c] =
                      [status |-> "waiting", asOf |-> -1, floor |-> NewestOf(k)]]
     \/ \E t \in Times :
          /\ MayBeTold(k, t, NewestOf(k))
          /\ Part(k)' = [Part(k) EXCEPT ![c] =
                           [status |-> "served", asOf |-> t, floor |-> NewestOf(k)]]
  /\ UNCHANGED now

KindEnds(k) ==
  \E W \in SUBSET {c \in K!Of(k) : Part(k)[c].status = "waiting"} :
    /\ W # {} /\ UNCHANGED now
    /\ \/ \E t \in Times :
            /\ \A c \in W : MayBeTold(k, t, Part(k)[c].floor)
            /\ Part(k)' = [c \in K!Of(k) |->
                 IF c \in W THEN [Part(k)[c] EXCEPT !.status = "served", !.asOf = t]
                 ELSE Part(k)[c]]
       \/ Part(k)' = [c \in K!Of(k) |->
            IF c \in W THEN [Part(k)[c] EXCEPT !.status = "failed"] ELSE Part(k)[c]]

KindStep(k) ==
  \/ now < MaxTime /\ now' = now + 1 /\ UNCHANGED Part(k)
  \/ \E c \in K!Of(k) : KindAsks(k, c)
  \/ KindEnds(k)
  \/ UNCHANGED <<now, Part(k)>>

LEMMA NewestIsNewest ==
  ASSUME NEW k \in K!Kind PROVE NewestOf(k) = K!Newest(k)
<1>1. {Part(k)[c].asOf : c \in K!Of(k)} = {answers[c].asOf : c \in K!Of(k)}
  BY DEF Part
<1> QED
  BY <1>1 DEF NewestOf, K!Newest, K!None

(* What happens to all answers is such a step for each kind.               *)
LEMMA KindSteps ==
  ASSUME K!KimchiAssumption, SnapTypeOK, PromiseKept, NEW k \in K!Kind
  PROVE  KindStep(k)
<1>0. /\ K!Of(k) \subseteq Caller
      /\ \A c \in K!Of(k) : KindOf[c] = k /\ Part(k)[c] = answers[c]
      /\ \A c \in Caller : c \in K!Of(k) <=> KindOf[c] = k
  BY DEF K!Of, Part
<1>1. CASE now < MaxTime /\ now' = now + 1 /\ UNCHANGED answers
  BY <1>1 DEF KindStep, Part
<1>2. CASE UNCHANGED <<now, answers>>
  BY <1>2 DEF KindStep, Part
<1>3. ASSUME NEW c \in Caller, CallerAsks(c) PROVE KindStep(k)
  <2>1. ASSUME NEW new, answers' = [answers EXCEPT ![c] = new]
        PROVE  Part(k)' = IF KindOf[c] = k THEN [Part(k) EXCEPT ![c] = new] ELSE Part(k)
    BY <1>0, <2>1 DEF Part, SnapTypeOK
  <2>2. CASE KindOf[c] # k
    <3>1. UNCHANGED <<now, Part(k)>>
      BY <1>3, <2>1, <2>2 DEF CallerAsks, Told
    <3> QED
      BY <3>1 DEF KindStep
  <2>3. CASE KindOf[c] = k
    <3>1. c \in K!Of(k) /\ Part(k)[c].status = "unasked" /\ UNCHANGED now
      BY <1>0, <1>3, <2>3 DEF CallerAsks
    <3>2. CASE Told(c, "waiting", -1)
      BY <2>1, <2>3, <3>1, <3>2, NewestIsNewest DEF Told, KindStep, KindAsks
    <3>3. ASSUME NEW t \in Times, MayBeTold(k, t, K!Newest(k)), Told(c, "served", t)
          PROVE  KindStep(k)
      <4>1. Part(k)' = [Part(k) EXCEPT ![c] =
                          [status |-> "served", asOf |-> t, floor |-> NewestOf(k)]]
        BY <2>1, <2>3, <3>3, NewestIsNewest DEF Told
      <4>2. MayBeTold(k, t, NewestOf(k))
        BY <3>3, NewestIsNewest
      <4> QED
        BY <3>1, <4>1, <4>2 DEF KindStep, KindAsks
    <3> QED
      BY <1>3, <2>3, <3>2, <3>3 DEF CallerAsks
  <2> QED
    BY <2>2, <2>3
<1>4. ASSUME NEW j \in K!Kind, CallersEnd(j) PROVE KindStep(k)
  <2>1. PICK W \in SUBSET {c \in K!Of(j) : answers[c].status = "waiting"} :
          /\ now' = now
          /\ \/ \E t \in Times :
                  /\ \A c \in W : MayBeTold(j, t, answers[c].floor)
                  /\ answers' = [c \in Caller |->
                       IF c \in W THEN [answers[c] EXCEPT !.status = "served", !.asOf = t]
                       ELSE answers[c]]
             \/ answers' = [c \in Caller |->
                  IF c \in W THEN [answers[c] EXCEPT !.status = "failed"] ELSE answers[c]]
    BY <1>4 DEF CallersEnd
  <2>2. CASE j # k \/ W = {}
    <3>1. \A c \in K!Of(k) : c \notin W
      BY <2>2 DEF K!Of
    <3>2. \A c \in K!Of(k) : answers'[c] = answers[c]
      BY <1>0, <2>1, <3>1
    <3>3. Part(k)' = Part(k)
      BY <3>2 DEF Part
    <3> QED
      BY <2>1, <3>3 DEF KindStep
  <2>3. CASE j = k /\ W # {}
    <3>1. W \in SUBSET {c \in K!Of(k) : Part(k)[c].status = "waiting"}
      BY <1>0, <2>3
    <3>2. ASSUME NEW t \in Times, \A c \in W : MayBeTold(j, t, answers[c].floor),
                 answers' = [c \in Caller |->
                   IF c \in W THEN [answers[c] EXCEPT !.status = "served", !.asOf = t]
                   ELSE answers[c]]
          PROVE  KindEnds(k)
      <4>1. \A c \in W : MayBeTold(k, t, Part(k)[c].floor)
        BY <1>0, <2>3, <3>1, <3>2
      <4>2. Part(k)' = [c \in K!Of(k) |->
              IF c \in W THEN [Part(k)[c] EXCEPT !.status = "served", !.asOf = t]
              ELSE Part(k)[c]]
        BY <1>0, <3>2 DEF Part
      <4> QED
        BY <2>1, <2>3, <3>1, <4>1, <4>2 DEF KindEnds
    <3>3. ASSUME answers' = [c \in Caller |->
                   IF c \in W THEN [answers[c] EXCEPT !.status = "failed"] ELSE answers[c]]
          PROVE  KindEnds(k)
      <4>1. Part(k)' = [c \in K!Of(k) |->
              IF c \in W THEN [Part(k)[c] EXCEPT !.status = "failed"] ELSE Part(k)[c]]
        BY <1>0, <3>3 DEF Part
      <4> QED
        BY <2>1, <2>3, <3>1, <4>1 DEF KindEnds
    <3> QED
      BY <2>1, <3>2, <3>3 DEF KindStep
  <2> QED
    BY <2>2, <2>3
<1> QED
  BY <1>1, <1>2, <1>3, <1>4 DEF PromiseKept

LEMMA RepresentativeSteps ==
  ASSUME KindStep("representative")
  PROVE  [K!Representatives!ANext]_(K!Representatives!aVars)
<1> DEFINE k == "representative"
<1>1. NewestOf(k) = K!Representatives!Newest
  BY DEF NewestOf, K!Representatives!Newest, K!Representatives!None, Part
<1>2. \A t, floor : MayBeTold(k, t, floor) => K!Representatives!Acceptable(t, floor)
  BY DEF MayBeTold, Age, K!Representatives!Acceptable, K!Representatives!Instant, Times
<1>3. ASSUME NEW c \in K!Of(k), KindAsks(k, c) PROVE K!Representatives!AAsk(c)
  BY <1>1, <1>2, <1>3
  DEF KindAsks, Part, K!Representatives!AAsk, K!Representatives!None,
      K!Representatives!Instant, Times
<1>4. KindEnds(k) => K!Representatives!AAnswer \/ K!Representatives!AFail
  BY <1>2 DEF KindEnds, Part, K!Representatives!AAnswer, K!Representatives!AFail,
              K!Representatives!Instant, Times
<1> QED
  BY <1>3, <1>4
  DEF KindStep, Part, K!Representatives!ANext, K!Representatives!ATick,
      K!Representatives!aVars

LEMMA BatchSteps ==
  ASSUME KindStep("batch")
  PROVE  [K!Batches!ANext]_(K!Batches!aVars)
<1> DEFINE k == "batch"
<1>1. NewestOf(k) = K!Batches!Newest
  BY DEF NewestOf, K!Batches!Newest, K!Batches!None, Part
<1>2. \A t, floor : MayBeTold(k, t, floor) => K!Batches!Acceptable(t, floor)
  BY DEF MayBeTold, Age, K!Batches!Acceptable, K!Batches!Instant, Times
<1>3. ASSUME NEW c \in K!Of(k), KindAsks(k, c) PROVE K!Batches!AAsk(c)
  BY <1>1, <1>2, <1>3
  DEF KindAsks, Part, K!Batches!AAsk, K!Batches!None,
      K!Batches!Instant, Times
<1>4. KindEnds(k) => K!Batches!AAnswer \/ K!Batches!AFail
  BY <1>2 DEF KindEnds, Part, K!Batches!AAnswer, K!Batches!AFail,
              K!Batches!Instant, Times
<1> QED
  BY <1>3, <1>4
  DEF KindStep, Part, K!Batches!ANext, K!Batches!ATick,
      K!Batches!aVars

-----------------------------------------------------------------------------
LEMMA KeptFields ==
  ASSUME K!KimchiAssumption, NEW s \in Kept
  PROVE  /\ s.asOf \in Int /\ s.asOf >= -1 /\ s.asOf \in Moment
         /\ s.cachedAt \in Int
         /\ s # K!NoSnapshot => s.asOf \in Times
BY DEF Kept, Snapshot, K!NoSnapshot, K!None, Times, Moment, K!KimchiAssumption

LEMMA SnapStarts == K!KimchiAssumption /\ K!Init => SnapInv
<1> SUFFICES ASSUME K!KimchiAssumption, K!Init PROVE SnapInv
  OBVIOUS
<1>1. SnapTypeOK
  BY DEF SnapTypeOK, K!Init, K!KimchiAssumption, Times, Moment, Kept, K!NoLoad,
         K!NoSnapshot, K!Unasked, K!NoResponse, K!None
<1>2. \A k \in K!Kind : CacheOk(k) /\ LoadOk(k)
  BY DEF CacheOk, LoadOk, K!Init, K!KimchiAssumption, K!NoLoad, K!NoSnapshot, K!None
<1>3. \A c \in Caller : CallOk(c)
  BY DEF CallOk, K!Init, K!KimchiAssumption, K!Unasked, K!NoSnapshot, K!None
<1> QED
  BY <1>1, <1>2, <1>3 DEF SnapInv

(* The newest data handed out is not newer than the snapshot.              *)
LEMMA NewestBelowCache ==
  ASSUME K!KimchiAssumption, SnapInv, NEW k \in K!Kind
  PROVE  K!Newest(k) \in Moment /\ K!Newest(k) <= cache[k].asOf
<1> DEFINE given == {answers[c].asOf : c \in K!Of(k)} \cup {-1}
<1>1. given \in SUBSET (-1 .. MaxTime) /\ given # {}
  BY DEF SnapInv, SnapTypeOK, Moment, Times, K!Of, K!KimchiAssumption
<1>2. PICK t \in given : \A u \in given : u <= t
  <2> HIDE DEF given
  <2>1. -1 \in Int /\ MaxTime \in Int
    BY DEF K!KimchiAssumption
  <2> QED
    BY <1>1, <2>1, GreatestExists
<1>3. K!Newest(k) \in given
  BY <1>2 DEF K!Newest, K!None
<1>4. \A u \in given : u <= cache[k].asOf
  <2>1. cache[k] \in Kept
    BY DEF SnapInv, SnapTypeOK
  <2> QED
    BY <2>1, KeptFields DEF SnapInv, CallOk, K!Of
<1> HIDE DEF given
<1>5. K!Newest(k) \in -1 .. MaxTime
  BY <1>1, <1>3
<1> QED
  BY <1>3, <1>4, <1>5 DEF Moment, Times, K!KimchiAssumption

(* Of a load that starts.                                                  *)
LEMMA LoadStarts ==
  ASSUME K!KimchiAssumption, SnapInv, NEW k \in K!Kind, NEW refresh \in BOOLEAN,
         refresh => K!IsUsable(k), K!Starts(k, refresh), UNCHANGED <<now, cache>>
  PROVE  /\ (\A j \in K!Kind : CacheOk(j) /\ LoadOk(j))'
         /\ loads' \in [K!Kind -> SnapLoads]
<1> DEFINE new == [K!NoLoad EXCEPT !.state = "running", !.refresh = refresh,
                                   !.startedAt = now, !.kept = cache[k]]
<1>1. /\ new.state = "running" /\ new.startedAt = now /\ new.kept = cache[k]
      /\ new.refresh = refresh
      /\ new \in SnapLoads
  BY DEF K!NoLoad, SnapInv, SnapTypeOK, Kept, Moment
<1>2. loads' = [loads EXCEPT ![k] = new]
  BY DEF K!Starts
<1>3. cache[k].cachedAt <= now /\ now <= now /\ now <= now + MaxLoad
  BY DEF SnapInv, CacheOk, SnapTypeOK, Times, K!KimchiAssumption
<1> HIDE DEF new
<1>4. \A j \in K!Kind : loads'[j] = IF j = k THEN new ELSE loads[j]
  BY <1>2 DEF SnapInv, SnapTypeOK
<1>5. ASSUME NEW j \in K!Kind PROVE CacheOk(j)' /\ LoadOk(j)'
  <2>1. CASE j = k
    BY <1>1, <1>3, <1>4, <2>1 DEF SnapInv, CacheOk, LoadOk, K!IsUsable, SnapTypeOK
  <2>2. CASE j # k
    BY <1>4, <2>2 DEF SnapInv, CacheOk, LoadOk, Age
  <2> QED
    BY <2>1, <2>2
<1>6. loads' \in [K!Kind -> SnapLoads]
  BY <1>1, <1>2 DEF SnapInv, SnapTypeOK
<1> QED
  BY <1>5, <1>6

LEMMA LoadsStay ==
  ASSUME SnapInv, UNCHANGED <<now, cache, loads>>
  PROVE  (\A j \in K!Kind : CacheOk(j) /\ LoadOk(j))'
BY DEF SnapInv, CacheOk, LoadOk, Age

(* A caller is given the snapshot, or told to wait.                        *)
LEMMA CallerGiven ==
  ASSUME K!KimchiAssumption, SnapInv, NEW c \in Caller, calls[c].pc = "new",
         K!IsUsable(KindOf[c]), K!Given(c, cache[KindOf[c]]), UNCHANGED <<now, cache>>
  PROVE  /\ (\A d \in Caller : CallOk(d))'
         /\ calls' \in [Caller -> SnapCalls]
         /\ answers' \in [Caller -> SnapAnswers]
         /\ CallerAsks(c)
<1> DEFINE k == KindOf[c]
           new == [status |-> "served", asOf |-> cache[k].asOf, floor |-> K!Newest(k)]
<1>1. k \in K!Kind /\ cache[k] \in Kept
  BY DEF K!KimchiAssumption, SnapInv, SnapTypeOK
<1>2. K!Newest(k) \in Moment /\ K!Newest(k) <= cache[k].asOf
  BY <1>1, NewestBelowCache
<1>3. MayBeTold(k, cache[k].asOf, K!Newest(k))
  BY <1>1, <1>2, KeptFields
  DEF MayBeTold, Age, K!IsUsable, SnapInv, CacheOk, K!KimchiAssumption, SnapTypeOK,
      Times, Moment
<1>4. new \in SnapAnswers
  BY <1>1, <1>2, KeptFields
<1>5. /\ answers' = [answers EXCEPT ![c] = new]
      /\ calls' = [calls EXCEPT ![c] = [pc |-> "given", entries |-> cache[k]]]
  BY DEF K!Given
<1>6. /\ answers'[c] = new /\ calls'[c].pc = "given"
      /\ \A d \in Caller \ {c} : answers'[d] = answers[d] /\ calls'[d] = calls[d]
      /\ new.asOf <= cache[k].asOf
  BY <1>1, <1>5, KeptFields DEF SnapInv, SnapTypeOK
<1>7. (\A d \in Caller : CallOk(d))'
  BY <1>6 DEF SnapInv, CallOk
<1>8. CallerAsks(c)
  <2>1. answers[c] = K!Unasked
    BY DEF SnapInv, CallOk
  <2>2. answers[c].status = "unasked"
    BY <2>1 DEF K!Unasked
  <2> QED
    BY <1>3, <1>5, <2>2 DEF CallerAsks, Told, MayBeTold
<1> QED
  BY <1>1, <1>4, <1>5, <1>7, <1>8 DEF SnapInv, SnapTypeOK

LEMMA CallerWaits ==
  ASSUME K!KimchiAssumption, SnapInv, NEW c \in Caller, calls[c].pc = "new",
         NEW pc \in {"joined", "owner"}, K!Waits(c, pc), UNCHANGED <<now, cache>>
  PROVE  /\ (\A d \in Caller : CallOk(d))'
         /\ calls' \in [Caller -> SnapCalls]
         /\ answers' \in [Caller -> SnapAnswers]
         /\ CallerAsks(c)
<1> DEFINE k == KindOf[c]
           new == [status |-> "waiting", asOf |-> -1, floor |-> K!Newest(k)]
<1>1. k \in K!Kind /\ cache[k] \in Kept
  BY DEF K!KimchiAssumption, SnapInv, SnapTypeOK
<1>2. K!Newest(k) \in Moment /\ K!Newest(k) <= cache[k].asOf
  BY <1>1, NewestBelowCache
<1>3. new \in SnapAnswers
  BY <1>2 DEF Moment
<1>4. answers[c] = K!Unasked
  BY DEF SnapInv, CallOk
<1>5. answers' = [answers EXCEPT ![c] = new]
  <2>1. [K!Unasked EXCEPT !.status = "waiting", !.floor = K!Newest(k)] = new
    <3>1. K!Unasked = [status |-> "unasked", asOf |-> -1, floor |-> -1]
      BY DEF K!Unasked, K!None
    <3>2. [K!Unasked EXCEPT !.status = "waiting"]
            = [status |-> "waiting", asOf |-> -1, floor |-> -1]
      BY <3>1
    <3>3. [K!Unasked EXCEPT !.status = "waiting", !.floor = K!Newest(k)]
            = [[K!Unasked EXCEPT !.status = "waiting"] EXCEPT !.floor = K!Newest(k)]
      OBVIOUS
    <3>4. [[status |-> "waiting", asOf |-> -1, floor |-> -1]
             EXCEPT !.floor = K!Newest(k)] = new
      OBVIOUS
    <3> QED
      BY <3>2, <3>3, <3>4
  <2>2. answers' = [answers EXCEPT ![c] =
                      [answers[c] EXCEPT !.status = "waiting", !.floor = K!Newest(k)]]
    BY DEF K!Waits, SnapInv, SnapTypeOK
  <2> QED
    BY <1>4, <2>1, <2>2
<1>6. /\ answers'[c] = new /\ calls'[c].pc = pc
      /\ \A d \in Caller \ {c} : answers'[d] = answers[d] /\ calls'[d] = calls[d]
      /\ new.asOf <= cache[k].asOf
  BY <1>1, <1>5, KeptFields DEF K!Waits, SnapInv, SnapTypeOK
<1>7. (\A d \in Caller : CallOk(d))'
  BY <1>2, <1>6 DEF SnapInv, CallOk
<1>8. CallerAsks(c)
  <2>1. answers[c].status = "unasked"
    BY <1>4 DEF K!Unasked
  <2> QED
    BY <1>5, <2>1 DEF CallerAsks, Told
<1>9. calls' \in [Caller -> SnapCalls]
  BY DEF K!Waits, SnapInv, SnapTypeOK
<1> QED
  BY <1>3, <1>5, <1>7, <1>8, <1>9 DEF SnapInv, SnapTypeOK

-----------------------------------------------------------------------------
(* The four ways to ask.                                                   *)
LEMMA AskSteps ==
  ASSUME K!KimchiAssumption, SnapInv, NEW c \in Caller,
         K!AsksFresh(c) \/ K!AsksJoining(c) \/ K!AsksStale(c) \/ K!AsksCold(c)
  PROVE  SnapInv' /\ PromiseKept
<1>1. KindOf[c] \in K!Kind /\ (K!IsFresh(KindOf[c]) => K!IsUsable(KindOf[c]))
  <2>1. cache[KindOf[c]] \in Kept /\ KindOf[c] \in K!Kind
    BY DEF K!KimchiAssumption, SnapInv, SnapTypeOK
  <2> QED
    BY <2>1, KeptFields DEF K!KimchiAssumption, K!IsFresh, K!IsUsable, SnapInv,
                            SnapTypeOK, Times
<1>2. CASE K!AsksFresh(c)
  BY <1>1, <1>2, LoadsStay, CallerGiven
  DEF K!AsksFresh, SnapInv, SnapTypeOK, PromiseKept
<1>3. CASE K!AsksJoining(c)
  BY <1>1, <1>3, LoadsStay, CallerWaits
  DEF K!AsksJoining, SnapInv, SnapTypeOK, PromiseKept
<1>4. CASE K!AsksStale(c)
  BY <1>1, <1>4, LoadStarts, CallerGiven
  DEF K!AsksStale, SnapInv, SnapTypeOK, PromiseKept
<1>5. CASE K!AsksCold(c)
  BY <1>1, <1>5, LoadStarts, CallerWaits
  DEF K!AsksCold, SnapInv, SnapTypeOK, PromiseKept
<1> QED
  BY <1>2, <1>3, <1>4, <1>5

LEMMA SnapTick ==
  ASSUME K!KimchiAssumption, SnapInv, K!Tick PROVE SnapInv' /\ PromiseKept
<1>1. /\ now \in Int /\ now' = now + 1 /\ now' \in Times /\ now < MaxTime
      /\ UNCHANGED <<cache, loads, outcome, calls, answers, response>>
  BY DEF K!Tick, SnapInv, SnapTypeOK, Times, K!KimchiAssumption
<1>2. ASSUME NEW k \in K!Kind PROVE CacheOk(k)' /\ LoadOk(k)'
  <2>1. cache[k] \in Kept /\ loads[k].state # "resolved"
    BY DEF K!Tick, K!CallbacksDue, SnapInv, SnapTypeOK
  <2>2. /\ loads[k].state = "running" => now < loads[k].startedAt + MaxLoad
        /\ MaxLoad \in Nat
    BY DEF K!Tick, K!KimchiAssumption
  <2>3. CacheOk(k)'
    BY <1>1, <2>1, KeptFields DEF SnapInv, CacheOk
  <2>4. LoadOk(k)'
    BY <1>1, <2>1, <2>2 DEF SnapInv, LoadOk, Times
  <2> QED
    BY <2>3, <2>4
<1>3. (\A c \in Caller : CallOk(c))'
  BY <1>1 DEF SnapInv, CallOk
<1>4. PromiseKept
  BY <1>1 DEF PromiseKept
<1> QED
  BY <1>1, <1>2, <1>3, <1>4 DEF SnapInv, SnapTypeOK

(* A new snapshot is at least as new as the one it replaces, which did not *)
(* change since the load began.                                            *)
LEMMA SnapResolves ==
  ASSUME K!KimchiAssumption, SnapInv, NEW k \in K!Kind, K!LoadResolves(k)
  PROVE  SnapInv' /\ PromiseKept
<1>1. PICK t \in loads[k].startedAt .. now, usable \in BOOLEAN :
        /\ cache' = [cache EXCEPT ![k] = [asOf |-> t, cachedAt |-> now, usable |-> usable]]
        /\ loads' = [loads EXCEPT ![k].state = "resolved",
                       ![k].value = [asOf |-> t, cachedAt |-> now, usable |-> usable]]
  BY DEF K!LoadResolves
<1> DEFINE new == [asOf |-> t, cachedAt |-> now, usable |-> usable]
<1>2. /\ loads[k].startedAt \in Times /\ now \in Times /\ now <= loads[k].startedAt + MaxLoad
      /\ cache[k].cachedAt <= loads[k].startedAt /\ cache[k] \in Kept
      /\ cache[k].asOf <= cache[k].cachedAt
  BY DEF K!LoadResolves, SnapInv, SnapTypeOK, LoadOk, CacheOk
<1>3. /\ new \in Snapshot /\ new # K!NoSnapshot /\ new.asOf = t /\ new.cachedAt = now
      /\ t \in Times /\ t <= now /\ now <= t + MaxLoad /\ cache[k].asOf <= t
  BY <1>2, KeptFields DEF Snapshot, Times, K!KimchiAssumption, K!NoSnapshot, K!None
<1>4. /\ cache' = [cache EXCEPT ![k] = new] /\ new \in Kept
      /\ loads' = [loads EXCEPT ![k].state = "resolved", ![k].value = new]
      /\ UNCHANGED <<now, calls, answers, response>>
  BY <1>1, <1>3 DEF K!LoadResolves, Kept
<1> HIDE DEF new
<1>5. SnapTypeOK'
  <2>1. cache' \in [K!Kind -> Kept]
    BY <1>4 DEF SnapInv, SnapTypeOK
  <2>2. loads' \in [K!Kind -> SnapLoads]
    <3>1. loads' = [loads EXCEPT ![k] = [loads[k] EXCEPT !.state = "resolved",
                                                         !.value = new]]
      BY <1>4 DEF SnapInv, SnapTypeOK
    <3>2. [loads[k] EXCEPT !.state = "resolved", !.value = new]
            \in SnapLoads
      <4>1. loads[k] \in SnapLoads
        BY DEF SnapInv, SnapTypeOK
      <4> QED
        BY <1>4, <4>1
    <3> QED
      BY <3>1, <3>2 DEF SnapInv, SnapTypeOK
  <2> QED
    BY <1>4, <2>1, <2>2 DEF SnapInv, SnapTypeOK
<1>6. /\ cache'[k] = new /\ loads'[k].state = "resolved" /\ loads'[k].value = new
      /\ \A j \in K!Kind \ {k} : cache'[j] = cache[j] /\ loads'[j] = loads[j]
  BY <1>4 DEF SnapInv, SnapTypeOK
<1>7. t + Age(k) >= now
  BY <1>2, <1>3 DEF Age, Times, K!KimchiAssumption
<1>8. ASSUME NEW j \in K!Kind PROVE CacheOk(j)' /\ LoadOk(j)'
  <2>1. CASE j = k
    <3>1. now <= now
      BY <1>2 DEF Times, K!KimchiAssumption
    <3> QED
      BY <1>3, <1>4, <1>6, <1>7, <2>1, <3>1 DEF CacheOk, LoadOk, Age
  <2>2. CASE j # k
    BY <1>4, <1>6, <2>2 DEF SnapInv, CacheOk, LoadOk, Age
  <2> QED
    BY <2>1, <2>2
<1>9. ASSUME NEW c \in Caller PROVE CallOk(c)'
  <2>1. KindOf[c] \in K!Kind /\ answers[c].asOf \in Int /\ answers[c].floor \in Int
    BY DEF K!KimchiAssumption, SnapInv, SnapTypeOK, Moment, Times
  <2>2. CASE KindOf[c] = k
    <3>1. \A i \in Int : i <= cache[k].asOf => i <= t
      BY <1>2, <1>3, KeptFields DEF Times, K!KimchiAssumption
    <3> QED
      BY <1>3, <1>4, <1>6, <2>1, <2>2, <3>1 DEF SnapInv, CallOk
  <2>3. CASE KindOf[c] # k
    BY <1>4, <1>6, <2>1, <2>3 DEF SnapInv, CallOk
  <2> QED
    BY <2>2, <2>3
<1> QED
  BY <1>4, <1>5, <1>8, <1>9 DEF SnapInv, PromiseKept

(* A load that fails is settled with what there is, if it may still be     *)
(* shown.                                                                  *)
LEMMA SnapRejects ==
  ASSUME K!KimchiAssumption, SnapInv, NEW k \in K!Kind, K!LoadRejects(k)
  PROVE  SnapInv' /\ PromiseKept
<1>1. /\ loads[k] \in SnapLoads /\ cache[k] \in Kept /\ now \in Times
      /\ loads \in [K!Kind -> SnapLoads]
      /\ loads[k].state = "running" /\ loads[k].startedAt \in Times
      /\ UNCHANGED <<now, cache, calls, answers, response>>
  BY DEF K!LoadRejects, SnapInv, SnapTypeOK, LoadOk
<1>2. CASE loads' = [loads EXCEPT ![k].state = "rejected"]
  <2>1. /\ loads' \in [K!Kind -> SnapLoads] /\ loads'[k].state = "rejected"
        /\ \A j \in K!Kind \ {k} : loads'[j] = loads[j]
    BY <1>1, <1>2
  <2>2. ASSUME NEW j \in K!Kind PROVE CacheOk(j)' /\ LoadOk(j)'
    BY <1>1, <2>1 DEF SnapInv, CacheOk, LoadOk, Age
  <2> QED
    BY <1>1, <2>1, <2>2 DEF SnapInv, SnapTypeOK, CallOk, PromiseKept
<1>3. CASE /\ loads' = [loads EXCEPT ![k].state = "resolved", ![k].value = cache[k]]
           /\ cache[k] # K!NoSnapshot /\ cache[k].asOf + Age(k) >= now
  <2>1. /\ loads' \in [K!Kind -> SnapLoads] /\ loads'[k].state = "resolved"
        /\ loads'[k].value = cache[k]
        /\ \A j \in K!Kind \ {k} : loads'[j] = loads[j]
    BY <1>1, <1>3
  <2>2. ASSUME NEW j \in K!Kind PROVE CacheOk(j)' /\ LoadOk(j)'
    <3>1. CacheOk(j)'
      BY <1>1 DEF SnapInv, CacheOk
    <3>2. LoadOk(j)'
      BY <1>1, <1>3, <2>1 DEF SnapInv, LoadOk, Age
    <3> QED
      BY <3>1, <3>2
  <2> QED
    BY <1>1, <2>1, <2>2 DEF SnapInv, SnapTypeOK, CallOk, PromiseKept
<1>4. /\ loads[k].kept = cache[k] /\ now <= loads[k].startedAt + MaxLoad
      /\ loads[k].refresh => /\ cache[k] # K!NoSnapshot
                             /\ cache[k].cachedAt + StaleTtlOf[k] > loads[k].startedAt
      /\ cache[k].cachedAt <= cache[k].asOf + MaxLoad
  BY <1>1 DEF SnapInv, LoadOk, CacheOk
<1>5. /\ now \in Int /\ loads[k].startedAt \in Int /\ MaxLoad \in Int
      /\ StaleTtlOf[k] \in Int /\ MaxLoad >= 1
  BY <1>1 DEF Times, K!KimchiAssumption
<1>6. CASE loads[k].refresh
  <2>1. cache[k].asOf + Age(k) >= now
    BY <1>1, <1>4, <1>5, <1>6, KeptFields DEF Age
  <2>2. loads' = [loads EXCEPT ![k].state = "resolved", ![k].value = cache[k]]
    BY <1>4, <1>6 DEF K!LoadRejects
  <2> QED
    BY <1>3, <1>4, <1>6, <2>1, <2>2
<1>7. CASE ~loads[k].refresh /\ K!IsUsable(k)
  <2>1. cache[k] # K!NoSnapshot /\ cache[k].cachedAt + StaleTtlOf[k] > now
    BY <1>7 DEF K!IsUsable
  <2>2. cache[k].asOf + Age(k) >= now
    BY <1>1, <1>4, <1>5, <2>1, KeptFields DEF Age
  <2>3. loads' = [loads EXCEPT ![k].state = "resolved", ![k].value = cache[k]]
    BY <1>7 DEF K!LoadRejects
  <2> QED
    BY <1>3, <2>1, <2>2, <2>3
<1>8. CASE ~loads[k].refresh /\ ~K!IsUsable(k)
  BY <1>2, <1>8 DEF K!LoadRejects
<1> QED
  BY <1>6, <1>7, <1>8

(* Those who wait for the load of their kind end together, and what they   *)
(* are given is not older than what anyone had when they asked.            *)
LEMMA SnapEnds ==
  ASSUME K!KimchiAssumption, SnapInv, NEW k \in K!Kind, K!LoadEnds(k)
  PROVE  SnapInv' /\ PromiseKept
<1> DEFINE W == {c \in Caller : KindOf[c] = k /\ calls[c].pc \in {"joined", "owner"}}
           new(c) == IF loads[k].state = "rejected"
                     THEN [answers[c] EXCEPT !.status = "failed"]
                     ELSE [answers[c] EXCEPT !.status = "served",
                                             !.asOf = loads[k].value.asOf]
           then(c) == IF loads[k].state = "rejected" THEN [calls[c] EXCEPT !.pc = "failed"]
                      ELSE [pc |-> IF calls[c].pc = "joined" THEN "resumed" ELSE "given",
                            entries |-> loads[k].value]
<1>1. /\ loads[k].state \in {"resolved", "rejected"} /\ loads[k] \in SnapLoads
      /\ loads' = [loads EXCEPT ![k] = K!NoLoad] /\ UNCHANGED <<now, cache, response>>
      /\ answers' = [c \in Caller |-> IF c \in W THEN new(c) ELSE answers[c]]
      /\ calls' = [c \in Caller |-> IF c \in W THEN then(c) ELSE calls[c]]
      /\ cache[k] \in Kept /\ now \in Times
  BY DEF K!LoadEnds, SnapInv, SnapTypeOK
<1>0. /\ cache[k].asOf \in Int /\ cache[k].cachedAt \in Int /\ cache[k].asOf \in Moment
      /\ cache[k] # K!NoSnapshot => cache[k].asOf \in Times
  <2>1. cache[k] \in Kept
    BY <1>1
  <2> QED
    BY <2>1, KeptFields
<1>2. loads[k].state = "resolved" =>
        /\ loads[k].value = cache[k] /\ cache[k] # K!NoSnapshot /\ cache[k].asOf \in Times
        /\ cache[k].asOf + Age(k) >= now /\ cache[k].asOf <= now
  <2>1. loads[k].state = "resolved" =>
          /\ loads[k].value = cache[k] /\ cache[k] # K!NoSnapshot
          /\ cache[k].asOf + Age(k) >= now
    BY DEF SnapInv, LoadOk
  <2>2. cache[k].asOf <= cache[k].cachedAt /\ cache[k].cachedAt <= now
    BY DEF SnapInv, CacheOk
  <2>3. now \in Int
    BY DEF SnapInv, SnapTypeOK, Times, K!KimchiAssumption
  <2> QED
    BY <1>0, <2>1, <2>2, <2>3
<1>3. ASSUME NEW c \in W
      PROVE  /\ answers[c] \in SnapAnswers /\ answers[c].status = "waiting"
             /\ answers[c].floor <= cache[k].asOf /\ answers[c].asOf <= cache[k].asOf
             /\ calls[c] \in SnapCalls
  BY DEF SnapInv, SnapTypeOK, CallOk
<1>4. ASSUME NEW c \in W
      PROVE  /\ new(c) \in SnapAnswers /\ new(c).asOf <= cache[k].asOf
             /\ then(c) \in SnapCalls /\ then(c).pc \notin {"new", "joined", "owner"}
  <2>1. CASE loads[k].state = "rejected"
    BY <1>3, <2>1
  <2>2. CASE loads[k].state = "resolved"
    <3>1. cache[k].asOf \in Moment /\ cache[k].asOf <= cache[k].asOf
      BY <1>0
    <3>2. new(c) = [answers[c] EXCEPT !.status = "served", !.asOf = cache[k].asOf]
      BY <1>2, <2>2
    <3>3. new(c) \in SnapAnswers /\ new(c).asOf = cache[k].asOf
      <4> HIDE DEF new, W
      <4> QED
        BY <1>3, <3>1, <3>2
    <3>4. then(c) \in SnapCalls /\ then(c).pc \notin {"new", "joined", "owner"}
      BY <1>1, <1>2, <2>2
    <3> QED
      BY <3>1, <3>3, <3>4
  <2> QED
    BY <1>1, <2>1, <2>2
<1>5. SnapTypeOK'
  <2>1. answers' \in [Caller -> SnapAnswers] /\ calls' \in [Caller -> SnapCalls]
    <3>1. answers \in [Caller -> SnapAnswers] /\ calls \in [Caller -> SnapCalls]
      BY DEF SnapInv, SnapTypeOK
    <3> HIDE DEF new, then, W, SnapAnswers, SnapCalls
    <3> QED
      BY <1>1, <1>4, <3>1
  <2>2. loads' \in [K!Kind -> SnapLoads]
    <3>1. K!NoLoad \in SnapLoads
      BY DEF K!NoLoad, Moment, Kept, K!None
    <3> QED
      BY <1>1, <3>1 DEF SnapInv, SnapTypeOK
  <2> QED
    BY <1>1, <2>1, <2>2 DEF SnapInv, SnapTypeOK
<1>6. ASSUME NEW j \in K!Kind PROVE CacheOk(j)' /\ LoadOk(j)'
  <2>1. K!NoLoad.state = "none"
    BY DEF K!NoLoad
  <2>2. loads'[j] = IF j = k THEN K!NoLoad ELSE loads[j]
    BY <1>1 DEF SnapInv, SnapTypeOK
  <2>3. CASE j = k
    BY <1>1, <2>1, <2>2, <2>3 DEF SnapInv, CacheOk, LoadOk
  <2>4. CASE j # k
    BY <1>1, <2>2, <2>4 DEF SnapInv, CacheOk, LoadOk, Age
  <2> QED
    BY <2>3, <2>4
<1>7. ASSUME NEW c \in Caller PROVE CallOk(c)'
  <2>1. CASE c \in W
    <3>1. answers'[c] = new(c) /\ calls'[c] = then(c) /\ KindOf[c] = k
      BY <1>1, <2>1
    <3> HIDE DEF new, then, W
    <3> QED
      BY <1>1, <1>4, <2>1, <3>1 DEF CallOk
  <2>2. CASE c \notin W
    <3>1. answers'[c] = answers[c] /\ calls'[c] = calls[c]
      BY <1>1, <2>2
    <3> QED
      BY <1>1, <3>1 DEF SnapInv, CallOk
  <2> QED
    BY <2>1, <2>2
<1>8. CallersEnd(k)
  <2>1. W \in SUBSET {c \in K!Of(k) : answers[c].status = "waiting"}
    BY <1>3 DEF K!Of
  <2>2. CASE loads[k].state = "rejected"
    <3>1. answers' = [c \in Caller |->
            IF c \in W THEN [answers[c] EXCEPT !.status = "failed"] ELSE answers[c]]
      BY <1>1, <2>2
    <3> HIDE DEF W
    <3> QED
      BY <1>1, <2>1, <3>1 DEF CallersEnd
  <2>3. CASE loads[k].state = "resolved"
    <3>1. answers' = [c \in Caller |->
            IF c \in W THEN [answers[c] EXCEPT !.status = "served", !.asOf = cache[k].asOf]
            ELSE answers[c]]
      BY <1>1, <1>2, <2>3
    <3>2. \A c \in W : MayBeTold(k, cache[k].asOf, answers[c].floor)
      <4>1. \A c \in W : answers[c].floor <= cache[k].asOf /\ answers[c].floor \in Int
        BY <1>3 DEF Moment, Times, K!KimchiAssumption
      <4>2. cache[k].asOf \in Int
        BY <1>1, KeptFields
      <4> HIDE DEF W
      <4> QED
        BY <1>2, <2>3, <4>1, <4>2 DEF MayBeTold
    <3> HIDE DEF W
    <3> QED
      BY <1>1, <1>2, <2>1, <2>3, <3>1, <3>2 DEF CallersEnd
  <2> QED
    BY <1>1, <2>2, <2>3
<1> QED
  BY <1>5, <1>6, <1>7, <1>8 DEF SnapInv, PromiseKept

(* The summary is usable when there is anything usable to choose from.     *)
LEMMA SummaryUsable ==
  ASSUME K!KimchiAssumption, SnapInv, NEW c \in Caller
  PROVE  /\ K!Summary(c) \in Kept /\ K!Summary(c).usable \in BOOLEAN
         /\ K!Summary(c).usable <=>
              \/ calls[c].entries.usable
              \/ K!IsUsable("representative") /\ cache["representative"].usable
         /\ K!Badge(K!Summary(c)) \in {"sync", "ready", "delayed"}
         /\ K!Badge(K!Summary(c)) = "sync" <=> ~K!Summary(c).usable
<1> DEFINE mine == calls[c].entries
           kept == cache["representative"]
<1>1. mine \in Kept /\ kept \in Kept
  BY DEF SnapInv, SnapTypeOK, K!Kind
<1>2. mine.usable \in BOOLEAN /\ kept.usable \in BOOLEAN
  <2>1. ASSUME NEW s \in Snapshot PROVE s.usable \in BOOLEAN
    BY DEF Snapshot
  <2>2. K!NoSnapshot.usable \in BOOLEAN
    BY DEF K!NoSnapshot
  <2> QED
    BY <1>1, <2>1, <2>2 DEF Kept
<1>3. \/ K!Summary(c) = mine /\ (mine.usable \/ ~K!IsUsable("representative") \/ ~kept.usable)
      \/ K!Summary(c) = kept /\ K!IsUsable("representative")
                             /\ (kept.usable \/ ~mine.usable)
  <2>1. CASE ~K!IsUsable("representative")
    BY <2>1 DEF K!Summary
  <2>2. CASE K!IsUsable("representative") /\ mine.usable # kept.usable
    BY <1>2, <2>2 DEF K!Summary
  <2>3. CASE K!IsUsable("representative") /\ mine.usable = kept.usable
    <3>1. K!Summary(c) = mine \/ K!Summary(c) = kept
      BY <2>3 DEF K!Summary
    <3> QED
      BY <1>2, <2>3, <3>1
  <2> QED
    BY <2>1, <2>2, <2>3
<1>4. /\ K!Summary(c) \in Kept /\ K!Summary(c).usable \in BOOLEAN
      /\ K!Summary(c).usable <=> \/ mine.usable
                                 \/ K!IsUsable("representative") /\ kept.usable
  <2> HIDE DEF mine, kept
  <2> QED
    BY <1>1, <1>2, <1>3
<1>5. ASSUME NEW s \in Kept
      PROVE  /\ K!Badge(s) \in {"sync", "ready", "delayed"}
             /\ K!Badge(s) = "sync" <=> ~s.usable
  BY DEF K!Badge
<1> QED
  BY <1>4, <1>5

(* What happens to an answer after the caller was given its snapshot.      *)
LEMMA SnapResponds ==
  ASSUME K!KimchiAssumption, SnapInv, NEW c \in Caller,
         K!Collects(c) \/ K!AnswersRepresentatives(c)
  PROVE  /\ SnapInv' /\ PromiseKept
         /\ \A d \in Caller : calls'[d].pc = "done" /\ calls[d].pc # "done" =>
              /\ d = c
              /\ response'[c].ready = K!Summary(c).usable
              /\ response'[c].badge = K!Badge(K!Summary(c))
<1> DEFINE said == K!Responds(c)
<1>1. /\ K!Summary(c).usable \in BOOLEAN
      /\ K!Badge(K!Summary(c)) \in {"none", "sync", "ready", "delayed"}
  BY SummaryUsable
<1>2. /\ said \in [Caller -> SnapResponses] /\ said[c].ready = K!Summary(c).usable
      /\ said[c].badge = K!Badge(K!Summary(c))
  <2>1. response \in [Caller -> SnapResponses] /\ response[c] \in SnapResponses
    BY DEF SnapInv, SnapTypeOK
  <2> QED
    BY <1>1, <2>1 DEF K!Responds
<1>3. /\ UNCHANGED <<now, cache, loads, answers>>
      /\ calls' = [calls EXCEPT ![c].pc = calls'[c].pc]
      /\ calls[c].pc \in {"given", "images"} /\ calls'[c].pc \in {"images", "done"}
      /\ cache[KindOf[c]] \in Kept
  BY DEF K!Collects, K!AnswersRepresentatives, SnapInv, SnapTypeOK, K!KimchiAssumption
<1>4. /\ response' \in [Caller -> SnapResponses]
      /\ calls'[c].pc = "done" => response'[c].ready = said[c].ready
                                  /\ response'[c].badge = said[c].badge
  <2>1. CASE K!Collects(c)
    <3>1. response' = [said EXCEPT ![c].meta = cache[KindOf[c]],
                         ![c].badge = IF KindOf[c] = "batch" THEN @ ELSE "none"]
      BY <2>1 DEF K!Collects
    <3>2. calls'[c].pc = "done" => KindOf[c] = "batch"
      BY <2>1 DEF K!Collects, SnapInv, SnapTypeOK
    <3>3. said[c] \in SnapResponses
      BY <1>2
    <3> HIDE DEF said
    <3> QED
      BY <1>2, <1>3, <3>1, <3>2, <3>3
  <2>2. CASE K!AnswersRepresentatives(c)
    BY <1>2, <2>2 DEF K!AnswersRepresentatives
  <2> QED
    BY <2>1, <2>2
<1>5. SnapTypeOK'
  <2>1. calls \in [Caller -> SnapCalls]
    BY DEF SnapInv, SnapTypeOK
  <2>2. calls' \in [Caller -> SnapCalls]
    BY <1>3, <2>1
  <2> QED
    BY <1>3, <1>4, <2>2 DEF SnapInv, SnapTypeOK
<1>6. \A d \in Caller \ {c} : calls'[d] = calls[d]
  BY <1>3 DEF SnapInv, SnapTypeOK
<1>7. (\A d \in Caller : CallOk(d))'
  BY <1>3, <1>6 DEF SnapInv, CallOk
<1> QED
  BY <1>2, <1>3, <1>4, <1>5, <1>6, <1>7, LoadsStay DEF SnapInv, PromiseKept

LEMMA SnapResumes ==
  ASSUME K!KimchiAssumption, SnapInv, NEW c \in Caller, K!Resumes(c)
  PROVE  /\ SnapInv' /\ PromiseKept
         /\ \A d \in Caller : calls'[d].pc = "done" => calls[d].pc = "done"
<1>1. /\ calls' = [calls EXCEPT ![c].pc = "given"]
      /\ UNCHANGED <<now, cache, loads, answers, response>>
  BY DEF K!Resumes
<1>2. SnapTypeOK'
  BY <1>1 DEF SnapInv, SnapTypeOK
<1>3. /\ calls'[c].pc = "given"
      /\ \A d \in Caller \ {c} : calls'[d] = calls[d]
  BY <1>1 DEF SnapInv, SnapTypeOK
<1>4. (\A d \in Caller : CallOk(d))'
  BY <1>1, <1>3 DEF SnapInv, CallOk
<1> QED
  BY <1>1, <1>2, <1>3, <1>4, LoadsStay DEF SnapInv, PromiseKept

LEMMA SnapStep ==
  ASSUME K!KimchiAssumption, SnapInv, [K!Next]_(K!vars) PROVE SnapInv' /\ PromiseKept
<1>1. CASE UNCHANGED K!vars
  <2>1. UNCHANGED <<now, cache, loads, outcome, calls, answers, response>>
    BY <1>1 DEF K!vars
  <2> QED
    BY <2>1, LoadsStay DEF SnapInv, SnapTypeOK, CallOk, PromiseKept
<1>2. CASE K!Tick
  BY <1>2, SnapTick
<1>3. ASSUME NEW k \in K!Kind, K!LoadResolves(k) \/ K!LoadRejects(k) \/ K!LoadEnds(k)
      PROVE  SnapInv' /\ PromiseKept
  BY <1>3, SnapResolves, SnapRejects, SnapEnds
<1>4. ASSUME NEW c \in Caller,
             K!AsksFresh(c) \/ K!AsksJoining(c) \/ K!AsksStale(c) \/ K!AsksCold(c)
      PROVE  SnapInv' /\ PromiseKept
  BY <1>4, AskSteps
<1>5. ASSUME NEW c \in Caller,
             K!Resumes(c) \/ K!Collects(c) \/ K!AnswersRepresentatives(c)
      PROVE  SnapInv' /\ PromiseKept
  BY <1>5, SnapResumes, SnapResponds
<1> QED
  BY <1>1, <1>2, <1>3, <1>4, <1>5 DEF K!Next

(* Each kind of Kimchi snapshot implements the safety of BoundedStaleness, *)
(* whatever loads of it are shared, refreshed or fail                      *)
(* (getKimchiPremiumSnapshot).                                             *)
THEOREM SnapshotsImplementPromise ==
  ASSUME K!KimchiAssumption
  PROVE  K!Spec => /\ K!Representatives!AInit /\ K!Batches!AInit
                   /\ [][K!Representatives!ANext]_(K!Representatives!aVars)
                   /\ [][K!Batches!ANext]_(K!Batches!aVars)
<1>1. K!Init => K!Representatives!AInit /\ K!Batches!AInit
  BY DEF K!Init, K!Representatives!AInit, K!Batches!AInit, K!Of, K!Unasked, K!None,
         K!Representatives!Unasked, K!Representatives!None,
         K!Batches!Unasked, K!Batches!None
<1>2. K!Init => SnapInv
  BY SnapStarts
<1>3. SnapInv /\ [K!Next]_(K!vars) =>
        /\ SnapInv'
        /\ [K!Representatives!ANext]_(K!Representatives!aVars)
        /\ [K!Batches!ANext]_(K!Batches!aVars)
  <2> SUFFICES ASSUME SnapInv, [K!Next]_(K!vars)
               PROVE  /\ SnapInv'
                      /\ [K!Representatives!ANext]_(K!Representatives!aVars)
                      /\ [K!Batches!ANext]_(K!Batches!aVars)
    OBVIOUS
  <2>1. SnapInv' /\ PromiseKept /\ SnapTypeOK
    BY SnapStep DEF SnapInv
  <2>2. KindStep("representative") /\ KindStep("batch")
    BY <2>1, KindSteps DEF K!Kind
  <2> QED
    BY <2>1, <2>2, RepresentativeSteps, BatchSteps
<1> QED
  BY <1>1, <1>2, <1>3, PTL DEF K!Spec

(* No answer calls the representatives not ready while its own entries, or *)
(* the representative snapshot that is still usable, has one to show       *)
(* (preferRepresentativeSummary).                                          *)
THEOREM ReadyWhileAnyUsableHolds ==
  ASSUME K!KimchiAssumption PROVE K!Spec => [][K!ReadyWhileAnyUsable]_(K!vars)
<1>1. SnapInv /\ [K!Next]_(K!vars) => [K!ReadyWhileAnyUsable]_(K!vars)
  <2> SUFFICES ASSUME SnapInv, K!Next, NEW c \in Caller,
                      calls'[c].pc = "done", calls[c].pc # "done"
               PROVE  /\ response'[c].ready =
                           \/ calls[c].entries.usable
                           \/ K!IsUsable("representative")
                              /\ cache["representative"].usable
                      /\ (response'[c].badge = "sync") = ~response'[c].ready
    BY DEF K!ReadyWhileAnyUsable
  <2>1. ASSUME NEW d \in Caller, K!Collects(d) \/ K!AnswersRepresentatives(d)
        PROVE  /\ response'[c].ready = K!Summary(c).usable
               /\ response'[c].badge = K!Badge(K!Summary(c))
    BY <2>1, SnapResponds
  <2>2. ASSUME NEW d \in Caller,
               K!AsksFresh(d) \/ K!AsksJoining(d) \/ K!AsksStale(d) \/ K!AsksCold(d)
                 \/ K!Resumes(d)
        PROVE  FALSE
    <3>1. calls \in [Caller -> SnapCalls]
      BY DEF SnapInv, SnapTypeOK
    <3>2. CASE \E pc \in {"joined", "owner", "given"} : calls' = [calls EXCEPT ![d].pc = pc]
      BY <3>1, <3>2
    <3>3. CASE \E s : calls' = [calls EXCEPT ![d] = [pc |-> "given", entries |-> s]]
      BY <3>1, <3>3
    <3> QED
      BY <2>2, <3>2, <3>3
      DEF K!AsksFresh, K!AsksJoining, K!AsksStale, K!AsksCold, K!Resumes, K!Given, K!Waits
  <2>3. ASSUME NEW k \in K!Kind, K!LoadEnds(k) PROVE FALSE
    BY <2>3 DEF K!LoadEnds, SnapInv, SnapTypeOK
  <2>4. ASSUME K!Tick \/ \E k \in K!Kind : K!LoadResolves(k) \/ K!LoadRejects(k)
        PROVE  FALSE
    BY <2>4 DEF K!Tick, K!LoadResolves, K!LoadRejects
  <2>5. /\ response'[c].ready = K!Summary(c).usable
        /\ response'[c].badge = K!Badge(K!Summary(c))
    BY <2>1, <2>2, <2>3, <2>4 DEF K!Next
  <2> QED
    BY <2>5, SummaryUsable
<1> QED
  BY <1>1, SnapStarts, SnapStep, PTL DEF K!Spec

-----------------------------------------------------------------------------
(* The rows of the Kimchi premium (KimchiRows).                            *)
CONSTANTS Loader, MarketStale, FxStale, SkewMax, LastGoodTtl, MaxRestarts
VARIABLES memory, stored, late, lastGood, load, row, got, restarts

R == INSTANCE KimchiRows

Rates == [provider : {"none", "host", "fallback"}, kept : BOOLEAN, at : Int]
Goods == [fx : Rates, reference : Int, domestic : Int]
Gots  == [fx : Int, reference : Int, domestic : Int]
RowLoads ==
  [pc : {"idle", "rate", "tickers"}, fx : Rates, failed : BOOLEAN, cold : BOOLEAN]

RowsTypeOK ==
  /\ now \in Nat
  /\ memory \in Rates /\ stored \in Rates
  /\ lastGood \in Goods /\ got \in Gots
  /\ load \in [Loader -> RowLoads]

(* What was received is what is kept; the provider always has a rate; and  *)
(* a load without a rate could get none.                                   *)
KeptInv ==
  /\ memory.at >= 0 /\ (stored # R!NoRate => stored.at >= 0)
  /\ got.fx = lastGood.fx.at
  /\ got.reference = lastGood.reference /\ got.domestic = lastGood.domestic
  /\ \A l \in Loader :
       load[l].pc = "tickers" /\ load[l].fx.at = R!None => load[l].cold

RowsInv == RowsTypeOK /\ KeptInv /\ R!LoadedIsLive

(* A set that has a largest or smallest element, which Max and Min choose. *)
HasMax(T) == T \subseteq Int /\ \E x \in T : \A y \in T : x >= y
HasMin(T) == T \subseteq Int /\ \E x \in T : \A y \in T : x <= y

LEMMA MaxOfSet ==
  ASSUME NEW T, HasMax(T)
  PROVE  R!Max(T) \in T /\ R!Max(T) \in Int /\ \A y \in T : R!Max(T) >= y
BY DEF HasMax, R!Max

LEMMA MinOfSet ==
  ASSUME NEW T, HasMin(T) PROVE R!Min(T) \in Int
BY DEF HasMin, R!Min

LEMMA PairHasMax == ASSUME NEW a \in Int, NEW b \in Int PROVE HasMax({a, b})
BY DEF HasMax

LEMMA TripleHasBoth ==
  ASSUME NEW a \in Int, NEW b \in Int, NEW c \in Int
  PROVE  HasMax({a, b, c}) /\ HasMin({a, b, c})
<1>1. \E x \in {a, b, c} : \A y \in {a, b, c} : x >= y
  <2>1. CASE a >= b /\ a >= c
    BY <2>1
  <2>2. CASE b >= a /\ b >= c
    BY <2>2
  <2>3. CASE c >= a /\ c >= b
    BY <2>3
  <2> QED
    BY <2>1, <2>2, <2>3
<1>2. \E x \in {a, b, c} : \A y \in {a, b, c} : x <= y
  <2>1. CASE a <= b /\ a <= c
    BY <2>1
  <2>2. CASE b <= a /\ b <= c
    BY <2>2
  <2>3. CASE c <= a /\ c <= b
    BY <2>3
  <2> QED
    BY <2>1, <2>2, <2>3
<1> QED
  BY <1>1, <1>2 DEF HasMax, HasMin

LEMMA AddedHasMax ==
  ASSUME NEW T, HasMax(T), NEW b \in Int PROVE HasMax(T \cup {b})
<1>1. PICK x \in T : \A y \in T : x >= y
  BY DEF HasMax
<1>2. T \cup {b} \subseteq Int /\ x \in Int
  BY DEF HasMax
<1>3. CASE x >= b
  BY <1>1, <1>2, <1>3 DEF HasMax
<1>4. CASE b >= x
  <2>1. \A y \in T : b >= y
    BY <1>1, <1>2, <1>4
  <2> QED
    BY <1>2, <2>1 DEF HasMax
<1> QED
  BY <1>2, <1>3, <1>4

(* A component as applyLastKnownGoodTicker gives it.                       *)
LEMMA ComponentTyped ==
  ASSUME NEW ticker \in Int, NEW good \in Int, now \in Nat
  PROVE  /\ R!Component(ticker, good).at \in Int
         /\ R!Component(ticker, good).kept \in BOOLEAN
         /\ R!Component(ticker, good).at = R!None =>
              ticker = R!None /\ ~R!Usable(good)
BY DEF R!Component, R!Usable, R!None

(* What RowOf makes of a load and its components.                          *)
LEMMA RowIsLive ==
  ASSUME R!RowsAssumption, RowsTypeOK, NEW l \in Loader,
         NEW reference \in [at : Int, kept : BOOLEAN],
         NEW domestic \in [at : Int, kept : BOOLEAN],
         NEW listed, NEW error \in BOOLEAN,
         R!RowOf(l, reference, domestic, listed, error).status = "loaded"
  PROVE  LET r == R!RowOf(l, reference, domestic, listed, error)
         IN  ~r.fallback /\ ~r.kept /\ r.oldest <= Slight /\ r.skew <= Slight
<1> DEFINE fx        == load[l].fx
           times     == R!Present(reference, domestic, fx)
           all       == R!None \notin {reference.at, domestic.at, fx.at}
           any       == times # {}
           kept      == reference.kept \/ domestic.kept \/ fx.kept
           ages      == {R!Age(t) : t \in times} \cup {0}
           oldest    == R!Max(ages)
           skew      == R!Skew(times)
           fallback  == fx.provider = "fallback" /\ ~fx.kept
           freshness == R!Freshness(all, oldest, skew, fallback, kept)
           stale     == R!IsStale(times, fx, kept, freshness)
           r         == R!RowOf(l, reference, domestic, listed, error)
<1>1. /\ r.fallback = (fx.provider = "fallback") /\ r.kept = kept
      /\ r.oldest = (IF any THEN oldest ELSE R!None) /\ r.skew = skew
  BY DEF R!RowOf
<1>2. all /\ ~stale
  <2>1. R!Status(all, {reference.at, domestic.at} # {R!None},
                 error \/ load[l].failed, stale) = "loaded"
    BY DEF R!RowOf
  <2> HIDE DEF all, stale
  <2> QED
    BY <2>1 DEF R!Status
<1>3. ~kept /\ freshness # "stale"
  <2> HIDE DEF kept, freshness, times, fx
  <2> QED
    BY <1>2 DEF R!IsStale
<1>4. fx \in Rates
  BY DEF RowsTypeOK, RowLoads
<1>5. /\ times = {reference.at, domestic.at, fx.at}
      /\ reference.at \in Int /\ domestic.at \in Int /\ fx.at \in Int
  <2> HIDE DEF fx
  <2> QED
    BY <1>2, <1>4 DEF R!Present, Rates
<1>6. oldest \in Int
  <2> DEFINE a == R!Age(reference.at)  b == R!Age(domestic.at)  c == R!Age(fx.at)
  <2>1. a \in Int /\ b \in Int /\ c \in Int
    BY <1>5 DEF R!Age, RowsTypeOK
  <2>2. ages = {a, b, c} \cup {0}
    BY <1>5
  <2> HIDE DEF a, b, c, ages
  <2>3. HasMax({a, b, c})
    BY <2>1, TripleHasBoth
  <2>4. HasMax({a, b, c} \cup {0})
    BY <2>3, AddedHasMax
  <2> QED
    BY <2>2, <2>4, MaxOfSet
<1>7. skew \in Int
  <2> HIDE DEF fx, times
  <2>1. HasMax(times) /\ HasMin(times) /\ times # {}
    BY <1>5, TripleHasBoth
  <2>2. R!Max(times) \in Int /\ R!Min(times) \in Int
    BY <2>1, MaxOfSet, MinOfSet
  <2> QED
    BY <2>1, <2>2 DEF R!Skew
<1>8. ~(R!Max({oldest, skew}) > Slight) /\ ~fallback
  <2> HIDE DEF oldest, skew, fallback, kept
  <2> QED
    BY <1>2, <1>3 DEF R!Freshness
<1>9. oldest <= Slight /\ skew <= Slight
  <2> HIDE DEF oldest, skew
  <2>1. /\ R!Max({oldest, skew}) \in Int
        /\ R!Max({oldest, skew}) >= oldest /\ R!Max({oldest, skew}) >= skew
    BY <1>6, <1>7, PairHasMax, MaxOfSet
  <2> QED
    BY <1>6, <1>7, <1>8, <2>1 DEF R!RowsAssumption
<1>10. fx.provider # "fallback" /\ any
  BY <1>3, <1>5, <1>8
<1> HIDE DEF fx, times, kept, oldest, skew, any
<1> QED
  BY <1>1, <1>3, <1>9, <1>10

(* The cold hint is for a load without any component.                      *)
LEMMA ColdIsEmpty ==
  ASSUME NEW l \in Loader, NEW reference, NEW domestic, NEW listed, NEW error,
         R!RowOf(l, reference, domestic, listed, error).hint = "unavailable_cold"
  PROVE  reference.at = R!None /\ domestic.at = R!None /\ load[l].fx.at = R!None
<1> DEFINE fx    == load[l].fx
           times == R!Present(reference, domestic, fx)
           all   == R!None \notin {reference.at, domestic.at, fx.at}
           any   == times # {}
           r     == R!RowOf(l, reference, domestic, listed, error)
<1>1. PICK old \in BOOLEAN : r.hint = R!Hint(R!Stable(all, any, old))
  <2>1. \E old : r.hint = R!Hint(R!Stable(all, any, old))
    BY DEF R!RowOf
  <2>2. PICK old : r.hint = R!Hint(R!Stable(all, any, old))
    BY <2>1
  <2>3. R!Stable(all, any, old) = R!Stable(all, any, old = TRUE)
    <3> HIDE DEF all, any
    <3> QED
      BY DEF R!Stable
  <2> QED
    BY <2>2, <2>3
<1>2. ~any
  <2> HIDE DEF all, any
  <2> QED
    BY <1>1 DEF R!Hint, R!Stable
<1> QED
  BY <1>2 DEF R!Present
LEMMA RateTyped ==
  /\ R!NoRate \in Rates /\ R!NoRate.at = R!None
  /\ \A t \in Int : /\ R!Fallback(t) \in Rates /\ R!Fallback(t).at = t
                    /\ R!HostRate(t) \in Rates /\ R!HostRate(t).at = t
BY DEF R!NoRate, R!Fallback, R!HostRate, R!None, Rates

LEMMA RowIdle == R!NoLoad \in RowLoads /\ R!NoLoad.pc = "idle"
BY RateTyped DEF R!NoLoad, RowLoads

(* applyLastKnownGoodFx: what a load gets as its rate.                     *)
LEMMA TakesRateStep ==
  ASSUME R!RowsAssumption, RowsInv, NEW l \in Loader, NEW failed \in BOOLEAN,
         NEW rate \in Rates, rate # R!NoRate => rate.at >= 0,
         R!TakesRate(l, rate, failed)
  PROVE  /\ lastGood' \in Goods /\ got' \in Gots
         /\ got'.fx = lastGood'.fx.at
         /\ got'.reference = lastGood'.reference /\ got'.domestic = lastGood'.domestic
         /\ load' \in [Loader -> RowLoads]
         /\ \A k \in Loader :
              load'[k].pc = "tickers" /\ load'[k].fx.at = R!None => load'[k].cold
         /\ load'[l].pc = "tickers" /\ \A k \in Loader \ {l} : load'[k] = load[k]
<1> DEFINE kept == [lastGood.fx EXCEPT !.kept = TRUE]
           used == IF rate # R!NoRate THEN rate
                   ELSE IF R!Usable(lastGood.fx.at) THEN kept ELSE R!NoRate
           cold == rate = R!NoRate /\ ~R!Usable(got.fx)
           next == [pc |-> "tickers", fx |-> used, failed |-> failed, cold |-> cold]
<1>1. /\ lastGood' = IF rate # R!NoRate THEN [lastGood EXCEPT !.fx = rate] ELSE lastGood
      /\ got' = IF rate # R!NoRate THEN [got EXCEPT !.fx = rate.at] ELSE got
      /\ load' = [load EXCEPT ![l] = next]
  BY DEF R!TakesRate
<1>2. lastGood \in Goods /\ got \in Gots /\ rate.at \in Int
  BY DEF RowsInv, RowsTypeOK, Rates
<1>3. /\ got.fx = lastGood.fx.at /\ got.reference = lastGood.reference
      /\ got.domestic = lastGood.domestic
  BY DEF RowsInv, KeptInv
<1>4. /\ lastGood' \in Goods /\ got' \in Gots
      /\ got'.fx = lastGood'.fx.at
      /\ got'.reference = lastGood'.reference /\ got'.domestic = lastGood'.domestic
  <2>1. CASE rate # R!NoRate
    <3>1. /\ lastGood' \in Goods /\ lastGood'.fx = rate
          /\ lastGood'.reference = lastGood.reference
          /\ lastGood'.domestic = lastGood.domestic
      BY <1>1, <1>2, <2>1 DEF Goods
    <3>2. /\ got' \in Gots /\ got'.fx = rate.at
          /\ got'.reference = got.reference /\ got'.domestic = got.domestic
      BY <1>1, <1>2, <2>1 DEF Gots
    <3> QED
      BY <1>3, <3>1, <3>2
  <2>2. CASE rate = R!NoRate
    BY <1>1, <1>2, <1>3, <2>2
  <2> QED
    BY <2>1, <2>2
<1>5. kept \in Rates /\ kept.at = lastGood.fx.at
  BY <1>2 DEF Goods, Rates
<1>6. used \in Rates /\ (used.at = R!None => cold)
  <2>1. CASE rate # R!NoRate
    BY <2>1 DEF R!None
  <2>2. CASE rate = R!NoRate /\ R!Usable(lastGood.fx.at)
    <3>1. used = kept /\ kept.at # R!None
      BY <1>5, <2>2 DEF R!Usable
    <3> HIDE DEF used, kept
    <3> QED
      BY <1>5, <3>1
  <2>3. CASE rate = R!NoRate /\ ~R!Usable(lastGood.fx.at)
    BY <1>3, <2>3, RateTyped
  <2> QED
    BY <2>1, <2>2, <2>3
<1>7. next \in RowLoads /\ next.pc = "tickers" /\ (next.fx.at = R!None => next.cold)
  <2>1. cold \in BOOLEAN
    OBVIOUS
  <2> HIDE DEF used, cold
  <2> QED
    BY <1>6, <2>1 DEF RowLoads
<1> HIDE DEF next
<1>8. load' \in [Loader -> RowLoads] /\ load'[l] = next
      /\ \A k \in Loader \ {l} : load'[k] = load[k]
  BY <1>1, <1>7 DEF RowsInv, RowsTypeOK
<1> QED
  BY <1>4, <1>7, <1>8 DEF RowsInv, KeptInv

(* A step that makes no row shows nothing cold.                            *)
LEMMA NoRowNoCold ==
  ASSUME \A l \in Loader : load[l].pc = "tickers" => load'[l].pc # "idle"
  PROVE  R!ColdMeansNothingKept
BY RowIdle DEF R!ColdMeansNothingKept

LEMMA LoadedStays ==
  ASSUME RowsInv, row' = row PROVE R!LoadedIsLive'
BY DEF RowsInv, R!LoadedIsLive

(* The steps of the rate's provider.                                       *)
LEMMA RateSteps ==
  ASSUME R!RowsAssumption, RowsInv, NEW l \in Loader,
         R!Begins(l) \/ R!RateArrives(l) \/ R!RateTimesOut(l)
  PROVE  RowsInv' /\ R!ColdMeansNothingKept
<1>1. /\ now \in Nat /\ now' = now /\ row' = row
      /\ memory \in Rates /\ stored \in Rates /\ memory.at >= 0
      /\ stored # R!NoRate => stored.at >= 0
  BY DEF RowsInv, RowsTypeOK, KeptInv, R!Begins, R!RateArrives, R!RateTimesOut
<1>2. /\ memory' \in Rates /\ memory'.at >= 0
      /\ stored' \in Rates /\ (stored' # R!NoRate => stored'.at >= 0)
  <2>1. R!HostRate(now) \in Rates /\ R!HostRate(now).at >= 0
    BY <1>1, RateTyped
  <2>2. CASE R!Begins(l)
    BY <1>1, <2>2 DEF R!Begins
  <2>3. CASE R!RateArrives(l)
    BY <1>1, <2>1, <2>3 DEF R!RateArrives, R!Fetched
  <2>4. CASE R!RateTimesOut(l)
    BY <1>1, <2>4 DEF R!RateTimesOut
  <2> QED
    BY <2>2, <2>3, <2>4
<1>3. ASSUME NEW rate \in Rates, NEW failed \in BOOLEAN,
             rate # R!NoRate => rate.at >= 0, R!TakesRate(l, rate, failed)
      PROVE  RowsInv' /\ R!ColdMeansNothingKept
  <2>1. RowsInv'
    BY <1>1, <1>2, <1>3, TakesRateStep, LoadedStays DEF RowsInv, RowsTypeOK, KeptInv
  <2>2. \A k \in Loader : load[k].pc = "tickers" => load'[k].pc # "idle"
    BY <1>3, TakesRateStep
  <2> QED
    BY <2>1, <2>2, NoRowNoCold
<1>4. CASE R!Begins(l) /\ ~(memory'.at + FxStale > now)
  <2> DEFINE next == [R!NoLoad EXCEPT !.pc = "rate"]
  <2>1. /\ load' = [load EXCEPT ![l] = next] /\ UNCHANGED <<lastGood, got>>
        /\ load[l].pc = "idle"
    BY <1>4 DEF R!Begins
  <2>2. next \in RowLoads /\ next.pc = "rate"
    BY RowIdle DEF RowLoads
  <2> HIDE DEF next
  <2>3. /\ load' \in [Loader -> RowLoads] /\ load'[l].pc = "rate"
        /\ \A k \in Loader \ {l} : load'[k] = load[k]
    BY <2>1, <2>2 DEF RowsInv, RowsTypeOK
  <2>4. KeptInv'
    BY <1>2, <2>1, <2>3 DEF RowsInv, KeptInv
  <2>5. RowsInv'
    BY <1>1, <1>2, <2>1, <2>3, <2>4, LoadedStays DEF RowsInv, RowsTypeOK
  <2>6. \A k \in Loader : load[k].pc = "tickers" => load'[k].pc # "idle"
    BY <2>3
  <2> QED
    BY <2>5, <2>6, NoRowNoCold
<1>5. CASE R!Begins(l) /\ memory'.at + FxStale > now
  BY <1>2, <1>3, <1>5 DEF R!Begins
<1>6. CASE R!RateArrives(l)
  BY <1>2, <1>3, <1>6 DEF R!RateArrives
<1>7. CASE R!RateTimesOut(l)
  BY <1>3, <1>7, RateTyped DEF R!RateTimesOut
<1> QED
  BY <1>4, <1>5, <1>6, <1>7

(* The row of a load is made.                                              *)
LEMMA TickersStep ==
  ASSUME R!RowsAssumption, RowsInv, NEW l \in Loader, R!TickersArrive(l)
  PROVE  RowsInv' /\ R!ColdMeansNothingKept
<1> DEFINE old == R!Max({now - MarketStale - 1, 0})
<1>1. PICK r \in {R!None, now} \cup {old}, d \in {R!None, now} \cup {old},
           listed \in {{"reference", "domestic"}, {}}, error \in BOOLEAN :
        /\ row' = R!RowOf(l, R!Component(r, lastGood.reference),
                          R!Component(d, lastGood.domestic), listed, error)
        /\ lastGood' = [lastGood EXCEPT !.reference = IF r = R!None THEN @ ELSE r,
                                        !.domestic = IF d = R!None THEN @ ELSE d]
        /\ got' = [got EXCEPT !.reference = IF r = R!None THEN @ ELSE r,
                              !.domestic = IF d = R!None THEN @ ELSE d]
  BY DEF R!TickersArrive
<1>2. /\ load[l].pc = "tickers" /\ load' = [load EXCEPT ![l] = R!NoLoad]
      /\ UNCHANGED <<now, memory, stored>>
  BY DEF R!TickersArrive
<1>3. now \in Nat /\ lastGood \in Goods /\ got \in Gots /\ load \in [Loader -> RowLoads]
  BY DEF RowsInv, RowsTypeOK
<1>4. r \in Int /\ d \in Int
  <2>1. now - MarketStale - 1 \in Int /\ now \in Int /\ R!None \in Int
    BY <1>3 DEF R!RowsAssumption, R!None
  <2>2. old \in Int
    BY <2>1, PairHasMax, MaxOfSet
  <2> HIDE DEF old
  <2> QED
    BY <1>1, <2>1, <2>2
<1> HIDE DEF old
<1> DEFINE reference == R!Component(r, lastGood.reference)
           domestic == R!Component(d, lastGood.domestic)
           ref == IF r = R!None THEN lastGood.reference ELSE r
           dom == IF d = R!None THEN lastGood.domestic ELSE d
<1>5. lastGood.reference \in Int /\ lastGood.domestic \in Int /\ ref \in Int /\ dom \in Int
  BY <1>3, <1>4 DEF Goods
<1>6. reference \in [at : Int, kept : BOOLEAN] /\ domestic \in [at : Int, kept : BOOLEAN]
  <2>1. reference.at \in Int /\ reference.kept \in BOOLEAN
        /\ domestic.at \in Int /\ domestic.kept \in BOOLEAN
    BY <1>3, <1>4, <1>5, ComponentTyped
  <2>2. reference = [at |-> reference.at, kept |-> reference.kept]
        /\ domestic = [at |-> domestic.at, kept |-> domestic.kept]
    BY DEF R!Component
  <2> HIDE DEF reference, domestic
  <2> QED
    BY <2>1, <2>2
<1>7. /\ got.reference = lastGood.reference /\ got.domestic = lastGood.domestic
      /\ got.fx = lastGood.fx.at
  BY DEF RowsInv, KeptInv
<1>8. /\ lastGood' \in Goods /\ lastGood'.fx = lastGood.fx
      /\ lastGood'.reference = ref /\ lastGood'.domestic = dom
  <2> DEFINE first == [lastGood EXCEPT !.reference = ref]
  <2>1. lastGood' = [first EXCEPT !.domestic = dom]
    BY <1>1, <1>3 DEF Goods
  <2>2. /\ first \in Goods /\ first.reference = ref /\ first.fx = lastGood.fx
    BY <1>3, <1>5 DEF Goods
  <2> HIDE DEF first, ref, dom
  <2> QED
    BY <1>5, <2>1, <2>2 DEF Goods
<1>9. /\ got' \in Gots /\ got'.fx = got.fx
      /\ got'.reference = ref /\ got'.domestic = dom
  <2> DEFINE first == [got EXCEPT !.reference = ref]
  <2>1. got' = [first EXCEPT !.domestic = dom]
    BY <1>1, <1>3, <1>7 DEF Gots
  <2>2. /\ first \in Gots /\ first.reference = ref /\ first.fx = got.fx
    BY <1>3, <1>5 DEF Gots
  <2> HIDE DEF first, ref, dom
  <2> QED
    BY <1>5, <2>1, <2>2 DEF Gots
<1>10. /\ load' \in [Loader -> RowLoads] /\ load'[l] = R!NoLoad
       /\ \A k \in Loader \ {l} : load'[k] = load[k]
  BY <1>2, <1>3, RowIdle
<1>11. row' = R!RowOf(l, reference, domestic, listed, error)
  BY <1>1
<1> HIDE DEF reference, domestic
<1>12. R!LoadedIsLive'
  BY <1>6, <1>11, RowIsLive DEF R!LoadedIsLive, RowsInv
<1>13. RowsTypeOK'
  BY <1>2, <1>8, <1>9, <1>10 DEF RowsInv, RowsTypeOK
<1>14. KeptInv'
  BY <1>2, <1>7, <1>8, <1>9, <1>10, RowIdle DEF RowsInv, KeptInv
<1>15. R!ColdMeansNothingKept
  <2> SUFFICES ASSUME NEW k \in Loader, row'.hint = "unavailable_cold",
                      load[k].pc = "tickers", load'[k] = R!NoLoad
               PROVE  load[k].cold /\ ~R!Usable(got'.reference) /\ ~R!Usable(got'.domestic)
    BY DEF R!ColdMeansNothingKept
  <2>1. k = l
    BY <1>10, RowIdle
  <2>2. reference.at = R!None /\ domestic.at = R!None /\ load[l].fx.at = R!None
    BY <1>11, ColdIsEmpty
  <2>3. /\ r = R!None /\ ~R!Usable(lastGood.reference)
        /\ d = R!None /\ ~R!Usable(lastGood.domestic)
    BY <1>3, <1>4, <1>5, <2>2, ComponentTyped DEF reference, domestic
  <2>4. load[l].cold
    BY <1>2, <2>2 DEF RowsInv, KeptInv
  <2> QED
    BY <1>9, <2>1, <2>3, <2>4
<1> QED
  BY <1>12, <1>13, <1>14, <1>15 DEF RowsInv

LEMMA RowsStep ==
  ASSUME R!RowsAssumption, RowsInv, R!Next
  PROVE  RowsInv' /\ R!ColdMeansNothingKept
<1>1. CASE R!Tick
  <2>1. /\ now' = now + 1 /\ UNCHANGED <<memory, stored, lastGood, load, row, got>>
    BY <1>1 DEF R!Tick
  <2>2. RowsInv'
    BY <2>1, LoadedStays DEF RowsInv, RowsTypeOK, KeptInv
  <2> QED
    BY <2>1, <2>2, NoRowNoCold
<1>2. CASE R!Restart
  <2>1. /\ now' = now /\ stored' = stored /\ memory' = R!Fallback(now)
        /\ lastGood' = R!Nothing /\ got' = R!NeverGot
        /\ load' = [l \in Loader |-> R!NoLoad] /\ row' = R!NoRow
    BY <1>2 DEF R!Restart
  <2>2. R!Nothing \in Goods /\ R!NeverGot \in Gots
    BY RateTyped DEF R!Nothing, R!NeverGot, Goods, Gots, R!None
  <2>3. RowsTypeOK'
    BY <2>1, <2>2, RateTyped, RowIdle DEF RowsInv, RowsTypeOK
  <2>4. KeptInv'
    BY <2>1, RateTyped, RowIdle DEF RowsInv, RowsTypeOK, KeptInv, R!Nothing, R!NeverGot
  <2>5. R!NoRow.status = "none" /\ R!NoRow.hint = "none"
    BY DEF R!NoRow
  <2>6. R!LoadedIsLive' /\ R!ColdMeansNothingKept
    BY <2>1, <2>5 DEF R!LoadedIsLive, R!ColdMeansNothingKept
  <2> QED
    BY <2>3, <2>4, <2>6 DEF RowsInv
<1>3. CASE R!LateRateArrives
  <2>1. /\ UNCHANGED <<now, lastGood, load, row, got>>
        /\ \/ memory' = R!HostRate(now) /\ stored' \in {stored, R!HostRate(now)}
           \/ UNCHANGED <<memory, stored>>
    BY <1>3 DEF R!LateRateArrives, R!Fetched
  <2>2. /\ memory' \in Rates /\ memory'.at >= 0
        /\ stored' \in Rates /\ (stored' # R!NoRate => stored'.at >= 0)
    BY <2>1, RateTyped DEF RowsInv, RowsTypeOK, KeptInv
  <2>3. RowsInv'
    BY <2>1, <2>2, LoadedStays DEF RowsInv, RowsTypeOK, KeptInv
  <2> QED
    BY <2>1, <2>3, NoRowNoCold
<1> QED
  BY <1>1, <1>2, <1>3, RateSteps, TickersStep DEF R!Next

LEMMA RowsInvariance == ASSUME R!RowsAssumption PROVE R!Spec => []RowsInv
<1>1. R!Init => RowsInv
  <2> SUFFICES ASSUME R!Init PROVE RowsInv
    OBVIOUS
  <2>1. R!Nothing \in Goods /\ R!NeverGot \in Gots
    BY RateTyped DEF R!Nothing, R!NeverGot, Goods, Gots, R!None
  <2>2. RowsTypeOK
    BY <2>1, RateTyped, RowIdle DEF R!Init, RowsTypeOK
  <2>3. KeptInv
    BY RateTyped, RowIdle DEF R!Init, KeptInv, R!Nothing, R!NeverGot
  <2>4. R!LoadedIsLive
    BY DEF R!Init, R!LoadedIsLive, R!NoRow
  <2> QED
    BY <2>2, <2>3, <2>4 DEF RowsInv
<1>2. RowsInv /\ [R!Next]_(R!vars) => RowsInv'
  <2>1. CASE UNCHANGED R!vars
    BY <2>1, LoadedStays DEF R!vars, RowsInv, RowsTypeOK, KeptInv
  <2> QED
    BY <2>1, RowsStep
<1> QED
  BY <1>1, <1>2, PTL DEF R!Spec

(* A row that says "loaded" shows a premium of three live components,      *)
(* whichever fetches failed and however loads overlapped                   *)
(* (determineKimchiFreshness, determineRowStatus).                         *)
THEOREM LoadedIsLiveHolds ==
  ASSUME R!RowsAssumption PROVE R!Spec => []R!LoadedIsLive
<1>1. RowsInv => R!LoadedIsLive
  BY DEF RowsInv
<1> QED
  BY <1>1, RowsInvariance, PTL

(* A client is told that a row is cold only by a load that found none of   *)
(* its components, fetched or kept (applyLastKnownGoodFx,                  *)
(* applyLastKnownGoodTicker).                                              *)
THEOREM ColdMeansNothingKeptHolds ==
  ASSUME R!RowsAssumption PROVE R!Spec => [][R!ColdMeansNothingKept]_(R!vars)
<1>1. RowsInv /\ [R!Next]_(R!vars) => [R!ColdMeansNothingKept]_(R!vars)
  BY RowsStep
<1> QED
  BY <1>1, RowsInvariance, PTL DEF R!Spec

-----------------------------------------------------------------------------
(* The queue in front of the image cache (AssetImages).                    *)
CONSTANTS Eager, Asset, Lookup, Curated, Disabled, Listed, Aliased, Warm, Stored,
          Id, IdOf, NoImage, NoJob, Positive, Fallback, Usable, NotFoundTtl, ListTtl,
          MaxPasses
VARIABLES started, redis, pending, timer, batch, notFound, listAt, call

A == INSTANCE AssetImages WITH NoEntry <- NoImage

(* A batch that runs is in one of its phases.                              *)
BatchRuns(b) == "phase" \in DOMAIN b /\ b.phase # "none"

QueueInv ==
  /\ batch = A!NoBatch \/ BatchRuns(batch)
  /\ A!PendingIsCarried

LEMMA NothingRuns == ~BatchRuns(A!NoBatch)
BY DEF BatchRuns, A!NoBatch

(* A step of the batch that is not its end leaves the queue as it is.      *)
LEMMA BatchGoesOn ==
  ASSUME QueueInv, BatchRuns(batch'), UNCHANGED <<pending, timer>>
  PROVE  QueueInv'
BY NothingRuns DEF QueueInv, A!PendingIsCarried, A!NoBatch

LEMMA StillRuns ==
  ASSUME NEW b, BatchRuns(b), NEW field, field # "phase", NEW v
  PROVE  BatchRuns([b EXCEPT ![field] = v])
BY DEF BatchRuns

(* What is queued sets the timer.                                          *)
LEMMA Queues ==
  ASSUME QueueInv, NEW keys, A!Schedules(keys), UNCHANGED batch
  PROVE  QueueInv'
BY DEF QueueInv, A!PendingIsCarried, A!Schedules, A!NoBatch

LEMMA BatchStarts ==
  ASSUME NEW keys PROVE BatchRuns(A!BatchOf(keys))
BY DEF BatchRuns, A!BatchOf, A!NoBatch

(* The queue is taken, or waits for the batch that runs.                   *)
LEMMA Flushes ==
  ASSUME QueueInv, A!Flushed, timer' \in {timer, FALSE}
  PROVE  QueueInv'
<1>1. CASE batch # A!NoBatch \/ pending = {}
  BY <1>1 DEF QueueInv, A!PendingIsCarried, A!Flushed, A!NoBatch
<1>2. CASE batch = A!NoBatch /\ pending # {}
  BY <1>2, BatchStarts DEF QueueInv, A!PendingIsCarried, A!Flushed
<1> QED
  BY <1>1, <1>2

LEMMA CallersQueue ==
  ASSUME QueueInv, NEW c, NEW asked, NEW waiting, NEW ended, NEW on,
         A!Looks(c, asked, waiting, ended, on)
  PROVE  QueueInv'
<1>1. (\E keys : A!Schedules(keys)) /\ UNCHANGED batch
  BY DEF A!Looks, A!Answers
<1> QED
  BY <1>1, Queues

LEMMA BatchStep ==
  ASSUME QueueInv,
         \/ A!ListLoads \/ A!Fetches \/ A!ReadsRow \/ A!FallsBack \/ A!Writes
         \/ \E k \in Asset : A!Sorts(k) \/ A!Keeps(k)
  PROVE  QueueInv'
<1>1. UNCHANGED <<pending, timer>>
  BY DEF A!ListLoads, A!Fetches, A!ReadsRow, A!FallsBack, A!Writes, A!Sorts, A!Keeps
<1>2. BatchRuns(batch)
  <2>1. (batch.phase = "none" /\ batch.job = NoJob) \/ BatchRuns(batch)
    BY DEF QueueInv, A!NoBatch
  <2> QED
    BY <2>1
    DEF A!ListLoads, A!Fetches, A!ReadsRow, A!FallsBack, A!Writes, A!Sorts, A!Keeps
<1>3. CASE A!ListLoads \/ A!Fetches
  <2>1. BatchRuns(batch')
    BY <1>2, <1>3 DEF A!ListLoads, A!Fetches, BatchRuns
  <2> QED
    BY <1>1, <2>1, BatchGoesOn
<1>4. CASE A!ReadsRow \/ A!FallsBack \/ A!Writes
  <2>1. BatchRuns(batch')
    BY <1>2, <1>4 DEF A!ReadsRow, A!FallsBack, A!Writes, BatchRuns
  <2> QED
    BY <1>1, <2>1, BatchGoesOn
<1>5. CASE \E k \in Asset : A!Sorts(k) \/ A!Keeps(k)
  <2>1. BatchRuns(batch')
    BY <1>2, <1>5 DEF A!Sorts, A!Keeps, BatchRuns
  <2> QED
    BY <1>1, <2>1, BatchGoesOn
<1> QED
  BY <1>3, <1>4, <1>5

LEMMA BatchEndsStep ==
  ASSUME QueueInv, A!BatchEnds
  PROVE  QueueInv'
BY BatchStarts DEF A!BatchEnds, QueueInv, A!PendingIsCarried, A!NoBatch

LEMMA QueueStep == ASSUME QueueInv, [A!Next]_(A!vars) PROVE QueueInv'
<1>1. CASE UNCHANGED A!vars
  BY <1>1 DEF A!vars, QueueInv, A!PendingIsCarried, A!NoBatch
<1>2. CASE \E c \in Caller : A!Drains(c)
  BY <1>2, Flushes DEF A!Drains
<1>3. CASE \E c \in Caller : A!Drained(c)
  <2>1. PICK c \in Caller : A!Drained(c)
    BY <1>3
  <2>2. CASE A!Looks(c, call[c].asked, "rereading", "done", call[c].on)
    BY <2>2, CallersQueue
  <2>3. CASE UNCHANGED <<pending, timer, batch>>
    BY <2>3 DEF QueueInv, A!PendingIsCarried, A!NoBatch
  <2> QED
    BY <2>1, <2>2, <2>3 DEF A!Drained
<1>4. CASE \E c \in Caller, asked \in Lookup : A!Asks(c, asked)
  BY <1>4, CallersQueue DEF A!Asks
<1>5. CASE \E c \in Caller : A!Received(c)
  <2>1. (\E keys : A!Schedules(keys)) /\ UNCHANGED batch
    BY <1>5 DEF A!Received, A!Answers
  <2> QED
    BY <2>1, Queues
<1>6. CASE A!Refresh \/ \E keys \in Lookup : A!Preload(keys)
  <2>1. (\E keys : A!Schedules(keys)) /\ UNCHANGED batch
    BY <1>6 DEF A!Refresh, A!Preload
  <2> QED
    BY <2>1, Queues
<1>7. CASE A!Start \/ A!Stop \/ A!Tick \/ \E c \in Caller : A!Served(c) \/ A!Leaves(c)
  BY <1>7 DEF A!Start, A!Stop, A!Tick, A!Served, A!Leaves, QueueInv, A!PendingIsCarried,
     A!NoBatch
<1>8. CASE A!TimerFires
  BY <1>8, Flushes DEF A!TimerFires
<1> QED
  BY <1>1, <1>2, <1>3, <1>4, <1>5, <1>6, <1>7, <1>8, BatchStep, BatchEndsStep DEF A!Next

(* A key that is queued is carried on, by a timer or at the end of the     *)
(* batch that runs: a timer that fires while a batch runs leaves the queue *)
(* to it, whoever asks, drains or stops in between (scheduleResolve,       *)
(* flushPendingResolutions).                                               *)
THEOREM PendingIsCarriedHolds == A!Spec => []A!PendingIsCarried
<1>1. A!Init => QueueInv
  BY DEF A!Init, QueueInv, A!PendingIsCarried
<1>2. QueueInv /\ [A!Next]_(A!vars) => QueueInv'
  BY QueueStep
<1>3. QueueInv => A!PendingIsCarried
  BY DEF QueueInv
<1> QED
  BY <1>1, <1>2, <1>3, PTL DEF A!Spec

-----------------------------------------------------------------------------
(* The images while none has expired: an entry may be used for thirty days *)
(* (ASSET_METADATA_POSITIVE_USABLE_TTL_MS), and the time of the model is   *)
(* shorter.                                                                *)
Lasting == [kind : {"image", "kept", "alias", "placeholder"},
            staleAt : 0 .. MaxTime + Usable, until : Usable .. MaxTime + Usable]
Held == Lasting \cup {NoImage}
Jobs == [key : Asset, step : {"fall"}] \cup [key : Asset, step : {"write"}, entry : Lasting]
        \cup [key : Asset, step : {"read"}, answered : BOOLEAN, row : Held]
Replies == UNION {[keys -> Held] : keys \in SUBSET Asset}

Batches(t) == [phase : {"none", "list", "sort", "keep"}, at : 0 .. t, todo : SUBSET Asset,
               list : BOOLEAN, fetch : SUBSET Asset, found : SUBSET Asset, job : Jobs \cup {NoJob}]
Calls == [pc : {"idle", "asking", "draining", "waiting", "rereading", "done"},
          asked : SUBSET Asset, seen : SUBSET Asset, at : 0 .. MaxTime,
          row : Replies, passes : Nat, on : BOOLEAN]

ImageFacts ==
  /\ MaxTime \in Nat /\ Usable \in Nat /\ MaxTime < Usable
  /\ Positive \in 0 .. Usable /\ Fallback \in 0 .. Usable /\ NotFoundTtl \in 0 .. Usable
  /\ MaxPasses \in Nat /\ MaxPasses >= 2
  /\ Lookup \subseteq SUBSET Asset /\ Warm \subseteq Asset /\ Stored \subseteq Asset
  /\ IdOf \in [Asset -> Id] /\ Eager \subseteq Caller
  /\ NoImage \notin A!Entry /\ NoJob \notin Jobs

LEMMA ImageFactsHold == ASSUME A!ImagesAssumption PROVE ImageFacts
<1>1. Lasting \subseteq A!Entry
  BY DEF Lasting, A!Entry, A!Time, A!ImagesAssumption
<1>2. Jobs \subseteq A!KeyJob
  BY <1>1 DEF Jobs, Held, A!KeyJob
<1> QED
  BY <1>2 DEF ImageFacts, A!ImagesAssumption

ImageTypes ==
  /\ started \in {"new", "on", "off"}
  /\ memory \in [Asset -> Held] /\ redis \in [Asset -> Held]
  /\ pending \in SUBSET Asset /\ timer \in BOOLEAN
  /\ batch \in Batches(now)
  /\ notFound \in [Id -> A!Time \cup {A!Never}] /\ listAt \in A!Time \cup {A!Never}
  /\ call \in [Caller -> Calls]
  /\ now \in 0 .. MaxTime

(* The keys a batch has still to give an entry.                            *)
Toward(b) == b.todo \cup b.fetch \cup (IF b.job = NoJob THEN {} ELSE {b.job.key})

PhaseInv ==
  /\ batch.phase = "none" => batch = A!NoBatch
  /\ batch.phase = "keep" => batch.todo = {}
  /\ batch.job # NoJob /\ batch.job.step = "write" => memory[batch.job.key] # NoImage

(* Redis is written after memory, so as long as memory has nothing for a   *)
(* key, what Redis holds for it is what every reply on its way holds.      *)
Agrees(k) ==
  \A c \in Caller : k \in DOMAIN call[c].row => call[c].row[k] \in {NoImage, redis[k]}

RowInv ==
  /\ \A k \in Asset : memory[k] = NoImage => Agrees(k)
  /\ batch.job # NoJob /\ batch.job.step = "read" =>
       /\ Agrees(batch.job.key) /\ memory[batch.job.key] \in {NoImage, redis[batch.job.key]}
       /\ batch.job.answered => batch.job.row = redis[batch.job.key]

(* The keys of an eager call that memory has nothing for are in the queue  *)
(* or the batch; once it has waited for a batch they are in the batch that *)
(* took the queue, and once it has waited for that one there are none.     *)
OnItsWay(j, mem, queue, b) ==
  LET missing == {k \in j.asked : mem[k] = NoImage}
  IN  /\ j.pc \in {"draining", "waiting"} => missing \subseteq queue \cup Toward(b)
      /\ j.pc = "draining" =>
           /\ j.passes = 0 => j.seen = j.asked \/ b # A!NoBatch \/ queue # {}
           /\ j.passes >= 1 => missing \subseteq Toward(b)
           /\ j.passes >= 2 => missing = {}
      /\ j.pc = "waiting" =>
           /\ j.passes >= 1
           /\ j.passes >= 2 => missing \subseteq Toward(b)
      /\ j.pc # "rereading"
      /\ j.pc = "done" => j.seen = j.asked

WaitInv ==
  /\ \A c \in Caller : call[c].on => started # "new"
  /\ \A c \in Eager : call[c].on /\ started = "on" => OnItsWay(call[c], memory, pending, batch)

ImagesInv == ImageTypes /\ PhaseInv /\ RowInv /\ WaitInv
(* While nothing has expired an entry lives and nothing is dropped.        *)
LEMMA StillLives ==
  ASSUME ImageFacts, NEW e \in Held, NEW t \in 0 .. MaxTime
  PROVE  A!Lives(e, t) <=> e # NoImage
BY DEF ImageFacts, A!Lives, Held, Lasting

LEMMA ImagesDiffer ==
  ASSUME ImageFacts, NEW e \in Lasting PROVE e # NoImage
BY DEF ImageFacts, Lasting, A!Entry, A!Time

LEMMA NothingDropped ==
  ASSUME ImageFacts, ImageTypes, NEW keys
  PROVE  A!Dropped(keys, now) = memory
<1>1. \A k \in Asset : A!Lives(memory[k], now) <=> memory[k] # NoImage
  BY StillLives DEF ImageTypes
<1> QED
  BY <1>1 DEF A!Dropped, ImageTypes

LEMMA NoReply == A!Idle.row \in Replies /\ DOMAIN A!Idle.row = {}
<1>1. A!Idle.row = [k \in {} |-> NoImage]
  BY DEF A!Idle
<1>2. [k \in {} |-> NoImage] \in [{} -> Held]
  BY DEF Held
<1>3. {} \in SUBSET Asset
  OBVIOUS
<1>4. [{} -> Held] \in {[keys -> Held] : keys \in SUBSET Asset}
  BY <1>3
<1> QED
  BY <1>1, <1>2, <1>4 DEF Replies

LEMMA NewCall ==
  ASSUME ImageFacts
  PROVE  A!Idle \in Calls
BY NoReply DEF Calls, A!Idle, ImageFacts

LEMMA NewBatch ==
  ASSUME NEW t \in Nat, NEW keys \in SUBSET Asset, now = t
  PROVE  /\ A!NoBatch \in Batches(t)
         /\ A!BatchOf(keys) \in Batches(t)
         /\ A!BatchOf(keys).phase \in {"list", "sort"}
         /\ A!BatchOf(keys).todo = keys
         /\ A!BatchOf(keys).job = NoJob
         /\ Toward(A!NoBatch) = {} /\ A!NoBatch.phase = "none"
         /\ A!NoBatch.job = NoJob
         /\ Toward(A!BatchOf(keys)) = keys
<1>1. A!NoBatch = [phase |-> "none", at |-> 0, todo |-> {}, list |-> FALSE, fetch |-> {},
                    found |-> {}, job |-> NoJob]
  BY DEF A!NoBatch
<1>2. PICK phase \in {"list", "sort"}, list \in BOOLEAN :
        A!BatchOf(keys) = [phase |-> phase, at |-> t, todo |-> keys, list |-> list, fetch |-> {},
                           found |-> {}, job |-> NoJob]
  <2> DEFINE phase == IF keys \subseteq Curated \cup Disabled THEN "sort" ELSE "list"
             list == listAt # A!Never
  <2>1. A!BatchOf(keys) = [A!NoBatch EXCEPT !.todo = keys, !.at = now, !.list = list,
                             !.phase = phase]
    BY DEF A!BatchOf
  <2>2. phase \in {"list", "sort"} /\ list \in BOOLEAN
    OBVIOUS
  <2> HIDE DEF phase, list
  <2>3. A!BatchOf(keys) = [phase |-> phase, at |-> t, todo |-> keys, list |-> list, fetch |-> {},
                           found |-> {}, job |-> NoJob]
    BY <1>1, <2>1
  <2> QED
    BY <2>2, <2>3
<1>3. A!NoBatch \in Batches(t) /\ A!BatchOf(keys) \in Batches(t)
  BY <1>1, <1>2 DEF Batches
<1> QED
  BY <1>1, <1>2, <1>3 DEF Toward

LEMMA Scheduled ==
  ASSUME ImageTypes, NEW keys \in SUBSET Asset, A!Schedules(keys)
  PROVE  /\ pending' \in SUBSET Asset /\ timer' \in BOOLEAN /\ pending \subseteq pending'
         /\ started = "on" => keys \subseteq pending'
BY DEF ImageTypes, A!Schedules

(* What a call becomes that looks: it has no reply and no pass behind it.  *)
Begun(j, asked, on) ==
  j \in Calls /\ j.asked = asked /\ j.on = on /\ j.passes = 0 /\ DOMAIN j.row = {}

PC == {"idle", "asking", "draining", "waiting", "rereading", "done"}

SeenCall(pc, asked, seen, on) ==
  [A!Idle EXCEPT !.pc = pc, !.asked = asked, !.seen = seen, !.on = on]
AskingCall(pc, asked, seen, at, on) ==
  [A!Idle EXCEPT !.pc = pc, !.asked = asked, !.seen = seen, !.at = at, !.on = on]

LEMMA AnswerBegun ==
  ASSUME ImageFacts, NEW pc \in PC, NEW asked \in SUBSET Asset, NEW seen \in SUBSET asked,
         NEW on \in BOOLEAN, NEW j, j = SeenCall(pc, asked, seen, on)
  PROVE  Begun(j, asked, on) /\ j.pc = pc /\ j.seen = seen
<1>1. j \in Calls
  BY NewCall DEF Calls, PC, SeenCall
<1>2. A!Idle.passes = 0 /\ DOMAIN A!Idle.row = {}
  BY NoReply DEF A!Idle
<1>3. /\ j.asked = asked /\ j.on = on /\ j.passes = A!Idle.passes /\ j.row = A!Idle.row
      /\ j.pc = pc /\ j.seen = seen
  BY NewCall DEF Calls, SeenCall
<1> QED
  BY <1>1, <1>2, <1>3 DEF Begun

LEMMA AskBegun ==
  ASSUME ImageFacts, NEW pc \in PC, NEW asked \in SUBSET Asset, NEW seen \in SUBSET asked,
         NEW at \in 0 .. MaxTime, NEW on \in BOOLEAN, NEW j, j = AskingCall(pc, asked, seen, at, on)
  PROVE  Begun(j, asked, on) /\ j.pc = pc /\ j.seen = seen
<1>1. j \in Calls
  BY NewCall DEF Calls, PC, AskingCall
<1>2. A!Idle.passes = 0 /\ DOMAIN A!Idle.row = {}
  BY NoReply DEF A!Idle
<1>3. /\ j.asked = asked /\ j.on = on /\ j.passes = A!Idle.passes /\ j.row = A!Idle.row
      /\ j.pc = pc /\ j.seen = seen
  BY NewCall DEF Calls, AskingCall
<1> QED
  BY <1>1, <1>2, <1>3 DEF Begun

Begins(c, asked, waiting, ended, on) ==
  \E j \in Calls :
    /\ call' = [call EXCEPT ![c] = j] /\ Begun(j, asked, on)
    /\ \/ j.pc = ended /\ j.seen = asked /\ \A k \in asked : memory[k] # NoImage
       \/ j.pc = waiting /\ \E k \in asked : memory[k] = NoImage

(* How a lookup begins: what memory has is seen, and for the rest Redis is *)
(* asked, unless there is no rest.                                         *)
LEMMA Looked ==
  ASSUME ImageFacts, ImageTypes, NEW c \in Caller, NEW asked \in SUBSET Asset,
         NEW waiting \in PC, NEW ended \in PC, NEW on \in BOOLEAN,
         A!Looks(c, asked, waiting, ended, on)
  PROVE  /\ memory' = memory
         /\ UNCHANGED <<started, redis, batch, notFound, listAt, now>>
         /\ pending' \in SUBSET Asset /\ timer' \in BOOLEAN /\ pending \subseteq pending'
         /\ Begins(c, asked, waiting, ended, on)
<1> DEFINE kept  == A!Dropped(asked, now)
           stale == {k \in asked : kept[k] # NoImage /\ kept[k].staleAt <= now}
           rest  == {k \in asked : kept[k] = NoImage}
<1>1. kept = memory
  BY NothingDropped
<1>2. /\ memory' = kept
      /\ UNCHANGED <<started, redis, batch, notFound, listAt, now>>
      /\ IF rest = {}
         THEN A!Answers(c, asked, kept, stale, ended, on)
         ELSE /\ A!Schedules(stale)
              /\ call' = [call EXCEPT ![c] = [A!Idle EXCEPT !.pc = waiting, !.asked = asked,
                            !.seen = asked \ rest, !.at = now, !.on = on]]
  BY DEF A!Looks
<1>3. now \in 0 .. MaxTime /\ 0 \in 0 .. MaxTime
  BY DEF ImageTypes, ImageFacts
<1> HIDE DEF kept
<1>4. CASE rest = {}
  <2>1. A!Answers(c, asked, kept, stale, ended, on)
    BY <1>2, <1>4
  <2> DEFINE seen == {k \in asked : kept[k] # NoImage}
  <2>2. seen = asked /\ \A k \in asked : kept[k] # NoImage
    BY <1>4
  <2>3. PICK keys \in SUBSET Asset : A!Schedules(keys)
    BY <2>1 DEF A!Answers
  <2> DEFINE j == SeenCall(ended, asked, seen, on)
  <2>4. call' = [call EXCEPT ![c] = j]
    BY <2>1 DEF A!Answers, SeenCall
  <2> HIDE DEF seen
  <2>5. j = SeenCall(ended, asked, seen, on)
    OBVIOUS
  <2> HIDE DEF j
  <2>6. seen \in SUBSET asked
    BY <2>2
  <2>7. Begun(j, asked, on) /\ j.pc = ended /\ j.seen = seen
    BY <2>5, <2>6, AnswerBegun
  <2>8. pending' \in SUBSET Asset /\ timer' \in BOOLEAN /\ pending \subseteq pending'
    BY <2>3, Scheduled
  <2> HIDE DEF stale, rest
  <2>9. Begins(c, asked, waiting, ended, on)
    BY <1>1, <2>2, <2>4, <2>7 DEF Begins, Begun
  <2> QED
    BY <1>1, <1>2, <2>8, <2>9
<1>5. CASE rest # {}
  <2>1. stale \in SUBSET Asset /\ A!Schedules(stale)
    BY <1>2, <1>5
  <2>2. pending' \in SUBSET Asset /\ timer' \in BOOLEAN /\ pending \subseteq pending'
    BY <2>1, Scheduled
  <2> DEFINE seen == asked \ rest
             j    == AskingCall(waiting, asked, seen, now, on)
  <2>3. call' = [call EXCEPT ![c] = j]
    BY <1>2, <1>5 DEF AskingCall
  <2>4. \E k \in asked : memory[k] = NoImage
    BY <1>1, <1>5
  <2>5. seen \in SUBSET asked
    OBVIOUS
  <2> HIDE DEF seen, stale, rest
  <2>6. j = AskingCall(waiting, asked, seen, now, on)
    OBVIOUS
  <2> HIDE DEF j
  <2>7. Begun(j, asked, on) /\ j.pc = waiting
    BY <1>3, <2>5, <2>6, AskBegun
  <2>8. Begins(c, asked, waiting, ended, on)
    BY <2>3, <2>4, <2>7 DEF Begins, Begun
  <2> QED
    BY <1>1, <1>2, <2>2, <2>8
<1> QED
  BY <1>4, <1>5

LEMMA ReplyType ==
  ASSUME NEW r \in Replies
  PROVE  /\ DOMAIN r \in SUBSET Asset /\ r \in [DOMAIN r -> Held]
BY DEF Replies

PutsReply(c) ==
  \E held \in SUBSET (DOMAIN call[c].row) :
    /\ \A k \in held : call[c].row[k] # NoImage
    /\ memory' = [k \in Asset |-> IF k \in held THEN call[c].row[k] ELSE memory[k]]

Returns(c) ==
  \E j \in Calls :
    /\ call' = [call EXCEPT ![c] = j] /\ Begun(j, call[c].asked, call[c].on)
    /\ j.pc = IF call[c].pc = "asking" THEN A!AfterFirst(c) ELSE "done"
    /\ j.seen \subseteq call[c].asked /\ \A k \in j.seen : memory'[k] # NoImage
    /\ started = "on" => call[c].asked \ j.seen \subseteq pending'

(* A reply of Redis is put into memory; what the caller still has no entry *)
(* for is queued.                                                          *)
LEMMA Replied ==
  ASSUME ImageFacts, ImageTypes, NEW c \in Caller, A!Received(c)
  PROVE  /\ UNCHANGED <<started, redis, batch, notFound, listAt, now>>
         /\ pending' \in SUBSET Asset /\ timer' \in BOOLEAN /\ pending \subseteq pending'
         /\ PutsReply(c)
         /\ call[c].pc \in {"asking", "rereading"}
         /\ Returns(c)
<1> DEFINE rest  == call[c].asked \ call[c].seen
           told   == [k \in rest |-> IF A!Lives(call[c].row[k], now) THEN call[c].row[k] ELSE NoImage]
           held  == {k \in rest : told[k] # NoImage}
           view  == [k \in call[c].asked |-> IF k \in rest THEN told[k] ELSE memory[k]]
           stale == {k \in held : told[k].staleAt <= call[c].at}
           pc    == IF call[c].pc = "asking" THEN A!AfterFirst(c) ELSE "done"
           seen  == {k \in call[c].asked : view[k] # NoImage}
           keys  == stale \cup {k \in call[c].asked : k \notin seen \/ A!WantsCurated(k, view[k])}
<1>1. /\ call[c].pc \in {"asking", "rereading"} /\ DOMAIN call[c].row = rest
      /\ memory' = [k \in Asset |-> IF k \in held THEN told[k] ELSE memory[k]]
      /\ A!Answers(c, call[c].asked, view, stale, pc, call[c].on)
      /\ UNCHANGED <<started, redis, batch, notFound, listAt, now>>
  BY DEF A!Received
<1>2. /\ call[c].asked \in SUBSET Asset /\ call[c].on \in BOOLEAN /\ call[c].row \in Replies
      /\ now \in 0 .. MaxTime
  BY DEF ImageTypes, Calls
<1>3. call[c].row \in [rest -> Held]
  BY <1>1, <1>2, ReplyType
<1>4. \A k \in rest : told[k] = call[c].row[k]
  BY <1>2, <1>3, StillLives
<1> DEFINE new == SeenCall(pc, call[c].asked, seen, call[c].on)
<1>5. A!Schedules(keys) /\ call' = [call EXCEPT ![c] = new]
  BY <1>1 DEF A!Answers, SeenCall
<1>6. keys \in SUBSET Asset /\ call[c].asked \ seen \subseteq keys
  BY <1>2
<1>7. memory \in [Asset -> Held]
  BY DEF ImageTypes
<1>8. /\ held \in SUBSET (DOMAIN call[c].row) /\ \A k \in held : call[c].row[k] # NoImage
      /\ memory' = [k \in Asset |-> IF k \in held THEN call[c].row[k] ELSE memory[k]]
  <2>1. held \in SUBSET rest /\ rest \in SUBSET Asset
    BY <1>2
  <2>2. \A k \in held : told[k] = call[c].row[k] /\ told[k] # NoImage
    BY <1>4
  <2> HIDE DEF held, told, rest
  <2> QED
    BY <1>1, <2>1, <2>2
<1>9. seen \in SUBSET call[c].asked /\ \A k \in seen : memory'[k] # NoImage
  <2>1. ASSUME NEW k \in seen PROVE memory'[k] # NoImage
    <3>1. k \in Asset /\ view[k] # NoImage
      BY <1>2, <2>1
    <3>2. CASE k \in rest
      <4>1. told[k] # NoImage /\ k \in held
        BY <3>1, <3>2
      <4> QED
        BY <1>1, <3>1, <4>1
    <3>3. CASE k \notin rest
      <4>1. memory[k] # NoImage /\ k \notin held
        BY <3>1, <3>3
      <4> QED
        BY <1>1, <3>1, <4>1
    <3> QED
      BY <3>2, <3>3
  <2> QED
    BY <2>1
<1>10. /\ pending' \in SUBSET Asset /\ timer' \in BOOLEAN /\ pending \subseteq pending'
       /\ started = "on" => call[c].asked \ seen \subseteq pending'
  BY <1>5, <1>6, Scheduled
<1>11. PutsReply(c)
  BY <1>8 DEF PutsReply
<1>12. pc = IF call[c].pc = "asking" THEN A!AfterFirst(c) ELSE "done"
  OBVIOUS
<1>13. pc \in PC
  BY DEF A!AfterFirst, PC
<1> HIDE DEF keys, seen, pc, stale, view, held, told, rest
<1>14. new = SeenCall(pc, call[c].asked, seen, call[c].on)
  OBVIOUS
<1> HIDE DEF new
<1>15. Begun(new, call[c].asked, call[c].on) /\ new.pc = pc /\ new.seen = seen
  BY <1>2, <1>9, <1>13, <1>14, AnswerBegun
<1>16. Returns(c)
  BY <1>5, <1>9, <1>10, <1>15, <1>12 DEF Returns, Begun
<1> QED
  BY <1>1, <1>10, <1>11, <1>16

(* The queue becomes a batch, unless one runs.                             *)
LEMMA Taken ==
  ASSUME ImageFacts, ImageTypes, A!Flushed
  PROVE  /\ pending' \in SUBSET Asset /\ batch' \in Batches(now)
         /\ batch' # batch => batch = A!NoBatch /\ pending' = {} /\ batch' = A!BatchOf(pending)
         /\ batch' = batch => pending' = pending
         /\ Toward(batch) \subseteq Toward(batch')
         /\ pending \subseteq pending' \cup Toward(batch')
         /\ batch # A!NoBatch \/ pending # {} => batch' # A!NoBatch \/ pending' # {}
         /\ batch = A!NoBatch => pending' = {}
<1>1. now \in Nat /\ pending \in SUBSET Asset /\ batch \in Batches(now)
  BY DEF ImageTypes, ImageFacts
<1>2. CASE batch # A!NoBatch \/ pending = {}
  BY <1>1, <1>2 DEF A!Flushed
<1>3. CASE batch = A!NoBatch /\ pending # {}
  <2>1. pending' = {} /\ batch' = A!BatchOf(pending)
    BY <1>3 DEF A!Flushed
  <2>2. A!BatchOf(pending) # A!NoBatch
    BY <1>1, NewBatch
  <2> QED
    BY <1>1, <1>3, <2>1, <2>2, NewBatch
<1> QED
  BY <1>2, <1>3

(* Types, by the step.                                                    *)
LEMMA EntryType ==
  ASSUME ImageFacts, ImageTypes, NEW k, NEW e
  PROVE  /\ [kind |-> "image", staleAt |-> batch.at + Positive, until |-> batch.at + Usable] \in Lasting
         /\ A!KeptAs(k, e) \in Lasting
<1>1. batch.at \in 0 .. MaxTime
  BY DEF ImageTypes, Batches, ImageFacts
<1> QED
  BY <1>1 DEF A!KeptAs, Lasting, ImageFacts

LEMMA JobType ==
  ASSUME NEW j \in Jobs
  PROVE  /\ j.key \in Asset /\ j.step \in {"fall", "write", "read"}
         /\ j.step = "write" => j.entry \in Lasting
         /\ j.step = "read" => j.row \in Held /\ j.answered \in BOOLEAN
BY DEF Jobs

LEMMA JobMade ==
  ASSUME NEW k \in Asset, NEW e \in Lasting, NEW b \in BOOLEAN, NEW r \in Held
  PROVE  /\ [key |-> k, step |-> "fall"] \in Jobs
         /\ [key |-> k, step |-> "write", entry |-> e] \in Jobs
         /\ [key |-> k, step |-> "read", answered |-> b, row |-> r] \in Jobs
BY DEF Jobs

LEMMA TypesOfLooks ==
  ASSUME ImageFacts, ImageTypes, NEW c \in Caller, NEW asked \in SUBSET Asset,
         NEW waiting \in {"asking", "rereading"}, NEW ended \in {"draining", "done"},
         NEW on \in BOOLEAN, A!Looks(c, asked, waiting, ended, on)
  PROVE  ImageTypes'
<1> waiting \in PC /\ ended \in PC
  BY DEF PC
<1>1. call' \in [Caller -> Calls]
  <2>1. call \in [Caller -> Calls] /\ now \in 0 .. MaxTime
    BY DEF ImageTypes
  <2>2. Begins(c, asked, waiting, ended, on)
    BY Looked
  <2> QED
    BY <2>1, <2>2 DEF Begins
<1>2. /\ memory' = memory
      /\ UNCHANGED <<started, redis, batch, notFound, listAt, now>>
      /\ pending' \in SUBSET Asset /\ timer' \in BOOLEAN
  BY Looked
<1> QED
  BY <1>1, <1>2 DEF ImageTypes

LEMMA TypesOfCallers ==
  ASSUME ImageFacts, ImageTypes, NEW c \in Caller,
         \/ \E asked \in Lookup : A!Asks(c, asked)
         \/ A!Served(c) \/ A!Received(c) \/ A!Leaves(c) \/ A!Drains(c) \/ A!Drained(c)
  PROVE  ImageTypes'
<1>1. call \in [Caller -> Calls] /\ call[c] \in Calls /\ now \in 0 .. MaxTime
  BY DEF ImageTypes
<1>2. A!AfterFirst(c) \in {"draining", "done"}
  BY DEF A!AfterFirst
<1>3. CASE \E asked \in Lookup : A!Asks(c, asked)
  <2>1. PICK asked \in SUBSET Asset : A!Looks(c, asked, "asking", A!AfterFirst(c), started = "on")
    BY <1>3 DEF A!Asks, ImageFacts
  <2>2. (started = "on") \in BOOLEAN
    OBVIOUS
  <2> QED
    BY <1>2, <2>1, <2>2, TypesOfLooks
<1>4. CASE A!Served(c)
  <2>1. PICK told : /\ told \in Replies
                   /\ call' = [call EXCEPT ![c].row = told]
    <3> DEFINE rest == call[c].asked \ call[c].seen
               Row(answered) == [k \in rest |-> IF answered THEN redis[k] ELSE NoImage]
    <3>1. PICK answered \in BOOLEAN : call' = [call EXCEPT ![c].row = Row(answered)]
      BY <1>4 DEF A!Served
    <3>2. rest \in SUBSET Asset
      BY <1>1 DEF Calls
    <3>3. redis \in [Asset -> Held] /\ NoImage \in Held
      BY DEF ImageTypes, Held
    <3>4. Row(answered) \in [rest -> Held]
      BY <3>2, <3>3
    <3> HIDE DEF Row, rest
    <3> QED
      BY <3>1, <3>2, <3>4 DEF Replies
  <2>2. call' \in [Caller -> Calls]
    <3>1. [call[c] EXCEPT !.row = told] \in Calls
      BY <1>1, <2>1 DEF Calls
    <3> QED
      BY <1>1, <2>1, <3>1
  <2> QED
    BY <1>4, <2>2 DEF A!Served, ImageTypes
<1>5. CASE A!Received(c)
  <2>1. call[c].asked \in SUBSET Asset /\ call[c].on \in BOOLEAN /\ call[c].row \in Replies
    BY <1>1 DEF Calls
  <2>2. Returns(c)
    BY <1>5, Replied
  <2>3. call' \in [Caller -> Calls]
    BY <1>1, <2>2 DEF Returns
  <2>4. memory' \in [Asset -> Held]
    <3>1. PutsReply(c)
      BY <1>5, Replied
    <3>2. call[c].row \in [DOMAIN call[c].row -> Held] /\ memory \in [Asset -> Held]
      BY <2>1, ReplyType DEF ImageTypes
    <3> QED
      BY <3>1, <3>2 DEF PutsReply
  <2> QED
    BY <1>5, <2>3, <2>4, Replied DEF ImageTypes
<1>6. CASE A!Leaves(c)
  <2>1. call' \in [Caller -> Calls]
    BY <1>1, <1>6, NewCall DEF A!Leaves
  <2> QED
    BY <1>6, <2>1 DEF A!Leaves, ImageTypes
<1>7. CASE A!Drains(c)
  <2>1. call' \in [Caller -> Calls]
    <3> DEFINE passes == call[c].passes + 1
    <3>1. passes \in Nat
      BY <1>1 DEF Calls
    <3>2. call' = [call EXCEPT ![c] = [call[c] EXCEPT !.pc = "waiting", !.passes = passes]]
      BY <1>7, <1>1 DEF A!Drains, Calls
    <3> HIDE DEF passes
    <3>3. [call[c] EXCEPT !.pc = "waiting", !.passes = passes] \in Calls
      BY <1>1, <3>1 DEF Calls
    <3> QED
      BY <1>1, <3>2, <3>3
  <2> QED
    BY <1>7, <2>1, Taken DEF A!Drains, ImageTypes
<1>8. CASE A!Drained(c)
  <2>1. CASE call[c].passes = 0
    <3>1. [call[c] EXCEPT !.pc = "done"] \in Calls
      BY <1>1 DEF Calls
    <3>2. call' \in [Caller -> Calls]
      BY <1>1, <1>8, <2>1, <3>1 DEF A!Drained
    <3> QED
      BY <1>8, <2>1, <3>2 DEF A!Drained, ImageTypes
  <2>2. CASE call[c].passes # 0
    <3>1. A!Looks(c, call[c].asked, "rereading", "done", call[c].on)
      BY <1>8, <2>2 DEF A!Drained
    <3>2. call[c].asked \in SUBSET Asset /\ call[c].on \in BOOLEAN
      BY <1>1 DEF Calls
    <3> QED
      BY <3>1, <3>2, TypesOfLooks
  <2> QED
    BY <2>1, <2>2
<1> QED
  BY <1>3, <1>4, <1>5, <1>6, <1>7, <1>8

LEMMA TypesOfBatch ==
  ASSUME ImageFacts, ImageTypes,
         \/ A!ListLoads \/ A!Fetches \/ A!ReadsRow \/ A!FallsBack \/ A!Writes
         \/ \E k \in Asset : A!Sorts(k) \/ A!Keeps(k)
  PROVE  ImageTypes'
<1>1. /\ batch \in Batches(now) /\ now \in 0 .. MaxTime /\ now \in Nat /\ Usable \in Nat
      /\ MaxTime \in Nat /\ memory \in [Asset -> Held] /\ redis \in [Asset -> Held]
  BY DEF ImageTypes, ImageFacts
<1>2. CASE A!ListLoads
  <2>1. listAt' \in A!Time \cup {A!Never}
    BY <1>1, <1>2 DEF A!ListLoads, ImageTypes, A!Time
  <2>2. batch' \in Batches(now)
    <3> DEFINE list == listAt' # A!Never
    <3>1. batch' = [batch EXCEPT !.phase = "sort", !.at = now, !.list = list]
      BY <1>2 DEF A!ListLoads
    <3>2. list \in BOOLEAN /\ now \in 0 .. now
      BY <1>1
    <3> HIDE DEF list
    <3>3. [batch EXCEPT !.phase = "sort", !.at = now] \in Batches(now)
      BY <1>1, <3>2 DEF Batches
    <3>4. batch' = [[batch EXCEPT !.phase = "sort", !.at = now] EXCEPT !.list = list]
      BY <3>1
    <3> QED
      BY <3>2, <3>3, <3>4 DEF Batches
  <2> QED
    BY <1>2, <2>1, <2>2 DEF A!ListLoads, ImageTypes
<1>3. CASE A!Fetches
  <2>1. notFound' \in [Id -> A!Time \cup {A!Never}]
    <3>1. notFound \in [Id -> A!Time \cup {A!Never}] /\ now + NotFoundTtl \in A!Time
      BY <1>1 DEF ImageTypes, A!Time, ImageFacts
    <3>2. PICK missing : notFound' = [i \in Id |-> IF i \in missing THEN now + NotFoundTtl ELSE notFound[i]]
      BY <1>3 DEF A!Fetches
    <3> QED
      BY <3>1, <3>2
  <2>2. batch' \in Batches(now)
    <3>1. PICK found \in SUBSET Asset : batch' = [batch EXCEPT !.phase = "keep", !.found = found]
      <4>1. PICK ids : batch' = [batch EXCEPT !.phase = "keep",
                                   !.found = {k \in batch.fetch : IdOf[k] \in ids}]
        BY <1>3 DEF A!Fetches
      <4> DEFINE found == {k \in batch.fetch : IdOf[k] \in ids}
      <4>2. found \in SUBSET Asset
        BY <1>1 DEF Batches
      <4> HIDE DEF found
      <4>3. batch' = [batch EXCEPT !.phase = "keep", !.found = found]
        BY <4>1 DEF found
      <4> QED
        BY <4>2, <4>3
    <3> QED
      BY <1>1, <3>1 DEF Batches
  <2> QED
    BY <1>3, <2>1, <2>2 DEF A!Fetches, ImageTypes
<1>4. CASE A!ReadsRow
  <2>1. batch.job \in Jobs
    BY <1>1, <1>4 DEF A!ReadsRow, Batches
  <2>2. PICK answered \in BOOLEAN, told \in Held :
           batch' = [batch EXCEPT !.job = [key |-> batch.job.key, step |-> "read",
                                           answered |-> answered, row |-> told]]
    <3> DEFINE k == batch.job.key
               Row(answered) == IF answered /\ A!Lives(redis[k], now) THEN redis[k] ELSE NoImage
    <3>1. PICK answered \in BOOLEAN :
            batch' = [batch EXCEPT !.job = [key |-> k, step |-> "read", answered |-> answered,
                                            row |-> Row(answered)]]
      BY <1>4 DEF A!ReadsRow
    <3>2. Row(answered) \in Held
      BY <1>1, <2>1, JobType DEF Held
    <3> HIDE DEF Row
    <3> QED
      BY <3>1, <3>2
  <2>3. [key |-> batch.job.key, step |-> "read", answered |-> answered, row |-> told] \in Jobs
    BY <2>1, JobType DEF Jobs
  <2>4. batch' \in Batches(now)
    BY <1>1, <2>2, <2>3 DEF Batches
  <2> QED
    BY <1>4, <2>4 DEF A!ReadsRow, ImageTypes
<1>5. CASE A!FallsBack
  <2>1. batch.job \in Jobs /\ batch.job.key \in Asset
    BY <1>1, <1>5, JobType DEF A!FallsBack, Batches
  <2>2. PICK e \in Lasting :
          /\ memory' = [memory EXCEPT ![batch.job.key] = e]
          /\ batch' = [batch EXCEPT !.job = [key |-> batch.job.key, step |-> "write", entry |-> e]]
    <3> DEFINE e == A!KeptAs(batch.job.key, IF batch.job.step = "read" THEN batch.job.row
                                            ELSE memory[batch.job.key])
    <3>1. e \in Lasting
      BY EntryType
    <3>2. /\ memory' = [memory EXCEPT ![batch.job.key] = e]
          /\ batch' = [batch EXCEPT !.job = [key |-> batch.job.key, step |-> "write", entry |-> e]]
      BY <1>5 DEF A!FallsBack
    <3> HIDE DEF e
    <3> QED
      BY <3>1, <3>2
  <2>3. memory' \in [Asset -> Held]
    BY <1>1, <2>1, <2>2 DEF Held
  <2>4. [key |-> batch.job.key, step |-> "write", entry |-> e] \in Jobs
    BY <2>1 DEF Jobs
  <2>5. batch' \in Batches(now)
    BY <1>1, <2>2, <2>4 DEF Batches
  <2> QED
    BY <1>5, <2>3, <2>5 DEF A!FallsBack, ImageTypes
<1>6. CASE A!Writes
  <2>1. batch.job \in Jobs /\ batch.job.step = "write"
    BY <1>1, <1>6 DEF A!Writes, Batches
  <2>2. batch.job.key \in Asset /\ batch.job.entry \in Lasting
    BY <2>1, JobType
  <2>3. redis' \in [Asset -> Held]
    <3>1. redis' = redis \/ redis' = [redis EXCEPT ![batch.job.key] = batch.job.entry]
      BY <1>6 DEF A!Writes
    <3> QED
      BY <1>1, <2>2, <3>1 DEF Held
  <2>4. batch' \in Batches(now)
    BY <1>1, <1>6 DEF A!Writes, Batches
  <2> QED
    BY <1>6, <2>3, <2>4 DEF A!Writes, ImageTypes
<1>7. CASE \E k \in Asset : A!Sorts(k)
  <2>1. PICK k \in Asset : A!Sorts(k)
    BY <1>7
  <2>2. memory' \in [Asset -> Held]
    <3>1. PICK e : e \in Held /\ memory' = [memory EXCEPT ![k] = e]
      <4> DEFINE e == IF A!Lives(memory[k], batch.at) THEN memory[k] ELSE NoImage
      <4>1. e \in Held
        BY <1>1 DEF Held
      <4>2. memory' = [memory EXCEPT ![k] = e]
        BY <2>1 DEF A!Sorts
      <4> HIDE DEF e
      <4> QED
        BY <4>1, <4>2
    <3> QED
      BY <1>1, <3>1
  <2>3. batch' \in Batches(now)
    <3> DEFINE rest == [batch EXCEPT !.todo = @ \ {k}]
    <3>1. rest \in Batches(now)
      BY <1>1 DEF Batches
    <3>2. \/ batch' = rest \/ batch' = [rest EXCEPT !.fetch = @ \cup {k}]
          \/ batch' = [rest EXCEPT !.job = [key |-> k, step |-> "fall"]]
      BY <2>1 DEF A!Sorts
    <3> HIDE DEF rest
    <3>3. [key |-> k, step |-> "fall"] \in Jobs
      BY DEF Jobs
    <3> QED
      BY <3>1, <3>2, <3>3 DEF Batches
  <2> QED
    BY <2>1, <2>2, <2>3 DEF A!Sorts, ImageTypes
<1>8. CASE \E k \in Asset : A!Keeps(k)
  <2>1. PICK k \in Asset : A!Keeps(k)
    BY <1>8
  <2>2. CASE k \in batch.found
    <3>1. PICK e \in Lasting : /\ memory' = [memory EXCEPT ![k] = e]
                               /\ batch' = [batch EXCEPT !.fetch = @ \ {k},
                                              !.job = [key |-> k, step |-> "write", entry |-> e]]
      <4> DEFINE e == [kind |-> "image", staleAt |-> batch.at + Positive, until |-> batch.at + Usable]
      <4>1. e \in Lasting
        BY EntryType
      <4>2. /\ memory' = [memory EXCEPT ![k] = e]
            /\ batch' = [batch EXCEPT !.fetch = @ \ {k},
                           !.job = [key |-> k, step |-> "write", entry |-> e]]
        BY <2>1, <2>2 DEF A!Keeps
      <4> HIDE DEF e
      <4> QED
        BY <4>1, <4>2
    <3>2. memory' \in [Asset -> Held]
      BY <1>1, <3>1 DEF Held
    <3>3. [key |-> k, step |-> "write", entry |-> e] \in Jobs
      BY DEF Jobs
    <3>4. batch' \in Batches(now)
      BY <1>1, <3>1, <3>3 DEF Batches
    <3> QED
      BY <2>1, <3>2, <3>4 DEF A!Keeps, ImageTypes
  <2>3. CASE k \notin batch.found
    <3>1. [key |-> k, step |-> "fall"] \in Jobs
      BY DEF Jobs
    <3>2. batch' = [batch EXCEPT !.fetch = @ \ {k}, !.job = [key |-> k, step |-> "fall"]]
      BY <2>1, <2>3 DEF A!Keeps
    <3>3. batch' \in Batches(now)
      BY <1>1, <3>1, <3>2 DEF Batches
    <3> QED
      BY <2>1, <2>3, <3>3 DEF A!Keeps, ImageTypes
  <2> QED
    BY <2>2, <2>3
<1> QED
  BY <1>2, <1>3, <1>4, <1>5, <1>6, <1>7, <1>8

LEMMA TypesStep ==
  ASSUME ImageFacts, ImageTypes, [A!Next]_(A!vars)
  PROVE  ImageTypes'
<1>1. CASE UNCHANGED A!vars
  BY <1>1 DEF A!vars, ImageTypes
<1>2. CASE \E c \in Caller : A!Drains(c) \/ A!Drained(c)
  BY <1>2, TypesOfCallers
<1>3. CASE \/ \E c \in Caller, asked \in Lookup : A!Asks(c, asked)
           \/ \E c \in Caller : A!Served(c) \/ A!Received(c) \/ A!Leaves(c)
  BY <1>3, TypesOfCallers
<1>4. CASE \E keys \in Lookup : A!Preload(keys)
  <2>1. PICK keys \in Lookup : A!Preload(keys)
    BY <1>4
  <2>2. A!Dropped(keys \ pending, now) = memory
    BY NothingDropped
  <2>3. \E wanted \in SUBSET Asset : A!Schedules(wanted)
    BY <2>1 DEF A!Preload, ImageFacts
  <2> QED
    BY <2>1, <2>2, <2>3, Scheduled DEF A!Preload, ImageTypes
<1>5. CASE A!Start \/ A!Stop
  BY <1>5 DEF A!Start, A!Stop, ImageTypes, ImageFacts
<1>6. CASE A!Refresh
  BY <1>6, Scheduled DEF A!Refresh, ImageTypes, ImageFacts
<1>7. CASE A!TimerFires
  BY <1>7, Taken DEF A!TimerFires, ImageTypes
<1>8. CASE A!Tick
  <2>1. now' = now + 1 /\ now < MaxTime /\ now \in Nat /\ MaxTime \in Nat
    BY <1>8 DEF A!Tick, ImageTypes, ImageFacts
  <2>2. batch' \in Batches(now')
    BY <1>8, <2>1 DEF A!Tick, ImageTypes, Batches
  <2> QED
    BY <1>8, <2>1, <2>2 DEF A!Tick, ImageTypes
<1>9. CASE A!BatchEnds
  <2>1. now \in Nat /\ pending \in SUBSET Asset /\ call \in [Caller -> Calls]
    BY DEF ImageTypes
  <2>2. batch' \in Batches(now)
    BY <1>9, <2>1, NewBatch DEF A!BatchEnds
  <2>3. call' \in [Caller -> Calls]
    <3>1. \A c \in Caller : [call[c] EXCEPT !.pc = "draining"] \in Calls
      BY <2>1 DEF Calls
    <3> QED
      BY <1>9, <2>1, <3>1 DEF A!BatchEnds, A!Woken
  <2> QED
    BY <1>9, <2>2, <2>3 DEF A!BatchEnds, ImageTypes
<1> QED
  BY <1>1, <1>2, <1>3, <1>4, <1>5, <1>6, <1>7, <1>8, <1>9, TypesOfBatch DEF A!Next

(* What no step of another key or of a caller disturbs.                    *)
LEMMA MemoryStays ==
  ASSUME ImageFacts, ImageTypes, [A!Next]_(A!vars), NEW k \in Asset, memory[k] # NoImage
  PROVE  memory'[k] # NoImage
<1>1. memory \in [Asset -> Held] /\ now \in 0 .. MaxTime /\ batch \in Batches(now)
  BY DEF ImageTypes
<1>2. CASE memory' = memory
  BY <1>2
<1>3. CASE \E c \in Caller : A!Received(c)
  <2>1. PICK c \in Caller : PutsReply(c)
    BY <1>3, Replied
  <2> QED
    BY <1>1, <2>1 DEF PutsReply
<1>4. CASE \E c \in Caller : A!Drained(c)
  <2>1. PICK c \in Caller : A!Drained(c)
    BY <1>4
  <2>2. CASE A!Looks(c, call[c].asked, "rereading", "done", call[c].on)
    BY <2>2, NothingDropped DEF A!Looks
  <2> QED
    BY <1>2, <2>1, <2>2 DEF A!Drained
<1>5. CASE \E c \in Caller, asked \in Lookup : A!Asks(c, asked)
  BY <1>5, NothingDropped DEF A!Asks, A!Looks
<1>6. CASE \E keys \in Lookup : A!Preload(keys)
  BY <1>6, NothingDropped DEF A!Preload
<1>7. CASE \E i \in Asset : A!Sorts(i)
  <2>1. PICK i \in Asset : A!Sorts(i)
    BY <1>7
  <2>2. batch.at \in 0 .. MaxTime
    BY <1>1 DEF Batches, ImageFacts
  <2>3. A!Lives(memory[i], batch.at) <=> memory[i] # NoImage
    BY <1>1, <2>2, StillLives
  <2> QED
    BY <1>1, <2>1, <2>3 DEF A!Sorts
<1>8. CASE \E i \in Asset : A!Keeps(i)
  <2>1. PICK i \in Asset, e \in Lasting : memory' = memory \/ memory' = [memory EXCEPT ![i] = e]
    BY <1>8, EntryType DEF A!Keeps
  <2> QED
    BY <1>1, <2>1, ImagesDiffer
<1>9. CASE A!FallsBack
  <2>1. \E i, e : e \in Lasting /\ memory' = [memory EXCEPT ![i] = e]
    BY <1>9, EntryType DEF A!FallsBack
  <2> QED
    BY <1>1, <2>1, ImagesDiffer
<1> QED
  BY <1>2, <1>3, <1>4, <1>5, <1>6, <1>7, <1>8, <1>9
  DEF A!Next, A!vars, A!Drains, A!Served, A!Leaves, A!Start, A!Stop, A!Refresh, A!TimerFires,
      A!Tick, A!ListLoads, A!Fetches, A!ReadsRow, A!Writes, A!BatchEnds

(* The batch while a caller is at work.                                    *)
LEMMA BatchOfCallers ==
  ASSUME ImageFacts, ImageTypes, NEW c \in Caller,
         \/ \E asked \in Lookup : A!Asks(c, asked)
         \/ A!Served(c) \/ A!Received(c) \/ A!Leaves(c) \/ A!Drained(c)
  PROVE  UNCHANGED <<started, batch, redis>>
BY DEF A!Asks, A!Looks, A!Served, A!Received, A!Leaves, A!Drained

LEMMA NoBatchEmpty == A!NoBatch.phase = "none" /\ A!NoBatch.job = NoJob /\ A!NoBatch.todo = {}
BY DEF A!NoBatch

LEMMA PhaseOfNew ==
  ASSUME ImageFacts, ImageTypes, PhaseInv,
         \/ batch' = A!NoBatch \/ batch' = A!BatchOf(pending)
  PROVE  PhaseInv'
<1>1. now \in Nat /\ pending \in SUBSET Asset
  BY DEF ImageTypes
<1> QED
  BY <1>1, NewBatch, NoBatchEmpty DEF PhaseInv

LEMMA BatchKeeps ==
  ASSUME ImageFacts, ImageTypes, NEW k \in Asset, A!Keeps(k)
  PROVE  /\ batch.phase = "keep" /\ batch.job = NoJob /\ k \in batch.fetch
         /\ batch'.phase = "keep" /\ batch'.todo = batch.todo /\ batch'.fetch = batch.fetch \ {k}
         /\ batch'.job # NoJob /\ batch'.job.key = k
         /\ k \in batch.found => memory'[k] # NoImage
         /\ k \notin batch.found => batch'.job.step = "fall" /\ memory' = memory
<1> DEFINE fetch == batch.fetch \ {k}
           image == [kind |-> "image", staleAt |-> batch.at + Positive, until |-> batch.at + Usable]
           fall  == [key |-> k, step |-> "fall"]
           write == [key |-> k, step |-> "write", entry |-> image]
<1>1. batch \in Batches(now) /\ memory \in [Asset -> Held]
  BY DEF ImageTypes
<1>2. batch.phase = "keep" /\ batch.job = NoJob /\ k \in batch.fetch
  BY DEF A!Keeps
<1>3. image \in Lasting
  BY EntryType
<1>4. fall \in Jobs /\ write \in Jobs
  BY <1>3 DEF Jobs
<1>5. /\ fall.key = k /\ fall.step = "fall" /\ write.key = k
      /\ fall # NoJob /\ write # NoJob
  BY <1>4 DEF ImageFacts
<1>6. CASE k \in batch.found
  <2>1. memory' = [memory EXCEPT ![k] = image] /\ batch' = [batch EXCEPT !.fetch = fetch, !.job = write]
    BY <1>6 DEF A!Keeps
  <2> HIDE DEF image, fetch, write, fall
  <2>2. memory'[k] # NoImage
    BY <1>1, <1>3, <2>1, ImagesDiffer
  <2>3. /\ batch'.phase = batch.phase /\ batch'.todo = batch.todo /\ batch'.fetch = fetch
        /\ batch'.job = write
    BY <1>1, <2>1 DEF Batches
  <2> QED
    BY <1>2, <1>5, <1>6, <2>2, <2>3 DEF fetch
<1>7. CASE k \notin batch.found
  <2>1. memory' = memory /\ batch' = [batch EXCEPT !.fetch = fetch, !.job = fall]
    BY <1>7 DEF A!Keeps
  <2> HIDE DEF image, fetch, write, fall
  <2>3. /\ batch'.phase = batch.phase /\ batch'.todo = batch.todo /\ batch'.fetch = fetch
        /\ batch'.job = fall
    BY <1>1, <2>1 DEF Batches
  <2> QED
    BY <1>2, <1>5, <1>7, <2>1, <2>3 DEF fetch
<1> QED
  BY <1>6, <1>7

LEMMA PhaseStep ==
  ASSUME ImageFacts, ImageTypes, PhaseInv, [A!Next]_(A!vars)
  PROVE  PhaseInv'
<1>1. /\ memory \in [Asset -> Held] /\ batch \in Batches(now)
      /\ batch.job # NoJob => batch.job \in Jobs /\ batch.job.key \in Asset
  BY JobType DEF ImageTypes, Batches
<1>2. \A k \in Asset : memory[k] # NoImage => memory'[k] # NoImage
  BY MemoryStays
<1>3. CASE batch' = batch
  BY <1>1, <1>2, <1>3 DEF PhaseInv
<1>4. CASE A!ListLoads
  <2>1. batch'.phase = "sort" /\ batch'.job = batch.job
    BY <1>1, <1>4 DEF A!ListLoads, Batches
  <2> QED
    BY <1>1, <1>2, <2>1 DEF PhaseInv
<1>5. CASE A!Fetches
  <2>1. batch'.phase = "keep" /\ batch'.job = NoJob /\ batch'.todo = {}
    BY <1>1, <1>5 DEF A!Fetches, Batches
  <2> QED
    BY <2>1 DEF PhaseInv
<1>6. CASE A!ReadsRow
  <2>1. batch'.phase = batch.phase /\ batch'.todo = batch.todo /\ batch'.job.step = "read"
    BY <1>1, <1>6 DEF A!ReadsRow, Batches
  <2> QED
    BY <1>6, <2>1, NoBatchEmpty DEF PhaseInv, A!ReadsRow
<1>7. CASE A!FallsBack
  <2>1. /\ batch'.phase = batch.phase /\ batch'.todo = batch.todo
        /\ batch'.job.key = batch.job.key /\ batch.job # NoJob
    BY <1>1, <1>7 DEF A!FallsBack, Batches
  <2>2. memory'[batch.job.key] # NoImage
    BY <1>1, <1>7, EntryType, ImagesDiffer DEF A!FallsBack
  <2> QED
    BY <2>1, <2>2, NoBatchEmpty DEF PhaseInv
<1>8. CASE A!Writes
  <2>1. batch'.phase = batch.phase /\ batch'.todo = batch.todo /\ batch'.job = NoJob
    BY <1>1, <1>8 DEF A!Writes, Batches
  <2> QED
    BY <1>8, <2>1, NoBatchEmpty DEF PhaseInv, A!Writes
<1>9. CASE \E k \in Asset : A!Sorts(k)
  <2>1. PICK k \in Asset : A!Sorts(k)
    BY <1>9
  <2>2. batch'.phase = "sort" /\ (batch'.job = NoJob \/ batch'.job.step = "fall")
    BY <1>1, <2>1 DEF A!Sorts, Batches
  <2> QED
    BY <2>2 DEF PhaseInv
<1>10. CASE \E k \in Asset : A!Keeps(k)
  <2>1. PICK k \in Asset : A!Keeps(k)
    BY <1>10
  <2> QED
    BY <2>1, BatchKeeps DEF PhaseInv
<1>11. CASE A!TimerFires \/ \E c \in Caller : A!Drains(c)
  <2>1. batch' = batch \/ batch' = A!BatchOf(pending)
    BY <1>11 DEF A!TimerFires, A!Drains, A!Flushed
  <2> QED
    BY <1>3, <2>1, PhaseOfNew
<1>12. CASE A!BatchEnds
  BY <1>12, PhaseOfNew DEF A!BatchEnds
<1> QED
  BY <1>3, <1>4, <1>5, <1>6, <1>7, <1>8, <1>9, <1>10, <1>11, <1>12, BatchOfCallers
  DEF A!Next, A!vars, A!Start, A!Stop, A!Refresh, A!Tick, A!Preload

(* A reply is what Redis holds when it is asked, or nothing.               *)
LEMMA RepliesStep ==
  ASSUME ImageFacts, ImageTypes, [A!Next]_(A!vars), NEW c \in Caller
  PROVE  \A k \in DOMAIN call'[c].row :
           \/ k \in DOMAIN call[c].row /\ call'[c].row[k] = call[c].row[k]
           \/ call'[c].row[k] \in {NoImage, redis[k]}
<1>1. call \in [Caller -> Calls]
  BY DEF ImageTypes
<1>2. CASE call'[c].row = call[c].row \/ DOMAIN call'[c].row = {}
  BY <1>2
<1>3. CASE \E d \in Caller : A!Served(d)
  <2>1. PICK d \in Caller : A!Served(d)
    BY <1>3
  <2>2. CASE d = c
    <3> DEFINE rest == call[c].asked \ call[c].seen
               Row(answered) == [k \in rest |-> IF answered THEN redis[k] ELSE NoImage]
    <3>1. PICK answered \in BOOLEAN : call'[c].row = Row(answered)
      BY <1>1, <2>1, <2>2 DEF A!Served, Calls
    <3> QED
      BY <3>1
  <2>3. CASE d # c
    BY <1>1, <1>2, <2>1, <2>3 DEF A!Served
  <2> QED
    BY <2>2, <2>3
<1>4. CASE \E d \in Caller : A!Received(d)
  <2>1. PICK d \in Caller : Returns(d)
    BY <1>4, Replied
  <2> QED
    BY <1>1, <1>2, <2>1 DEF Returns, Begun
<1>5. ASSUME NEW d \in Caller, NEW asked \in SUBSET Asset, NEW waiting \in PC, NEW ended \in PC,
             NEW on \in BOOLEAN, A!Looks(d, asked, waiting, ended, on)
      PROVE  call'[c].row = call[c].row \/ DOMAIN call'[c].row = {}
  <2>1. Begins(d, asked, waiting, ended, on)
    BY <1>5, Looked
  <2> QED
    BY <1>1, <2>1 DEF Begins, Begun
<1>6. CASE \E d \in Caller, asked \in Lookup : A!Asks(d, asked)
  <2>1. PICK d \in Caller, asked \in SUBSET Asset :
          A!Looks(d, asked, "asking", A!AfterFirst(d), started = "on")
    BY <1>6 DEF A!Asks, ImageFacts
  <2>2. "asking" \in PC /\ A!AfterFirst(d) \in PC /\ (started = "on") \in BOOLEAN
    BY DEF PC, A!AfterFirst
  <2> QED
    BY <1>2, <1>5, <2>1, <2>2
<1>7. CASE \E d \in Caller : A!Drained(d)
  <2>1. PICK d \in Caller : A!Drained(d)
    BY <1>7
  <2>2. CASE call[d].passes = 0
    BY <1>1, <1>2, <2>1, <2>2 DEF A!Drained, Calls
  <2>3. CASE call[d].passes # 0
    <3>1. A!Looks(d, call[d].asked, "rereading", "done", call[d].on)
      BY <2>1, <2>3 DEF A!Drained
    <3>2. /\ call[d].asked \in SUBSET Asset /\ call[d].on \in BOOLEAN
          /\ "rereading" \in PC /\ "done" \in PC
      BY <1>1 DEF Calls, PC
    <3> QED
      BY <1>2, <1>5, <3>1, <3>2
  <2> QED
    BY <2>2, <2>3
<1>8. CASE \E d \in Caller : A!Leaves(d)
  BY <1>1, <1>2, <1>8, NoReply DEF A!Leaves
<1>9. CASE \E d \in Caller : A!Drains(d)
  BY <1>1, <1>2, <1>9 DEF A!Drains, Calls
<1>10. CASE A!BatchEnds
  BY <1>1, <1>2, <1>10 DEF A!BatchEnds, A!Woken, Calls
<1>11. CASE call' = call
  BY <1>2, <1>11
<1> QED
  BY <1>3, <1>4, <1>6, <1>7, <1>8, <1>9, <1>10, <1>11
  DEF A!Next, A!vars, A!Start, A!Stop, A!Refresh, A!Tick, A!Preload, A!TimerFires, A!ListLoads,
      A!Fetches, A!ReadsRow, A!FallsBack, A!Writes, A!Sorts, A!Keeps

LEMMA AgreesStep ==
  ASSUME ImageFacts, ImageTypes, [A!Next]_(A!vars), NEW k \in Asset, Agrees(k),
         redis'[k] = redis[k]
  PROVE  Agrees(k)'
<1> SUFFICES ASSUME NEW c \in Caller, k \in DOMAIN call'[c].row
             PROVE  call'[c].row[k] \in {NoImage, redis[k]}
  BY DEF Agrees
<1> QED
  BY RepliesStep DEF Agrees

(* Memory has nothing for a key, or what it had, or what a reply said.     *)
LEMMA MemoryOfReader ==
  ASSUME ImageFacts, ImageTypes, [A!Next]_(A!vars), NEW k \in Asset, Agrees(k),
         memory[k] \in {NoImage, redis[k]}, batch.job # NoJob, ~A!FallsBack
  PROVE  memory'[k] \in {NoImage, redis[k]}
<1>1. memory \in [Asset -> Held]
  BY DEF ImageTypes
<1>2. CASE memory' = memory
  BY <1>2
<1>3. CASE \E c \in Caller : A!Received(c)
  <2>1. PICK c \in Caller : PutsReply(c)
    BY <1>3, Replied
  <2> QED
    BY <1>1, <2>1 DEF PutsReply, Agrees
<1>4. CASE \E c \in Caller : A!Drained(c)
  <2>1. PICK c \in Caller : A!Drained(c)
    BY <1>4
  <2>2. CASE A!Looks(c, call[c].asked, "rereading", "done", call[c].on)
    BY <1>2, <2>2, NothingDropped DEF A!Looks
  <2> QED
    BY <1>2, <2>1, <2>2 DEF A!Drained
<1>5. CASE \E c \in Caller, asked \in Lookup : A!Asks(c, asked)
  BY <1>2, <1>5, NothingDropped DEF A!Asks, A!Looks
<1>6. CASE \E keys \in Lookup : A!Preload(keys)
  BY <1>2, <1>6, NothingDropped DEF A!Preload
<1>7. ~(\E i \in Asset : A!Sorts(i) \/ A!Keeps(i))
  BY DEF A!Sorts, A!Keeps
<1> QED
  BY <1>2, <1>3, <1>4, <1>5, <1>6, <1>7
  DEF A!Next, A!vars, A!Drains, A!Served, A!Leaves, A!Start, A!Stop, A!Refresh, A!TimerFires,
      A!Tick, A!ListLoads, A!Fetches, A!ReadsRow, A!Writes, A!BatchEnds

(* The job of a batch is kept but by the steps of the job itself.          *)
LEMMA JobStays ==
  ASSUME ImageFacts, ImageTypes, [A!Next]_(A!vars)
  PROVE  \/ batch'.job = batch.job
         \/ batch'.job = NoJob
         \/ batch'.job.step \in {"fall", "write"}
         \/ batch'.job.step = "read" /\ A!ReadsRow
<1>1. batch \in Batches(now)
  BY DEF ImageTypes
<1>2. CASE A!ListLoads \/ A!Fetches
  BY <1>1, <1>2 DEF A!ListLoads, A!Fetches, Batches
<1>3. CASE A!ReadsRow
  BY <1>1, <1>3 DEF A!ReadsRow, Batches
<1>4. CASE A!FallsBack \/ A!Writes
  BY <1>1, <1>4 DEF A!FallsBack, A!Writes, Batches
<1>5. CASE \E k \in Asset : A!Sorts(k)
  BY <1>1, <1>5 DEF A!Sorts, Batches
<1>6. CASE \E k \in Asset : A!Keeps(k)
  <2>1. PICK k \in Asset : A!Keeps(k)
    BY <1>6
  <2>2. CASE k \in batch.found
    <3> DEFINE image == [kind |-> "image", staleAt |-> batch.at + Positive, until |-> batch.at + Usable]
               fetch == batch.fetch \ {k}
               write == [key |-> k, step |-> "write", entry |-> image]
    <3>1. batch' = [batch EXCEPT !.fetch = fetch, !.job = write] /\ write.step = "write"
      BY <2>1, <2>2 DEF A!Keeps
    <3> HIDE DEF fetch, write
    <3> QED
      BY <1>1, <3>1 DEF Batches
  <2> QED
    BY <2>1, <2>2, BatchKeeps
<1>7. CASE A!TimerFires \/ A!BatchEnds \/ \E c \in Caller : A!Drains(c)
  <2>1. batch' = batch \/ batch' = A!NoBatch \/ batch' = A!BatchOf(pending)
    BY <1>7 DEF A!TimerFires, A!Drains, A!Flushed, A!BatchEnds
  <2> QED
    BY <2>1, NoBatchEmpty, NewBatch DEF ImageTypes
<1>8. CASE batch' = batch
  BY <1>8
<1> QED
  BY <1>2, <1>3, <1>4, <1>5, <1>6, <1>7, <1>8, BatchOfCallers
  DEF A!Next, A!vars, A!Start, A!Stop, A!Refresh, A!Tick, A!Preload

LEMMA RowStep ==
  ASSUME ImageFacts, ImageTypes, PhaseInv, RowInv, [A!Next]_(A!vars)
  PROVE  RowInv'
<1>1. /\ memory \in [Asset -> Held] /\ redis \in [Asset -> Held] /\ batch \in Batches(now)
      /\ batch.job # NoJob => batch.job \in Jobs /\ batch.job.key \in Asset
      /\ now \in 0 .. MaxTime
  BY JobType DEF ImageTypes, Batches
<1>2. ASSUME NEW k \in Asset, ~(batch.job # NoJob /\ batch.job.step = "write" /\ batch.job.key = k)
      PROVE  redis'[k] = redis[k]
  <2>1. CASE A!Writes
    BY <1>1, <1>2, <2>1 DEF A!Writes
  <2>2. CASE redis' = redis
    BY <2>2
  <2> QED
    BY <2>1, <2>2, BatchOfCallers
    DEF A!Next, A!vars, A!Drains, A!Start, A!Stop, A!Refresh, A!TimerFires, A!Preload,
        A!Tick, A!ListLoads, A!Fetches, A!ReadsRow, A!FallsBack, A!BatchEnds, A!Sorts, A!Keeps
<1>3. \A k \in Asset : memory'[k] = NoImage => Agrees(k)'
  <2> SUFFICES ASSUME NEW k \in Asset, memory'[k] = NoImage PROVE Agrees(k)'
    OBVIOUS
  <2>1. memory[k] = NoImage
    BY MemoryStays
  <2>2. Agrees(k) /\ redis'[k] = redis[k]
    BY <1>2, <2>1 DEF RowInv, PhaseInv
  <2> QED
    BY <2>2, AgreesStep
<1>4. ASSUME batch'.job # NoJob, batch'.job.step = "read", ~A!ReadsRow
      PROVE  /\ batch'.job = batch.job /\ ~A!FallsBack
             /\ redis'[batch.job.key] = redis[batch.job.key]
  <2>1. batch'.job = batch.job
    BY <1>4, JobStays
  <2>2. ~A!FallsBack
    BY <1>1, <1>4 DEF A!FallsBack, Batches
  <2> QED
    BY <1>1, <1>2, <1>4, <2>1, <2>2
<1>5. ASSUME batch'.job # NoJob, batch'.job.step = "read", ~A!ReadsRow
      PROVE  /\ Agrees(batch.job.key)' /\ memory'[batch.job.key] \in {NoImage, redis[batch.job.key]}
             /\ batch.job.answered => batch.job.row = redis[batch.job.key]
  <2> DEFINE k == batch.job.key
  <2>1. /\ batch'.job = batch.job /\ ~A!FallsBack /\ redis'[k] = redis[k]
    BY <1>4, <1>5
  <2>2. batch.job # NoJob /\ batch.job.step = "read" /\ k \in Asset
    BY <1>1, <1>5, <2>1
  <2>3. /\ Agrees(k) /\ memory[k] \in {NoImage, redis[k]}
        /\ batch.job.answered => batch.job.row = redis[k]
    BY <2>2 DEF RowInv
  <2>4. Agrees(k)'
    <3> HIDE DEF k
    <3>1. \A i \in Asset : Agrees(i) /\ redis'[i] = redis[i] =>
            \A c \in Caller : i \in DOMAIN call'[c].row => call'[c].row[i] \in {NoImage, redis'[i]}
      BY AgreesStep DEF Agrees
    <3>2. k' = k
      BY <2>1 DEF k
    <3>3. \A c \in Caller : k \in DOMAIN call'[c].row => call'[c].row[k] \in {NoImage, redis'[k]}
      BY <2>1, <2>2, <2>3, <3>1
    <3> QED
      BY <3>2, <3>3 DEF Agrees
  <2>5. memory'[k] \in {NoImage, redis[k]}
    BY <2>1, <2>2, <2>3, MemoryOfReader
  <2> QED
    BY <2>3, <2>4, <2>5
<1>6. CASE A!ReadsRow
  <2> DEFINE k == batch.job.key
  <2>1. /\ k \in Asset /\ memory[k] = NoImage /\ memory' = memory /\ redis' = redis /\ call' = call
        /\ batch.job # NoJob
    BY <1>1, <1>6 DEF A!ReadsRow
  <2>2. PICK answered \in BOOLEAN :
          batch'.job = [key |-> k, step |-> "read", answered |-> answered,
                        row |-> IF answered /\ A!Lives(redis[k], now) THEN redis[k] ELSE NoImage]
    BY <1>1, <1>6 DEF A!ReadsRow, Batches
  <2>3. A!Lives(redis[k], now) <=> redis[k] # NoImage
    BY <1>1, <2>1, StillLives
  <2>4. batch'.job.key = k /\ (batch'.job.answered => batch'.job.row = redis[k])
    BY <2>2, <2>3
  <2>5. Agrees(k) /\ memory'[k] \in {NoImage, redis'[k]}
    BY <2>1 DEF RowInv
  <2> QED
    BY <1>3, <2>1, <2>4, <2>5 DEF RowInv, Agrees
<1>7. CASE ~A!ReadsRow
  BY <1>3, <1>4, <1>5, <1>7 DEF RowInv, Agrees
<1> QED
  BY <1>6, <1>7

LEMMA KeptStep ==
  ASSUME ImageFacts, ImageTypes, RowInv
  PROVE  A!ImagesKept
<1> SUFFICES ASSUME A!FallsBack, ~(batch.job.step = "read" /\ ~batch.job.answered),
                    NEW k \in Asset, A!Real(A!Known(k))
             PROVE  A!Real(A!Known(k)')
  BY DEF A!ImagesKept
<1> DEFINE key  == batch.job.key
           held == IF batch.job.step = "read" THEN batch.job.row ELSE memory[key]
<1>1. /\ memory \in [Asset -> Held] /\ redis \in [Asset -> Held] /\ now \in 0 .. MaxTime
      /\ batch.job \in Jobs /\ key \in Asset /\ batch.job # NoJob
      /\ batch.job.step = "read" \/ (batch.job.step = "fall" /\ memory[key] # NoImage)
  BY JobType DEF ImageTypes, Batches, A!FallsBack
<1>2. memory' = [memory EXCEPT ![key] = A!KeptAs(key, held)] /\ redis' = redis /\ now' = now
  BY DEF A!FallsBack
<1>3. CASE k # key
  BY <1>1, <1>2, <1>3 DEF A!Known
<1>4. CASE k = key
  <2>1. A!Real(held)
    <3>1. CASE batch.job.step = "read"
      <4>1. batch.job.row = redis[key] /\ memory[key] \in {NoImage, redis[key]}
        BY <1>1, <3>1 DEF RowInv
      <4>2. A!Known(key) = redis[key] \/ A!Known(key) = NoImage
        BY <4>1 DEF A!Known
      <4> QED
        BY <1>4, <3>1, <4>1, <4>2 DEF A!Real
    <3>2. CASE batch.job.step # "read"
      BY <1>1, <1>4, <3>2 DEF A!Known
    <3> QED
      BY <3>1, <3>2
  <2> HIDE DEF held
  <2>2. A!KeptAs(key, held).kind = "kept" /\ A!KeptAs(key, held) # NoImage
    BY <2>1, EntryType, ImagesDiffer DEF A!KeptAs
  <2>3. memory'[k] = A!KeptAs(key, held)
    BY <1>1, <1>2, <1>4
  <2>4. A!Known(k)' = memory'[k]
    BY <2>2, <2>3 DEF A!Known
  <2> QED
    BY <2>2, <2>3, <2>4 DEF A!Real
<1> QED
  BY <1>3, <1>4

(* What a step of others leaves of the keys that a call waits for.         *)
Carries ==
  /\ \A k \in Asset : memory'[k] = NoImage =>
       /\ memory[k] = NoImage
       /\ k \in Toward(batch) => k \in Toward(batch')
       /\ k \in pending => k \in pending' \cup Toward(batch')
KeepsWork == batch # A!NoBatch \/ pending # {} => batch' # A!NoBatch \/ pending' # {}

LEMMA OthersWait ==
  ASSUME NEW j \in Calls, OnItsWay(j, memory, pending, batch), Carries, j.pc # "draining" \/ KeepsWork
  PROVE  OnItsWay(j, memory', pending', batch')
<1> DEFINE missing == {k \in j.asked : memory[k] = NoImage}
           left    == {k \in j.asked : memory'[k] = NoImage}
<1>1. left \subseteq missing
  BY DEF Carries, Calls
<1>2. missing \subseteq Toward(batch) => left \subseteq Toward(batch')
  BY DEF Carries, Calls
<1>3. missing \subseteq pending \cup Toward(batch) => left \subseteq pending' \cup Toward(batch')
  BY DEF Carries, Calls
<1>4. j.pc = "draining" /\ j.passes = 0 =>
         j.seen = j.asked \/ batch' # A!NoBatch \/ pending' # {}
  BY DEF OnItsWay, KeepsWork
<1>5. /\ j.pc \in {"draining", "waiting"} => missing \subseteq pending \cup Toward(batch)
      /\ j.pc = "draining" =>
           /\ j.passes >= 1 => missing \subseteq Toward(batch)
           /\ j.passes >= 2 => missing = {}
      /\ j.pc = "waiting" =>
           /\ j.passes >= 1
           /\ j.passes >= 2 => missing \subseteq Toward(batch)
      /\ j.pc # "rereading"
      /\ j.pc = "done" => j.seen = j.asked
  BY DEF OnItsWay
<1> QED
  <2> HIDE DEF missing
  <2>1. missing = {} => left = {}
    BY <1>1
  <2>2. /\ j.pc \in {"draining", "waiting"} => left \subseteq pending' \cup Toward(batch')
        /\ j.pc = "draining" =>
           /\ j.passes = 0 => j.seen = j.asked \/ batch' # A!NoBatch \/ pending' # {}
           /\ j.passes >= 1 => left \subseteq Toward(batch')
           /\ j.passes >= 2 => left = {}
        /\ j.pc = "waiting" =>
           /\ j.passes >= 1
           /\ j.passes >= 2 => left \subseteq Toward(batch')
        /\ j.pc # "rereading"
        /\ j.pc = "done" => j.seen = j.asked
    <3> HIDE DEF left
    <3> QED BY <1>2, <1>3, <1>4, <1>5, <2>1
  <2> QED
    BY <2>2 DEF OnItsWay

(* No step but Stop, which ends the service, drops a key.                  *)
LEMMA CarriesOn ==
  ASSUME ImageFacts, ImageTypes, PhaseInv, [A!Next]_(A!vars), ~A!Stop
  PROVE  Carries
<1>1. /\ memory \in [Asset -> Held] /\ batch \in Batches(now) /\ pending \in SUBSET Asset
      /\ batch.job # NoJob => batch.job \in Jobs /\ batch.job.key \in Asset
      /\ now \in Nat
  BY JobType DEF ImageTypes, Batches
<1>2. \A k \in Asset : memory'[k] = NoImage => memory[k] = NoImage
  BY MemoryStays
<1>3. CASE batch' = batch /\ pending \subseteq pending'
  BY <1>2, <1>3 DEF Carries
<1>4. CASE A!ListLoads
  <2>1. Toward(batch') = Toward(batch) /\ pending' = pending
    BY <1>1, <1>4 DEF A!ListLoads, Toward, Batches
  <2> QED
    BY <1>2, <2>1 DEF Carries
<1>5. CASE A!Fetches
  <2>1. Toward(batch') = Toward(batch) /\ pending' = pending
    BY <1>1, <1>5 DEF A!Fetches, Toward, Batches
  <2> QED
    BY <1>2, <2>1 DEF Carries
<1>6. CASE A!ReadsRow
  <2> DEFINE k == batch.job.key
             told(answered) == IF answered /\ A!Lives(redis[k], now) THEN redis[k] ELSE NoImage
  <2>1. PICK answered \in BOOLEAN :
          batch'.job = [key |-> k, step |-> "read", answered |-> answered, row |-> told(answered)]
    BY <1>1, <1>6 DEF A!ReadsRow, Batches
  <2>5. told(answered) \in Held /\ k \in Asset
    BY <1>1, <1>6 DEF A!ReadsRow, ImageTypes, Held
  <2> HIDE DEF told
  <2>2. batch'.job \in Jobs /\ batch'.job.key = batch.job.key
    BY <2>1, <2>5 DEF Jobs
  <2>3. batch'.job # NoJob /\ batch.job # NoJob
    BY <1>6, <2>2 DEF A!ReadsRow, ImageFacts
  <2>4. batch'.todo = batch.todo /\ batch'.fetch = batch.fetch /\ pending' = pending
    BY <1>1, <1>6 DEF A!ReadsRow, Batches
  <2> QED
    BY <1>2, <2>2, <2>3, <2>4 DEF Carries, Toward
<1>7. CASE A!FallsBack
  <2>1. batch'.todo = batch.todo /\ batch'.fetch = batch.fetch /\ pending' = pending
    BY <1>1, <1>7 DEF A!FallsBack, Batches
  <2>2. memory'[batch.job.key] # NoImage
    BY <1>1, <1>7, EntryType, ImagesDiffer DEF A!FallsBack
  <2> QED
    BY <1>2, <2>1, <2>2 DEF Carries, Toward
<1>8. CASE A!Writes
  <2>1. batch'.todo = batch.todo /\ batch'.fetch = batch.fetch /\ pending' = pending
    BY <1>1, <1>8 DEF A!Writes, Batches
  <2>2. memory'[batch.job.key] # NoImage
    BY <1>8 DEF A!Writes, PhaseInv
  <2> QED
    BY <1>2, <2>1, <2>2 DEF Carries, Toward
<1>9. CASE \E k \in Asset : A!Sorts(k)
  <2>1. PICK k \in Asset : A!Sorts(k)
    BY <1>9
  <2>2. batch.job = NoJob /\ pending' = pending
    BY <2>1 DEF A!Sorts
  <2>3. \/ memory[k] # NoImage /\ memory'[k] # NoImage
        \/ batch'.fetch = batch.fetch \cup {k}
        \/ batch'.job # NoJob /\ batch'.job.key = k
    <3> DEFINE kept == IF A!Lives(memory[k], batch.at) THEN memory[k] ELSE NoImage
               fall  == [key |-> k, step |-> "fall"]
    <3>1. fall \in Jobs /\ fall.key = k /\ fall # NoJob
      BY DEF Jobs, ImageFacts
    <3>2. kept # NoImage => memory[k] # NoImage
      OBVIOUS
    <3> DEFINE rest == [batch EXCEPT !.todo = @ \ {k}]
    <3>3. \/ kept # NoImage
          \/ batch' = [rest EXCEPT !.fetch = @ \cup {k}]
          \/ batch' = [rest EXCEPT !.job = fall]
      BY <2>1 DEF A!Sorts
    <3>4. memory' = [memory EXCEPT ![k] = kept]
      BY <2>1 DEF A!Sorts
    <3> HIDE DEF fall
    <3> QED
      BY <1>1, <3>1, <3>2, <3>3, <3>4 DEF Batches
  <2>4. batch'.todo = batch.todo \ {k} /\ batch.fetch \subseteq batch'.fetch
    <3> DEFINE todo == batch.todo \ {k}
               rest == [batch EXCEPT !.todo = todo]
               fall == [key |-> k, step |-> "fall"]
    <3>2. \/ batch' = rest
          \/ batch' = [rest EXCEPT !.fetch = @ \cup {k}]
          \/ batch' = [rest EXCEPT !.job = fall]
      BY <2>1 DEF A!Sorts
    <3> HIDE DEF fall, todo
    <3>3. batch'.todo = todo /\ batch.fetch \subseteq batch'.fetch
      BY <1>1, <3>2 DEF Batches
    <3> QED
      BY <3>3 DEF todo
  <2> QED
    BY <1>2, <2>2, <2>3, <2>4 DEF Carries, Toward
<1>10. CASE \E k \in Asset : A!Keeps(k)
  <2>1. PICK k \in Asset : A!Keeps(k)
    BY <1>10
  <2>2. pending' = pending
    BY <2>1 DEF A!Keeps
  <2> QED
    BY <1>2, <2>1, <2>2, BatchKeeps DEF Carries, Toward
<1>11. CASE A!TimerFires \/ \E c \in Caller : A!Drains(c)
  BY <1>2, <1>11, Taken DEF A!TimerFires, A!Drains, Carries
<1>12. CASE A!BatchEnds
  <2>1. Toward(batch) = {}
    BY <1>12 DEF A!BatchEnds, PhaseInv, Toward
  <2>2. pending \subseteq Toward(batch')
    BY <1>1, <1>12, NewBatch DEF A!BatchEnds
  <2> QED
    BY <1>2, <2>1, <2>2 DEF Carries
<1>13. CASE \E c \in Caller, asked \in Lookup : A!Asks(c, asked)
  <2>1. PICK c \in Caller, asked \in SUBSET Asset :
          A!Looks(c, asked, "asking", A!AfterFirst(c), started = "on")
    BY <1>13 DEF A!Asks, ImageFacts
  <2>2. "asking" \in PC /\ A!AfterFirst(c) \in PC /\ (started = "on") \in BOOLEAN
    BY DEF PC, A!AfterFirst
  <2>3. batch' = batch /\ pending \subseteq pending'
    BY <2>1, <2>2, Looked
  <2> QED
    BY <1>3, <2>3
<1>14. CASE \E c \in Caller : A!Received(c)
  <2>1. PICK c \in Caller : A!Received(c)
    BY <1>14
  <2>2. batch' = batch /\ pending \subseteq pending'
    BY <2>1, Replied
  <2> QED
    BY <1>3, <2>2
<1>15. CASE \E c \in Caller : A!Drained(c)
  <2>1. PICK c \in Caller : A!Drained(c)
    BY <1>15
  <2>2. CASE call[c].passes = 0
    BY <1>3, <2>1, <2>2 DEF A!Drained
  <2>3. CASE call[c].passes # 0
    <3>1. A!Looks(c, call[c].asked, "rereading", "done", call[c].on)
      BY <2>1, <2>3 DEF A!Drained
    <3>2. /\ call[c].asked \in SUBSET Asset /\ call[c].on \in BOOLEAN
          /\ "rereading" \in PC /\ "done" \in PC
      BY DEF ImageTypes, Calls, PC
    <3>3. batch' = batch /\ pending \subseteq pending'
      BY <3>1, <3>2, Looked
    <3> QED
      BY <1>3, <3>3
  <2> QED
    BY <2>2, <2>3
<1>16. CASE A!Refresh \/ A!Start \/ \E keys \in Lookup : A!Preload(keys)
  BY <1>3, <1>16 DEF A!Refresh, A!Start, A!Preload, A!Schedules
<1>17. CASE A!Tick \/ UNCHANGED A!vars \/ \E c \in Caller : A!Served(c) \/ A!Leaves(c)
  BY <1>3, <1>17 DEF A!Tick, A!vars, A!Served, A!Leaves
<1> QED
  BY <1>4, <1>5, <1>6, <1>7, <1>8, <1>9, <1>10, <1>11, <1>12, <1>13, <1>14, <1>15, <1>16, <1>17
  DEF A!Next

(* A step of an eager call takes it on.                                    *)
LEMMA OneWaits ==
  ASSUME ImageFacts, ImagesInv, [A!Next]_(A!vars), ~A!Stop, NEW c \in Eager,
         call'[c] # call[c], call'[c].on, started' = "on"
  PROVE  OnItsWay(call'[c], memory', pending', batch')
<1>1. /\ c \in Caller /\ call \in [Caller -> Calls] /\ call[c] \in Calls
      /\ MaxPasses \in Nat /\ MaxPasses >= 2
      /\ batch \in Batches(now) /\ now \in Nat /\ pending \in SUBSET Asset
  BY DEF ImagesInv, ImageTypes, ImageFacts
<1>2. ImageTypes /\ PhaseInv /\ WaitInv
  BY DEF ImagesInv
<1>3. Carries
  BY <1>2, CarriesOn
<1>4. started = "on" \/ A!Start
  BY <1>2 DEF A!Next, A!vars, A!Drains, A!Drained, A!Looks, A!Asks, A!Served, A!Received, A!Leaves,
    A!Preload, A!Refresh, A!TimerFires, A!Tick, A!ListLoads, A!Fetches, A!ReadsRow, A!FallsBack,
    A!Writes, A!BatchEnds, A!Sorts, A!Keeps
<1>5. started = "on"
  BY <1>4 DEF A!Start
<1>6. call[c].on => OnItsWay(call[c], memory, pending, batch)
  BY <1>2, <1>5 DEF WaitInv
<1>7. CASE A!Served(c)
  <2>1. PICK told : call' = [call EXCEPT ![c].row = told]
    BY <1>7 DEF A!Served
  <2>2. call'[c] = [call[c] EXCEPT !.row = told]
    BY <1>1, <2>1
  <2>3. /\ call'[c].pc = call[c].pc /\ call'[c].on = call[c].on
        /\ call[c].pc \in {"asking", "rereading"}
    BY <1>1, <1>7, <2>2 DEF Calls, A!Served
  <2>4. call[c].pc = "asking"
    BY <1>6, <2>3 DEF OnItsWay
  <2> QED
    BY <2>3, <2>4 DEF OnItsWay
<1>8. CASE A!Leaves(c)
  <2>1. call'[c] = A!Idle
    BY <1>1, <1>8 DEF A!Leaves
  <2> QED
    BY <2>1 DEF A!Idle
<1>9. CASE A!Received(c)
  <2>1. Returns(c) /\ UNCHANGED started /\ call[c].pc \in {"asking", "rereading"}
    BY <1>1, <1>2, <1>9, Replied
  <2>2. PICK j \in Calls :
          /\ call' = [call EXCEPT ![c] = j] /\ Begun(j, call[c].asked, call[c].on)
          /\ j.pc = IF call[c].pc = "asking" THEN A!AfterFirst(c) ELSE "done"
          /\ j.seen \subseteq call[c].asked /\ \A k \in j.seen : memory'[k] # NoImage
          /\ call[c].asked \ j.seen \subseteq pending'
    BY <1>5, <2>1 DEF Returns
  <2>3. call'[c] = j /\ j.asked = call[c].asked /\ j.on = call[c].on /\ j.passes = 0
    BY <1>1, <2>2 DEF Begun
  <2>4. call[c].pc = "asking"
    BY <1>6, <2>1, <2>3 DEF OnItsWay
  <2>5. j.pc = "draining"
    BY <2>2, <2>4 DEF A!AfterFirst
  <2>6. {k \in j.asked : memory'[k] = NoImage} \subseteq pending'
    BY <2>2, <2>3
  <2>7. {k \in j.asked : memory'[k] = NoImage} = {} \/ pending' # {}
    BY <2>6
  <2>8. j.seen = j.asked \/ pending' # {}
    BY <2>2, <2>3
  <2> QED
    BY <2>3, <2>5, <2>6, <2>8 DEF OnItsWay
<1>10. CASE \E asked \in Lookup : A!Asks(c, asked)
  <2>1. PICK asked \in SUBSET Asset : A!Looks(c, asked, "asking", A!AfterFirst(c), started = "on")
    BY <1>10 DEF A!Asks, ImageFacts
  <2>2. A!AfterFirst(c) = "draining"
    BY DEF A!AfterFirst
  <2>3. "asking" \in PC /\ "draining" \in PC /\ (started = "on") \in BOOLEAN
    BY DEF PC
  <2>4. Begins(c, asked, "asking", "draining", started = "on") /\ memory' = memory
    BY <1>1, <1>2, <2>1, <2>2, <2>3, Looked
  <2>5. PICK j \in Calls :
          /\ call' = [call EXCEPT ![c] = j] /\ j.asked = asked /\ j.passes = 0
          /\ \/ j.pc = "draining" /\ j.seen = asked /\ \A k \in asked : memory[k] # NoImage
             \/ j.pc = "asking"
    BY <2>4 DEF Begins, Begun
  <2>6. call'[c] = j
    BY <1>1, <2>5
  <2> QED
    BY <2>4, <2>5, <2>6 DEF OnItsWay
<1>11. CASE A!Drains(c)
  <2> DEFINE passes == call[c].passes + 1
             j      == [call[c] EXCEPT !.pc = "waiting", !.passes = passes]
  <2>1. call'[c] = j /\ call[c].pc = "draining" /\ A!Flushed /\ memory' = memory
    BY <1>1, <1>11 DEF A!Drains, Calls
  <2>2. j.pc = "waiting" /\ j.passes = passes /\ j.asked = call[c].asked /\ j.on = call[c].on
    BY <1>1 DEF Calls
  <2>3. call[c].passes \in Nat
    BY <1>1 DEF Calls
  <2> DEFINE missing == {k \in call[c].asked : memory[k] = NoImage}
  <2>4. /\ missing \subseteq pending \cup Toward(batch)
        /\ call[c].passes >= 1 => missing \subseteq Toward(batch)
    BY <1>6, <2>1, <2>2, <2>3 DEF OnItsWay
  <2>5. /\ Toward(batch) \subseteq Toward(batch')
        /\ pending \subseteq pending' \cup Toward(batch')
    BY <1>2, <2>1, Taken
  <2> HIDE DEF j
  <2>6. {k \in j.asked : memory'[k] = NoImage} = missing
    BY <2>1, <2>2
  <2> HIDE DEF missing
  <2> QED
    BY <2>1, <2>2, <2>3, <2>4, <2>5, <2>6 DEF OnItsWay
<1>12. CASE A!Drained(c)
  <2> DEFINE missing == {k \in call[c].asked : memory[k] = NoImage}
  <2>1. /\ call[c].pc = "draining" /\ call[c].passes \in Nat
        /\ (batch = A!NoBatch /\ pending = {}) \/ call[c].passes >= MaxPasses
    BY <1>1, <1>12 DEF A!Drained, A!KeepsDraining, A!HasWork, Calls
  <2>2. CASE call[c].passes = 0
    <3>1. call'[c] = [call[c] EXCEPT !.pc = "done"]
      BY <1>1, <1>12, <2>2 DEF A!Drained
    <3>2. /\ call'[c].pc = "done" /\ call'[c].seen = call[c].seen /\ call'[c].asked = call[c].asked
          /\ call'[c].on = call[c].on
      BY <1>1, <3>1 DEF Calls
    <3>3. call[c].seen = call[c].asked
      BY <1>1, <1>6, <2>1, <2>2, <3>2 DEF OnItsWay
    <3> QED
      BY <3>2, <3>3 DEF OnItsWay
  <2>3. CASE call[c].passes # 0
    <3>1. A!Looks(c, call[c].asked, "rereading", "done", call[c].on)
      BY <1>12, <2>3 DEF A!Drained
    <3>2. /\ call[c].asked \in SUBSET Asset /\ call[c].on \in BOOLEAN
          /\ "rereading" \in PC /\ "done" \in PC
      BY <1>1 DEF Calls, PC
    <3>3. Begins(c, call[c].asked, "rereading", "done", call[c].on) /\ memory' = memory
      BY <1>1, <1>2, <3>1, <3>2, Looked
    <3>4. PICK j \in Calls :
            /\ call' = [call EXCEPT ![c] = j] /\ j.asked = call[c].asked /\ j.on = call[c].on
            /\ \/ j.pc = "done" /\ j.seen = call[c].asked
               \/ j.pc = "rereading" /\ \E k \in call[c].asked : memory[k] = NoImage
      BY <3>3 DEF Begins, Begun
    <3>5. call'[c] = j
      BY <1>1, <3>4
    <3>6. OnItsWay(call[c], memory, pending, batch)
      BY <1>6, <3>4, <3>5
    <3>7. missing = {}
      <4>1. CASE call[c].passes >= 2
        BY <2>1, <3>6, <4>1 DEF OnItsWay
      <4>2. CASE ~(call[c].passes >= 2)
        <5>1. batch = A!NoBatch /\ call[c].passes >= 1
          BY <1>1, <2>1, <2>3, <4>2
        <5>2. Toward(batch) = {}
          BY <1>1, <5>1, NewBatch
        <5> QED
          BY <2>1, <3>6, <5>1, <5>2 DEF OnItsWay
      <4> QED
        BY <4>1, <4>2
    <3>8. j.pc = "done" /\ j.seen = j.asked
      BY <3>4, <3>7
    <3> QED
      BY <3>5, <3>8 DEF OnItsWay
  <2> QED
    BY <2>2, <2>3
<1>13. CASE A!BatchEnds
  <2>1. /\ call[c].pc = "waiting" /\ call'[c] = [call[c] EXCEPT !.pc = "draining"]
    BY <1>1, <1>13 DEF A!BatchEnds, A!Woken
  <2>2. /\ call'[c].pc = "draining" /\ call'[c].asked = call[c].asked /\ call'[c].on = call[c].on
        /\ call'[c].passes = call[c].passes /\ call[c].passes \in Nat
    BY <1>1, <2>1 DEF Calls
  <2> DEFINE missing == {k \in call[c].asked : memory[k] = NoImage}
  <2>3. /\ missing \subseteq pending \cup Toward(batch)
        /\ call[c].passes >= 1
        /\ call[c].passes >= 2 => missing \subseteq Toward(batch)
    BY <1>6, <2>1, <2>2 DEF OnItsWay
  <2>4. Toward(batch) = {}
    BY <1>2, <1>13 DEF A!BatchEnds, PhaseInv, Toward
  <2>5. pending \subseteq Toward(batch')
    BY <1>1, <1>13, NewBatch DEF A!BatchEnds
  <2>6. memory' = memory
    BY <1>13 DEF A!BatchEnds
  <2>7. {k \in call'[c].asked : memory'[k] = NoImage} = missing
    BY <2>2, <2>6
  <2> HIDE DEF missing
  <2> QED
    BY <2>2, <2>3, <2>4, <2>5, <2>7 DEF OnItsWay
<1>14. ASSUME NEW d \in Caller, d # c,
              \/ \E asked \in Lookup : A!Asks(d, asked)
              \/ A!Served(d) \/ A!Received(d) \/ A!Leaves(d) \/ A!Drains(d) \/ A!Drained(d)
       PROVE  FALSE
  <2>1. call'[c] = call[c]
    BY <1>1, <1>14 DEF A!Asks, A!Looks, A!Answers, A!Served, A!Received, A!Leaves, A!Drains, A!Drained
  <2> QED
    BY <2>1
<1>15. call' # call
  OBVIOUS
<1> QED
  BY <1>7, <1>8, <1>9, <1>10, <1>11, <1>12, <1>13, <1>14, <1>15
  DEF A!Next, A!vars, A!Start, A!Stop, A!Refresh, A!Tick, A!Preload, A!TimerFires, A!ListLoads,
      A!Fetches, A!ReadsRow, A!FallsBack, A!Writes, A!Sorts, A!Keeps

LEMMA OnlyStarted ==
  ASSUME ImageFacts, ImageTypes, [A!Next]_(A!vars), NEW c \in Caller,
         call[c].on => started # "new", call'[c].on
  PROVE  started' # "new"
<1>1. call \in [Caller -> Calls] /\ started \in {"new", "on", "off"}
  BY DEF ImageTypes
<1>2. CASE A!Start \/ A!Stop
  BY <1>2 DEF A!Start, A!Stop
<1>3. CASE started' = started /\ call'[c].on = call[c].on
  BY <1>3
<1>4. CASE \E d \in Caller : A!Served(d)
  <2>1. PICK d \in Caller : A!Served(d)
    BY <1>4
  <2>2. PICK r : started' = started /\ call' = [call EXCEPT ![d].row = r]
    BY <2>1 DEF A!Served
  <2>3. call'[c].on = call[c].on
    BY <1>1, <2>2 DEF Calls
  <2> QED
    BY <1>3, <2>2, <2>3
<1>5. CASE \E d \in Caller : A!Received(d)
  <2>1. PICK d \in Caller : Returns(d) /\ started' = started
    BY <1>5, Replied
  <2> QED
    BY <1>1, <1>3, <2>1 DEF Returns, Begun
<1>6. ASSUME NEW d \in Caller, NEW asked \in SUBSET Asset, NEW waiting \in PC, NEW ended \in PC,
             NEW on \in BOOLEAN, A!Looks(d, asked, waiting, ended, on)
      PROVE  started' = started /\ (d # c => call'[c] = call[c]) /\ (d = c => call'[c].on = on)
  <2>1. Begins(d, asked, waiting, ended, on) /\ started' = started
    BY <1>6, Looked
  <2> QED
    BY <1>1, <2>1 DEF Begins, Begun
<1>7. CASE \E d \in Caller, asked \in Lookup : A!Asks(d, asked)
  <2>1. PICK d \in Caller, asked \in SUBSET Asset :
          A!Looks(d, asked, "asking", A!AfterFirst(d), started = "on")
    BY <1>7 DEF A!Asks, ImageFacts
  <2>2. "asking" \in PC /\ A!AfterFirst(d) \in PC /\ (started = "on") \in BOOLEAN
    BY DEF PC, A!AfterFirst
  <2>3. /\ started' = started /\ (d # c => call'[c] = call[c])
        /\ d = c => call'[c].on = (started = "on")
    BY <1>6, <2>1, <2>2
  <2> QED
    BY <1>3, <2>3
<1>8. CASE \E d \in Caller : A!Drained(d)
  <2>1. PICK d \in Caller : A!Drained(d)
    BY <1>8
  <2>2. CASE call[d].passes = 0
    BY <1>1, <1>3, <2>1, <2>2 DEF A!Drained, Calls
  <2>3. CASE call[d].passes # 0
    <3>1. A!Looks(d, call[d].asked, "rereading", "done", call[d].on)
      BY <2>1, <2>3 DEF A!Drained
    <3>2. /\ call[d].asked \in SUBSET Asset /\ call[d].on \in BOOLEAN
          /\ "rereading" \in PC /\ "done" \in PC
      BY <1>1 DEF Calls, PC
    <3>3. /\ started' = started /\ (d # c => call'[c] = call[c])
          /\ d = c => call'[c].on = call[c].on
      BY <1>6, <3>1, <3>2
    <3> QED
      BY <1>3, <3>3
  <2> QED
    BY <2>2, <2>3
<1>9. CASE \E d \in Caller : A!Leaves(d)
  <2>1. PICK d \in Caller : call' = [call EXCEPT ![d] = A!Idle] /\ started' = started
    BY <1>9 DEF A!Leaves
  <2>2. d # c
    BY <1>1, <2>1 DEF A!Idle
  <2> QED
    BY <1>1, <1>3, <2>1, <2>2
<1>10. CASE \E d \in Caller : A!Drains(d)
  BY <1>1, <1>3, <1>10 DEF A!Drains, Calls
<1>11. CASE A!BatchEnds
  BY <1>1, <1>3, <1>11 DEF A!BatchEnds, A!Woken, Calls
<1>12. CASE call' = call /\ started' = started
  BY <1>3, <1>12
<1> QED
  BY <1>2, <1>4, <1>5, <1>7, <1>8, <1>9, <1>10, <1>11, <1>12
  DEF A!Next, A!vars, A!Refresh, A!Tick, A!Preload, A!TimerFires, A!ListLoads,
      A!Fetches, A!ReadsRow, A!FallsBack, A!Writes, A!Sorts, A!Keeps

\* Who drains goes on before anything else, and leaves the work there is.
LEMMA WorkIsKept ==
  ASSUME ImageFacts, ImageTypes, [A!Next]_(A!vars), NEW d \in Caller, call[d].pc = "draining"
  PROVE  KeepsWork
<1>1. CASE \E c \in Caller : A!Drains(c)
  BY <1>1, Taken DEF A!Drains, KeepsWork
<1>2. CASE \E c \in Caller : A!Drained(c)
  <2>1. PICK c \in Caller : A!Drained(c)
    BY <1>2
  <2>2. CASE call[c].passes = 0
    BY <2>1, <2>2 DEF A!Drained, KeepsWork
  <2>3. CASE call[c].passes # 0
    <3>1. A!Looks(c, call[c].asked, "rereading", "done", call[c].on)
      BY <2>1, <2>3 DEF A!Drained
    <3>2. /\ call[c].asked \in SUBSET Asset /\ call[c].on \in BOOLEAN
          /\ "rereading" \in PC /\ "done" \in PC
      BY DEF ImageTypes, Calls, PC
    <3>3. batch' = batch /\ pending \subseteq pending'
      BY <3>1, <3>2, Looked
    <3> QED
      BY <3>3 DEF KeepsWork
  <2> QED
    BY <2>2, <2>3
<1>3. CASE UNCHANGED A!vars
  BY <1>3 DEF A!vars, KeepsWork
<1> QED
  BY <1>1, <1>2, <1>3 DEF A!Next

LEMMA WaitStep ==
  ASSUME ImageFacts, ImagesInv, [A!Next]_(A!vars)
  PROVE  WaitInv'
<1>1. /\ ImageTypes /\ PhaseInv /\ WaitInv /\ call \in [Caller -> Calls] /\ Eager \subseteq Caller
  BY DEF ImagesInv, ImageTypes, ImageFacts
<1>2. \A c \in Caller : call'[c].on => started' # "new"
  BY <1>1, OnlyStarted DEF WaitInv
<1>3. ASSUME NEW c \in Eager, call'[c].on, started' = "on"
      PROVE  OnItsWay(call'[c], memory', pending', batch')
  <2>1. ~A!Stop
    BY <1>3 DEF A!Stop
  <2>2. CASE call'[c] # call[c]
    BY <1>3, <2>1, <2>2, OneWaits
  <2>3. CASE call'[c] = call[c]
    <3>1. started # "new"
      BY <1>1, <1>3, <2>3 DEF WaitInv
    <3>2. started' = started
      BY <2>1, <3>1 DEF A!Next, A!vars, A!Start, A!Drains, A!Drained, A!Looks, A!Asks, A!Served,
        A!Received, A!Leaves, A!Preload, A!Refresh, A!TimerFires, A!Tick, A!ListLoads, A!Fetches,
        A!ReadsRow, A!FallsBack, A!Writes, A!BatchEnds, A!Sorts, A!Keeps
    <3>3. OnItsWay(call[c], memory, pending, batch)
      BY <1>1, <1>3, <2>3, <3>2 DEF WaitInv
    <3>4. Carries
      BY <1>1, <2>1, CarriesOn
    <3>5. call[c].pc # "draining" \/ KeepsWork
      BY <1>1, WorkIsKept
    <3>6. call[c] \in Calls
      BY <1>1
    <3>7. \A j \in Calls : OnItsWay(j, memory, pending, batch) /\ Carries /\ (j.pc # "draining" \/ KeepsWork)
                             => OnItsWay(j, memory', pending', batch')
      BY OthersWait
    <3>8. OnItsWay(call[c], memory', pending', batch')
      BY <3>3, <3>4, <3>5, <3>6, <3>7
    <3> QED
      BY <2>3, <3>8
  <2> QED
    BY <2>2, <2>3
<1> QED
  BY <1>2, <1>3 DEF WaitInv

LEMMA ImagesStep ==
  ASSUME ImageFacts, ImagesInv, [A!Next]_(A!vars) PROVE ImagesInv'
BY TypesStep, PhaseStep, RowStep, WaitStep DEF ImagesInv

LEMMA ImagesInit == ASSUME ImageFacts, A!Init PROVE ImagesInv
<1>1. call = [c \in Caller |-> A!Idle] /\ batch = A!NoBatch /\ now = 0
  BY DEF A!Init
<1>2. \A c \in Caller : DOMAIN call[c].row = {} /\ ~call[c].on
  BY <1>1, NoReply DEF A!Idle
<1>3. ImageTypes
  <2>1. call \in [Caller -> Calls]
    BY <1>1, NewCall
  <2>2. batch \in Batches(now)
    BY <1>1, NewBatch
  <2>3. redis \in [Asset -> Held]
    <3>1. PICK rows \in [Stored -> {NoImage} \cup [kind : {"image", "placeholder"}, staleAt : {0}, until : {Usable}]] :
             redis = [k \in Asset |-> IF k \in Stored THEN rows[k] ELSE NoImage]
      BY DEF A!Init
    <3>2. [kind : {"image", "placeholder"}, staleAt : {0}, until : {Usable}] \subseteq Lasting
      BY DEF Lasting, ImageFacts
    <3> QED
      BY <3>1, <3>2 DEF Held
  <2>4. memory \in [Asset -> Held]
    BY DEF A!Init, Held
  <2>5. notFound \in [Id -> A!Time \cup {A!Never}] /\ listAt \in A!Time \cup {A!Never}
    BY DEF A!Init
  <2>6. now \in 0 .. MaxTime
    BY <1>1 DEF ImageFacts
  <2> QED
    BY <2>1, <2>2, <2>3, <2>4, <2>5, <2>6 DEF A!Init, ImageTypes
<1>4. PhaseInv
  BY <1>1, NoBatchEmpty DEF PhaseInv
<1>5. RowInv
  BY <1>1, <1>2, NoBatchEmpty DEF RowInv, Agrees
<1>6. WaitInv
  BY <1>2 DEF WaitInv, ImageFacts
<1> QED
  BY <1>3, <1>4, <1>5, <1>6 DEF ImagesInv

LEMMA ImagesInvariance == ASSUME ImageFacts PROVE A!Spec => []ImagesInv
<1>1. A!Init => ImagesInv
  BY ImagesInit
<1>2. ImagesInv /\ [A!Next]_(A!vars) => ImagesInv'
  BY ImagesStep
<1> QED
  BY <1>1, <1>2, PTL DEF A!Spec

(* Until an entry can expire, an eager call that had something to wait for *)
(* answers with an entry for every key it asked, whatever other calls, the *)
(* timer and the batches do meanwhile (getAssetViewsEager,                 *)
(* drainResolutionWork, resolveBatch), and each part of the service is     *)
(* well formed.                                                            *)
THEOREM ImagesResolvedHolds ==
  ASSUME A!ImagesAssumption
  PROVE  A!Spec => [](A!TypeOK /\ A!PendingIsCarried /\ A!EagerSeesEntries)
<1> ImageFacts
  BY ImageFactsHold
<1>1. ImagesInv => A!TypeOK /\ A!EagerSeesEntries
  <2> SUFFICES ASSUME ImagesInv PROVE A!TypeOK /\ A!EagerSeesEntries
    OBVIOUS
  <2>1. A!TypeOK
    <3>1. Held \subseteq A!Entry \cup {NoImage}
      BY DEF Held, Lasting, A!Entry, A!Time, ImageFacts
    <3>2. /\ memory \in [Asset -> A!Entry \cup {NoImage}] /\ redis \in [Asset -> A!Entry \cup {NoImage}]
      BY <3>1 DEF ImagesInv, ImageTypes
    <3>3. /\ batch.phase \in {"none", "list", "sort", "ask", "keep"}
          /\ batch.todo \cup batch.fetch \cup batch.found \subseteq Asset
      BY DEF ImagesInv, ImageTypes, Batches
    <3>4. \A c \in Caller : call[c].pc \in {"idle", "asking", "draining", "waiting", "rereading", "done"}
      BY DEF ImagesInv, ImageTypes, Calls
    <3> QED
      BY <3>2, <3>3, <3>4 DEF A!TypeOK, ImagesInv, ImageTypes
  <2>2. A!EagerSeesEntries
    BY DEF A!EagerSeesEntries, ImagesInv, WaitInv, OnItsWay
  <2> QED
    BY <2>1, <2>2
<1> QED
  BY <1>1, ImagesInvariance, PendingIsCarriedHolds, PTL

(* Until an entry can expire, a key that falls back keeps the real image   *)
(* that memory or Redis holds for it, unless Redis failed to tell the      *)
(* batch, although memory is not looked at again once Redis has answered   *)
(* (persistFallbackEntry).                                                 *)
THEOREM ImagesKeptHolds ==
  ASSUME A!ImagesAssumption
  PROVE  A!Spec => [][A!ImagesKept]_(A!vars)
<1> ImageFacts
  BY ImageFactsHold
<1>1. ImagesInv /\ [A!Next]_(A!vars) => [A!ImagesKept]_(A!vars)
  BY KeptStep DEF ImagesInv
<1> QED
  BY <1>1, ImagesInvariance, PTL DEF A!Spec

-----------------------------------------------------------------------------
(* The news (NewsFeed).                                                    *)
CONSTANTS Item, Scope, Date, NoDate, Day, Offset, MaxFetched
VARIABLES selected, keyed, job, answer

N == INSTANCE NewsFeed

(* No two items have the url or the title in common, and each of what was  *)
(* fetched has its url or its title among those kept.                      *)
Apart(items) ==
  \A i, j \in DOMAIN items :
    i # j => items[i].url # items[j].url /\ items[i].title # items[j].title

Covers(items, fetched) ==
  \A i \in DOMAIN fetched : \E j \in DOMAIN items :
    fetched[i].url = items[j].url \/ fetched[i].title = items[j].title

IsDeduping(g, items, n) ==
  g = [i \in 0 .. n |-> IF i = 0 THEN <<>> ELSE N!WithItem(g[i - 1], items[i])]

LEMMA SmallestExists ==
  ASSUME NEW hi \in Int, NEW T \in SUBSET (0 .. hi), T # {}
  PROVE  \E t \in T : \A u \in T : t <= u
<1> DEFINE M == {hi - u : u \in T}
<1>1. \A u \in T : u \in Int /\ hi - u \in M /\ hi - u \in 0 .. hi
  OBVIOUS
<1>5. M \in SUBSET (0 .. hi) /\ M # {} /\ 0 \in Int
  <2>1. \A x \in M : \E u \in T : x = hi - u
    OBVIOUS
  <2>2. \E u \in T : hi - u \in M
    BY <1>1
  <2> HIDE DEF M
  <2> QED
    BY <1>1, <2>1, <2>2
<1> HIDE DEF M
<1>2. PICK m \in M : \A u \in M : u <= m
  BY <1>5, GreatestExists
<1>3. PICK t \in T : m = hi - t
  BY <1>2 DEF M
<1>4. ASSUME NEW u \in T PROVE t <= u
  BY <1>1, <1>2, <1>3
<1> QED
  BY <1>4

LEMMA DedupingExists ==
  ASSUME NEW items, NEW n \in Nat
  PROVE  \E g : IsDeduping(g, items, n)
<1> DEFINE Lacking == {m \in 0 .. n : ~ \E g : IsDeduping(g, items, m)}
<1>1. Lacking = {}
  <2> SUFFICES ASSUME Lacking # {} PROVE FALSE
    OBVIOUS
  <2>1. PICK m \in Lacking : \A k \in Lacking : m <= k
    <3>1. Lacking \in SUBSET (0 .. n) /\ n \in Int
      OBVIOUS
    <3> HIDE DEF Lacking
    <3> QED
      BY <3>1, SmallestExists
  <2>2. m \in 0 .. n /\ ~ \E g : IsDeduping(g, items, m)
    OBVIOUS
  <2>3. m # 0
    <3> DEFINE g == [i \in 0 .. 0 |-> <<>>]
    <3>1. IsDeduping(g, items, 0)
      BY DEF IsDeduping
    <3> QED
      BY <2>2, <3>1
  <2>4. m - 1 \in 0 .. n /\ m - 1 \notin Lacking
    <3>1. m \in Int
      BY <2>2
    <3> HIDE DEF Lacking
    <3> QED
      BY <2>1, <2>2, <2>3, <3>1
  <2>5. PICK g : IsDeduping(g, items, m - 1)
    BY <2>4
  <2> DEFINE h == [i \in 0 .. m |-> IF i = 0 THEN <<>> ELSE N!WithItem(g[i - 1], items[i])]
  <2>6. g = [i \in 0 .. m - 1 |-> IF i = 0 THEN <<>> ELSE N!WithItem(g[i - 1], items[i])]
    BY <2>5 DEF IsDeduping
  <2>7. \A i \in 0 .. m - 1 : h[i] = g[i]
    <3> SUFFICES ASSUME NEW i \in 0 .. m - 1 PROVE h[i] = g[i]
      OBVIOUS
    <3>1. i \in 0 .. m
      BY <2>2
    <3>2. g[i] = IF i = 0 THEN <<>> ELSE N!WithItem(g[i - 1], items[i])
      BY <2>6
    <3> HIDE <2>6
    <3> QED
      BY <3>1, <3>2
  <2>8. IsDeduping(h, items, m)
    <3>1. \A i \in 0 .. m : i # 0 => i - 1 \in 0 .. m - 1
      BY <2>2
    <3>2. \A i \in 0 .. m : i # 0 => h[i - 1] = g[i - 1]
      BY <2>7, <3>1
    <3> HIDE <2>6, <2>7
    <3> QED
      BY <3>2 DEF IsDeduping
  <2> QED
    BY <2>2, <2>8
<1>2. n \in 0 .. n
  OBVIOUS
<1> QED
  BY <1>1, <1>2

(* dedupeNewsItems.                                                        *)
LEMMA DedupedIs ==
  ASSUME NEW fetched, Len(fetched) \in Nat, DOMAIN fetched = 1 .. Len(fetched)
  PROVE  Apart(N!Deduped(fetched)) /\ Covers(N!Deduped(fetched), fetched)
<1> DEFINE n == Len(fetched)
           kept == CHOOSE g : IsDeduping(g, fetched, n)
           V == {fetched[i] : i \in 1 .. n}
           Good(i) == /\ kept[i] \in Seq(V) /\ Apart(kept[i])
                      /\ \A k \in 1 .. i : \E j \in DOMAIN kept[i] :
                           \/ fetched[k].url = kept[i][j].url
                           \/ fetched[k].title = kept[i][j].title
           Bad == {i \in 0 .. n : ~Good(i)}
<1>1. N!Deduped(fetched) = kept[n]
  BY DEF N!Deduped, IsDeduping
<1>2. IsDeduping(kept, fetched, n)
  BY DedupingExists
<1> HIDE DEF kept
<1>3. /\ kept[0] = <<>>
      /\ \A i \in 1 .. n : kept[i] = N!WithItem(kept[i - 1], fetched[i])
  BY <1>2 DEF IsDeduping
<1> HIDE DEF n
<1>4. n \in Nat
  BY DEF n
<1>5. Bad = {}
  <2> SUFFICES ASSUME Bad # {} PROVE FALSE
    OBVIOUS
  <2>1. PICK m \in Bad : \A k \in Bad : m <= k
    <3>1. Bad \in SUBSET (0 .. n) /\ n \in Int
      BY <1>4
    <3> HIDE DEF Bad
    <3> QED
      BY <3>1, SmallestExists
  <2>2. m \in 0 .. n /\ ~Good(m)
    OBVIOUS
  <2>3. Good(0)
    BY <1>3 DEF Apart
  <2>4. m \in 1 .. n /\ m - 1 \in 0 .. n
    <3> HIDE DEF Good
    <3> QED
      BY <1>4, <2>2, <2>3
  <2>5. Good(m - 1)
    <3>1. m - 1 \notin Bad
      <4>1. m \in Int
        BY <2>4
      <4> HIDE DEF Bad
      <4> QED
        BY <2>1, <4>1
    <3> HIDE DEF Good
    <3> QED
      BY <2>4, <3>1
  <2> DEFINE s == kept[m - 1]
             x == fetched[m]
  <2>6. kept[m] = N!WithItem(s, x) /\ x \in V
    BY <1>3, <2>4
  <2>7. s \in Seq(V) /\ Apart(s) /\ DOMAIN s = 1 .. Len(s) /\ Len(s) \in Nat
    BY <2>5
  <2>8. \A k \in 1 .. m : k = m \/ k \in 1 .. m - 1
    BY <2>4
  <2>9. CASE \E i \in DOMAIN s : s[i].url = x.url \/ s[i].title = x.title
    <3>1. kept[m] = s
      BY <2>6, <2>9 DEF N!WithItem
    <3>2. ASSUME NEW k \in 1 .. m
          PROVE  \E j \in DOMAIN kept[m] : \/ fetched[k].url = kept[m][j].url
                                           \/ fetched[k].title = kept[m][j].title
      <4>1. CASE k = m
        BY <2>9, <3>1, <4>1
      <4>2. CASE k \in 1 .. m - 1
        BY <2>5, <3>1, <4>2
      <4> QED
        BY <2>8, <4>1, <4>2
    <3> QED
      BY <2>2, <2>7, <3>1, <3>2
  <2>10. CASE ~ \E i \in DOMAIN s : s[i].url = x.url \/ s[i].title = x.title
    <3>1. kept[m] = Append(s, x)
      BY <2>6, <2>10 DEF N!WithItem
    <3> DEFINE t == Append(s, x)
    <3> HIDE DEF s, x, V
    <3>2. /\ t \in Seq(V) /\ DOMAIN t = 1 .. Len(s) + 1
          /\ \A i \in 1 .. Len(s) : t[i] = s[i]
          /\ t[Len(s) + 1] = x
      BY <2>6, <2>7
    <3> HIDE DEF t
    <3>3. Apart(t)
      <4> SUFFICES ASSUME NEW i \in 1 .. Len(s) + 1, NEW j \in 1 .. Len(s) + 1, i # j
                   PROVE  t[i].url # t[j].url /\ t[i].title # t[j].title
        BY <3>2 DEF Apart
      <4>1. (i \in 1 .. Len(s) \/ i = Len(s) + 1) /\ (j \in 1 .. Len(s) \/ j = Len(s) + 1)
        BY <2>7
      <4>2. CASE i \in 1 .. Len(s) /\ j \in 1 .. Len(s)
        BY <2>7, <3>2, <4>2 DEF Apart
      <4>3. CASE i = Len(s) + 1 /\ j \in 1 .. Len(s)
        BY <2>7, <2>10, <3>2, <4>3
      <4>4. CASE i \in 1 .. Len(s) /\ j = Len(s) + 1
        BY <2>7, <2>10, <3>2, <4>4
      <4> QED
        BY <4>1, <4>2, <4>3, <4>4
    <3>4. ASSUME NEW k \in 1 .. m
          PROVE  \E j \in DOMAIN t : fetched[k].url = t[j].url \/ fetched[k].title = t[j].title
      <4>1. CASE k = m
        <5>1. Len(s) + 1 \in DOMAIN t /\ fetched[k] = t[Len(s) + 1]
          BY <2>7, <3>2, <4>1 DEF x
        <5> QED
          BY <5>1
      <4>2. CASE k \in 1 .. m - 1
        <5>1. PICK j \in DOMAIN s : fetched[k].url = s[j].url \/ fetched[k].title = s[j].title
          BY <2>5, <4>2 DEF s
        <5>2. j \in DOMAIN t /\ t[j] = s[j]
          BY <2>7, <3>2, <5>1
        <5> QED
          BY <5>1, <5>2
      <4> QED
        BY <2>8, <4>1, <4>2
    <3>5. t \in Seq(V) /\ kept[m] = t
      BY <3>1, <3>2 DEF t
    <3> QED
      BY <2>2, <3>3, <3>4, <3>5
  <2> QED
    BY <2>9, <2>10
<1>6. Good(n)
  <2>1. n \in 0 .. n
    BY <1>4
  <2>2. n \notin Bad
    BY <1>5
  <2> HIDE DEF Good
  <2> QED
    BY <2>1, <2>2
<1> QED
  BY <1>1, <1>6 DEF Covers, n

(* What is kept expires when its time is over, and repeats nothing.        *)
KeptOk(e) ==
  /\ e.at \in Int /\ e.expiresAt \in Int
  /\ e.items # <<>> => e.expiresAt = e.at + Ttl
  /\ Apart(e.items)

(* A call has not begun in the future, has nothing of the cache while it   *)
(* is about to read it, and writes what it fetched since it began, which   *)
(* it answers all of but for repetitions.                                  *)
NewsCallOk(j, t) ==
  /\ j = [pc |-> j.pc, key |-> j.key, fallback |-> j.fallback, cached |-> j.cached,
          fetched |-> j.fetched, since |-> j.since]
  /\ KeptOk(j.cached) /\ j.since \in Int /\ j.since <= t
  /\ j.pc = "cache" => j.key \in N!Key /\ j.cached.items = <<>>
  /\ j.pc = "writing" => j.cached.at >= j.since /\ Covers(j.cached.items, j.fetched)
  /\ j.pc # "writing" => j.fetched = <<>>

NewsInv ==
  /\ now \in Nat /\ DOMAIN job = Caller
  /\ \A k \in N!Key : KeptOk(memory[k]) /\ KeptOk(row[k])
  /\ DOMAIN memory = N!Key /\ DOMAIN row = N!Key
  /\ \A c \in Caller : NewsCallOk(job[c], now)
  /\ N!NewsSound

LEMMA NothingKept == KeptOk(N!NoEntry) /\ N!NoEntry.items = <<>>
BY DEF KeptOk, N!NoEntry, Apart

LEMMA NoCallOk == ASSUME NEW t \in Nat PROVE NewsCallOk(N!NoJob, t)
BY NothingKept DEF NewsCallOk, N!NoJob

LEMMA NobodyAnswered == answer' = N!NoAnswer => N!NewsSound'
BY DEF N!NewsSound, N!NewsInTime, N!NoAnswer

LEMMA NothingFetched == ASSUME NEW items PROVE Covers(items, <<>>)
BY DEF Covers

(* One call goes on, or is over.                                           *)
LEMMA NewsCallMoves ==
  ASSUME NewsInv, NEW c \in Caller, NEW j, NewsCallOk(j, now),
         job' = [job EXCEPT ![c] = j]
  PROVE  DOMAIN job' = Caller /\ \A d \in Caller : NewsCallOk(job'[d], now)
BY DEF NewsInv

(* What is answered as fresh is, and what was fetched is not older than    *)
(* the call.                                                               *)
LEMMA ReturnsInTime ==
  ASSUME NewsInv, NEW c \in Caller, NEW items, NEW at, NEW hit \in BOOLEAN,
         NEW stale \in BOOLEAN, N!Returns(c, items, at, hit, stale), now' = now,
         hit /\ ~stale => now - at < Ttl,
         ~hit /\ items # <<>> => at >= job[c].since,
         job[c].cached.items # <<>> => items # <<>>,
         Apart(items), Covers(items, job[c].fetched)
  PROVE  /\ N!NewsSound' /\ DOMAIN job' = Caller
         /\ \A d \in Caller : NewsCallOk(job'[d], now)
<1>1. /\ answer'.source = items /\ answer'.at = at /\ answer'.hit = hit
      /\ answer'.stale = stale /\ answer'.job = job[c]
      /\ job' = [job EXCEPT ![c] = N!NoJob]
  BY DEF N!Returns
<1>2. N!NewsSound'
  BY <1>1 DEF N!NewsSound, N!NewsInTime, Apart, Covers
<1>3. NewsCallOk(N!NoJob, now)
  BY NoCallOk DEF NewsInv
<1> QED
  BY <1>1, <1>2, <1>3, NewsCallMoves

(* A call that goes on to another stage, perhaps with what it read.        *)
LEMMA GoesToStage ==
  ASSUME NewsInv, NEW c \in Caller, job[c].pc # "writing",
         NEW stage, stage \notin {"cache", "writing"}
  PROVE  LET j == [job[c] EXCEPT !.pc = stage]
         IN  /\ NewsCallOk(j, now)
             /\ \A e : KeptOk(e) => NewsCallOk([j EXCEPT !.cached = e], now)
<1> DEFINE i == job[c]  j == [i EXCEPT !.pc = stage]
<1>1. NewsCallOk(i, now) /\ i.fetched = <<>>
  BY DEF NewsInv, NewsCallOk
<1>2. j = [pc |-> stage, key |-> i.key, fallback |-> i.fallback, cached |-> i.cached,
           fetched |-> i.fetched, since |-> i.since]
  <2> HIDE DEF i
  <2> QED
    BY <1>1 DEF NewsCallOk
<1> HIDE DEF j
<1>3. ASSUME NEW e
      PROVE  [j EXCEPT !.cached = e] =
               [pc |-> stage, key |-> i.key, fallback |-> i.fallback, cached |-> e,
                fetched |-> i.fetched, since |-> i.since]
  BY <1>2
<1> HIDE DEF i
<1>4. NewsCallOk(j, now)
  BY <1>1, <1>2 DEF NewsCallOk
<1>5. ASSUME NEW e, KeptOk(e) PROVE NewsCallOk([j EXCEPT !.cached = e], now)
  BY <1>1, <1>3, <1>5 DEF NewsCallOk
<1> QED
  BY <1>4, <1>5 DEF i, j

LEMMA BeginsNews ==
  ASSUME NewsInv, NEW c \in Caller, N!Begins(c)
  PROVE  NewsInv'
<1>1. PICK key \in N!Key, fallback \in BOOLEAN :
        job' = [job EXCEPT ![c] = [N!NoJob EXCEPT !.pc = "cache", !.key = key,
                                                 !.fallback = fallback, !.since = now]]
  BY DEF N!Begins
<1>2. UNCHANGED <<now, memory, row>> /\ answer' = N!NoAnswer
  BY DEF N!Begins
<1> DEFINE j == [N!NoJob EXCEPT !.pc = "cache", !.key = key, !.fallback = fallback,
                               !.since = now]
<1>3. j = [pc |-> "cache", key |-> key, fallback |-> fallback, cached |-> N!NoEntry,
           fetched |-> <<>>, since |-> now]
  <2> DEFINE nokey == <<"market", NoDate>>  no == FALSE
             first == [N!NoJob EXCEPT !.pc = "cache"]
             second == [first EXCEPT !.key = key]
             third == [second EXCEPT !.fallback = fallback]
  <2>1. j = [third EXCEPT !.since = now]
    OBVIOUS
  <2>2. first = [N!NoJob EXCEPT !.pc = "cache"]
    OBVIOUS
  <2> HIDE DEF first
  <2>3. first = [pc |-> "cache", key |-> nokey, fallback |-> no,
                 cached |-> N!NoEntry, fetched |-> <<>>, since |-> 0]
    BY <2>2 DEF N!NoJob
  <2> HIDE DEF nokey, no
  <2>4. second = [pc |-> "cache", key |-> key, fallback |-> no,
                  cached |-> N!NoEntry, fetched |-> <<>>, since |-> 0]
    BY <2>3
  <2> HIDE DEF second
  <2>5. third = [pc |-> "cache", key |-> key, fallback |-> fallback,
                 cached |-> N!NoEntry, fetched |-> <<>>, since |-> 0]
    BY <2>4
  <2> HIDE DEF third
  <2> QED
    BY <2>1, <2>5
<1> HIDE DEF j
<1>4. NewsCallOk(j, now)
  BY <1>3, NothingKept DEF NewsCallOk, NewsInv
<1>5. job' = [job EXCEPT ![c] = j]
  BY <1>1 DEF j
<1> QED
  BY <1>2, <1>4, <1>5, NewsCallMoves, NobodyAnswered DEF NewsInv

LEMMA ServesNews ==
  ASSUME N!NewsAssumption, NewsInv, NEW c \in Caller, job[c].pc = "cache", NEW e, KeptOk(e),
         N!Serves(c, e), UNCHANGED <<now, memory, row>>
  PROVE  NewsInv'
<1>1. job[c].cached.items = <<>>
  BY DEF NewsInv, NewsCallOk
<1>4. Covers(e.items, job[c].fetched)
  <2>1. job[c].fetched = <<>>
    BY DEF NewsInv, NewsCallOk
  <2> QED
    BY <2>1, NothingFetched
<1>2. CASE N!Returns(c, e.items, e.at, TRUE, FALSE) /\ e.items # <<>> /\ e.expiresAt > now
  <2>1. now - e.at < Ttl
    BY <1>2 DEF KeptOk, NewsInv, N!NewsAssumption
  <2> QED
    BY <1>1, <1>2, <1>4, <2>1, ReturnsInTime DEF NewsInv, KeptOk
<1>3. CASE /\ job' = [job EXCEPT ![c].pc = "primary", ![c].cached = e]
           /\ answer' = N!NoAnswer
  <2> DEFINE j == [[job[c] EXCEPT !.pc = "primary"] EXCEPT !.cached = e]
  <2>1. job' = [job EXCEPT ![c] = j]
    BY <1>3
  <2>2. NewsCallOk(j, now)
    BY GoesToStage
  <2> HIDE DEF j
  <2> QED
    BY <1>3, <2>1, <2>2, NewsCallMoves, NobodyAnswered DEF NewsInv
<1> QED
  BY <1>2, <1>3 DEF N!Serves

LEMMA ReadsNews ==
  ASSUME N!NewsAssumption, NewsInv, NEW c \in Caller, N!ReadsCache(c)
  PROVE  NewsInv'
<1> DEFINE key == job[c].key
<1>1. job[c].pc = "cache" /\ UNCHANGED <<now, memory, row>>
  BY DEF N!ReadsCache
<1>2. key \in N!Key
  BY <1>1 DEF NewsInv, NewsCallOk
<1>3. KeptOk(memory[key]) /\ KeptOk(row[key])
  BY <1>2 DEF NewsInv
<1>4. N!Serves(c, memory[key]) \/ N!Serves(c, row[key]) \/ N!Serves(c, N!NoEntry)
  BY DEF N!ReadsCache
<1> QED
  BY <1>1, <1>3, <1>4, NothingKept, ServesNews

(* What was fetched is kept, and about to be written.                      *)
LEMMA KeepsNews ==
  ASSUME N!NewsAssumption, NewsInv, NEW c \in Caller, NEW items \in N!Results,
         N!Keeps(c, items), UNCHANGED <<now, row>>
  PROVE  NewsInv'
<1> DEFINE i == job[c]
           e == [items |-> N!Deduped(items), at |-> now, expiresAt |-> now + Ttl]
           j == [pc |-> "writing", key |-> i.key, fallback |-> i.fallback, cached |-> e,
                 fetched |-> items, since |-> i.since]
<1>1. NewsCallOk(i, now)
  BY DEF NewsInv
<1>7. Len(items) \in Nat /\ DOMAIN items = 1 .. Len(items)
  <2>1. PICK n \in 0 .. MaxFetched : items \in [1 .. n -> Item]
    BY DEF N!Results
  <2>2. n \in Nat /\ items \in Seq(Item)
    BY <2>1
  <2> QED
    BY <2>2
<1>8. Apart(N!Deduped(items)) /\ Covers(N!Deduped(items), items)
  BY <1>7, DedupedIs
<1>2. KeptOk(e) /\ e.at = now /\ Covers(e.items, items)
  BY <1>8 DEF KeptOk, N!NewsAssumption, NewsInv
<1>3. /\ memory' = [memory EXCEPT ![i.key] = e] /\ answer' = N!NoAnswer
      /\ job' = [job EXCEPT ![c].pc = "writing", ![c].fetched = items, ![c].cached = e]
  BY DEF N!Keeps
<1> HIDE DEF e
<1>4. job' = [job EXCEPT ![c] = j]
  <2>1. job' = [job EXCEPT ![c] = [i EXCEPT !.pc = "writing", !.fetched = items, !.cached = e]]
    BY <1>3
  <2>2. [i EXCEPT !.pc = "writing", !.fetched = items, !.cached = e] = j
    <3> DEFINE first == [i EXCEPT !.pc = "writing"]
               second == [first EXCEPT !.fetched = items]
    <3> HIDE DEF i
    <3>1. first = [pc |-> "writing", key |-> i.key, fallback |-> i.fallback,
                   cached |-> i.cached, fetched |-> i.fetched, since |-> i.since]
      BY <1>1 DEF NewsCallOk
    <3>2. [i EXCEPT !.pc = "writing", !.fetched = items, !.cached = e] =
            [second EXCEPT !.cached = e]
      OBVIOUS
    <3> HIDE DEF first
    <3>3. second = [pc |-> "writing", key |-> i.key, fallback |-> i.fallback,
                    cached |-> i.cached, fetched |-> items, since |-> i.since]
      BY <3>1
    <3> HIDE DEF second
    <3> QED
      BY <3>2, <3>3
  <2> QED
    BY <2>1, <2>2
<1>5. NewsCallOk(j, now)
  <2> HIDE DEF i
  <2> QED
    BY <1>1, <1>2 DEF NewsCallOk
<1> HIDE DEF j, i
<1>6. DOMAIN memory' = N!Key /\ \A k \in N!Key : KeptOk(memory'[k])
  BY <1>2, <1>3 DEF NewsInv
<1> QED
  BY <1>3, <1>4, <1>5, <1>6, NewsCallMoves, NobodyAnswered DEF NewsInv

LEMMA FallsBackNews ==
  ASSUME NewsInv, NEW c \in Caller, job[c].pc # "writing", N!FallsBack(c), UNCHANGED <<now, row>>
  PROVE  NewsInv'
<1> DEFINE e == job[c].cached
<1>1. N!Returns(c, e.items, e.at, e.items # <<>>, e.items # <<>>) /\ memory' = memory
  BY DEF N!FallsBack
<1>2. N!NewsSound' /\ DOMAIN job' = Caller /\ \A d \in Caller : NewsCallOk(job'[d], now)
  <2> DEFINE some == e.items # <<>>
  <2>1. some \in BOOLEAN /\ N!Returns(c, e.items, e.at, some, some)
    BY <1>1
  <2>2. job[c].fetched = <<>> /\ Apart(e.items)
    BY DEF NewsInv, NewsCallOk, KeptOk
  <2>3. Covers(e.items, job[c].fetched)
    BY <2>2, NothingFetched
  <2> HIDE DEF e, some
  <2>4. /\ some /\ ~some => now - e.at < Ttl
        /\ ~some /\ e.items # <<>> => e.at >= job[c].since
        /\ job[c].cached.items # <<>> => e.items # <<>>
    BY DEF some, e
  <2>5. now' = now
    OBVIOUS
  <2> QED
    BY <2>1, <2>2, <2>3, <2>4, <2>5, ReturnsInTime
<1> QED
  BY <1>1, <1>2 DEF NewsInv

LEMMA AsksNext ==
  ASSUME NewsInv, NEW c \in Caller, job[c].pc # "writing", NEW stage \in {"newsapi", "rss"},
         job' = [job EXCEPT ![c].pc = stage], answer' = N!NoAnswer,
         UNCHANGED <<now, memory, row>>
  PROVE  NewsInv'
<1> DEFINE j == [job[c] EXCEPT !.pc = stage]
<1>1. job' = [job EXCEPT ![c] = j]
  OBVIOUS
<1>2. NewsCallOk(j, now)
  BY GoesToStage
<1> HIDE DEF j
<1> QED
  BY <1>1, <1>2, NewsCallMoves, NobodyAnswered DEF NewsInv

LEMMA FetchesNews ==
  ASSUME N!NewsAssumption, NewsInv, NEW c \in Caller,
         N!Primary(c) \/ N!NewsApi(c) \/ N!Rss(c)
  PROVE  NewsInv'
<1>1. UNCHANGED <<now, row>> /\ job[c].pc # "writing"
  BY DEF N!Primary, N!NewsApi, N!Rss
<1>2. \/ \E items \in N!Results : N!Keeps(c, items)
      \/ N!FallsBack(c)
      \/ \E stage \in {"newsapi", "rss"} :
           job' = [job EXCEPT ![c].pc = stage] /\ answer' = N!NoAnswer /\ memory' = memory
  BY DEF N!Primary, N!NewsApi, N!Rss
<1> QED
  BY <1>1, <1>2, KeepsNews, FallsBackNews, AsksNext

LEMMA WritesNews ==
  ASSUME NewsInv, NEW c \in Caller, N!RowWritten(c)
  PROVE  NewsInv'
<1> DEFINE e == job[c].cached
<1>1. /\ job[c].pc = "writing" /\ UNCHANGED <<now, memory>>
      /\ row' \in {row, [row EXCEPT ![job[c].key] = e]}
      /\ N!Returns(c, e.items, e.at, FALSE, FALSE)
  BY DEF N!RowWritten
<1>2. /\ KeptOk(e) /\ e.at >= job[c].since
      /\ Apart(e.items) /\ Covers(e.items, job[c].fetched)
  BY <1>1 DEF NewsInv, NewsCallOk, KeptOk
<1>3. DOMAIN row' = N!Key /\ \A k \in N!Key : KeptOk(row'[k])
  <2> HIDE DEF e
  <2> QED
    BY <1>1, <1>2 DEF NewsInv
<1>4. N!NewsSound' /\ DOMAIN job' = Caller /\ \A d \in Caller : NewsCallOk(job'[d], now)
  BY <1>1, <1>2, ReturnsInTime
<1> QED
  BY <1>1, <1>3, <1>4 DEF NewsInv

LEMMA NewsStep ==
  ASSUME N!NewsAssumption, NewsInv, [N!Next]_(N!vars)
  PROVE  NewsInv'
<1>1. CASE N!Restart
  <2>1. /\ memory' = [k \in N!Key |-> N!NoEntry] /\ job' = [c \in Caller |-> N!NoJob]
        /\ answer' = N!NoAnswer /\ UNCHANGED <<now, row>>
    BY <1>1 DEF N!Restart
  <2> QED
    BY <2>1, NothingKept, NoCallOk, NobodyAnswered DEF NewsInv
<1>2. CASE N!Tick
  <2>1. now' = now + 1 /\ answer' = N!NoAnswer /\ UNCHANGED <<memory, row, job>>
    BY <1>2 DEF N!Tick
  <2>2. now' \in Nat /\ now < now'
    BY <2>1 DEF NewsInv
  <2>3. \A c \in Caller : NewsCallOk(job[c], now')
    BY <2>2 DEF NewsInv, NewsCallOk
  <2> QED
    BY <2>1, <2>2, <2>3, NobodyAnswered DEF NewsInv
<1>3. CASE UNCHANGED (N!vars)
  BY <1>3 DEF N!vars, NewsInv, N!NewsSound, N!NewsInTime
<1>4. ASSUME NEW c \in Caller,
             \/ N!Begins(c) \/ N!ReadsCache(c) \/ N!Primary(c) \/ N!NewsApi(c)
             \/ N!Rss(c) \/ N!RowWritten(c)
      PROVE  NewsInv'
  BY <1>4, BeginsNews, ReadsNews, FetchesNews, WritesNews
<1> QED
  BY <1>1, <1>2, <1>3, <1>4 DEF N!Next

(* News answered as fresh was fetched within its time, news answered as    *)
(* fetched was fetched for the call, and who had read something of the     *)
(* cache is answered something, though late upserts overwrite the rows of  *)
(* later fetches and a restart goes back to them (listNews); of what was   *)
(* fetched an item is left out for one of the same url or title only, and  *)
(* no two of those are kept (dedupeNewsItems).                             *)
THEOREM NewsSoundHolds ==
  ASSUME N!NewsAssumption
  PROVE  N!Spec => []N!NewsSound
<1>1. N!Init => NewsInv
  BY NothingKept, NoCallOk DEF N!Init, NewsInv, N!NewsSound, N!NewsInTime, N!NoAnswer
<1>2. NewsInv /\ [N!Next]_(N!vars) => NewsInv'
  BY NewsStep
<1>3. NewsInv => N!NewsSound
  BY DEF NewsInv
<1> QED
  BY <1>1, <1>2, <1>3, PTL DEF N!Spec
=============================================================================
