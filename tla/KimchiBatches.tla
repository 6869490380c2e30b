---------------------------- MODULE KimchiBatches ----------------------------
(***************************************************************************)
(* A request for the kimchi premiums of many symbols                       *)
(* (src/domains/kimchi-premium/kimchi-premium.request.ts and               *)
(* kimchi-premium.service.ts): its tokens are normalised, the symbols are  *)
(* loaded in chunks side by side, what the chunks gave is merged in the    *)
(* order of the request, and the rows are sorted into accepted,            *)
(* unsupported and unavailable symbols.  The sparkline route asks for the  *)
(* comparable symbols only and reports the others as skipped.              *)
(*                                                                         *)
(* A token is a symbol, another spelling of it, or a value that names      *)
(* none, and is told by its place in the request.  A row is its status,    *)
(* its error code and whether it has a value.                              *)
(***************************************************************************)
EXTENDS Integers, Sequences, FiniteSets

CONSTANTS
  Token, SymbolOf,        \* toCanonicalSymbol of the tokens that have one
  Comparable,             \* symbols listed here and at the reference
  Representative,
  ChunkSize,              \* 40 in the code
  FastPath,               \* DEFAULT_KIMCHI_REPRESENTATIVE_LIMIT
  MaxTokens

(* "all" stands for no symbol in a failure of a whole load.                *)
KimchiBatchAssumption ==
  ChunkSize \in Nat \ {0} /\ \A t \in DOMAIN SymbolOf : SymbolOf[t] # "all"

VARIABLES
  request,        \* the route and its tokens
  chunks,         \* what each chunk's load came to
  answer

vars == <<request, chunks, answer>>

NoRequest == [route |-> "none", tokens |-> <<>>]
NoAnswer == [kind |-> "none"]

Init == request = NoRequest /\ chunks = <<>> /\ answer = NoAnswer

-----------------------------------------------------------------------------
(* normalizeKimchiSymbolsLenient: the first spelling fixes the place.      *)
Rejected(r) == {i \in DOMAIN r.tokens : r.tokens[i] \notin DOMAIN SymbolOf}

SymbolAt(r, i) == SymbolOf[r.tokens[i]]

Symbols(r) ==
  {i \in (DOMAIN r.tokens) \ Rejected(r) :
     \A j \in 1..(i - 1) : j \notin Rejected(r) => SymbolAt(r, j) # SymbolAt(r, i)}

(* getKimchiPremiumSparkline splits what it cannot compare off.            *)
Skipped(r) == {i \in Symbols(r) : r.route = "sparkline" /\ SymbolAt(r, i) \notin Comparable}
Asked(r) == Symbols(r) \ Skipped(r)

(* The places in K, in order.                                              *)
Ordered(K) ==
  [n \in 1..Cardinality(K) |-> CHOOSE i \in K : Cardinality({j \in K : j <= i}) = n]
SymbolsOf(r, K) == [n \in DOMAIN Ordered(K) |-> SymbolAt(r, Ordered(K)[n])]

(* chunkKimchiSymbols                                                      *)
ChunkOf(r, i) == Cardinality({j \in Asked(r) : j < i}) \div ChunkSize
ChunksOf(r) == {ChunkOf(r, i) : i \in Asked(r)}
Chunk(c) == {i \in Asked(request) : ChunkOf(request, i) = c}

-----------------------------------------------------------------------------
Row(status, code, value) == [status |-> status, code |-> code, value |-> value]
FailedRow == Row("failed", "EXCHANGE_TEMPORARILY_UNAVAILABLE", FALSE)

(* The rows a load can compute for a symbol, see KimchiRows.               *)
RowsFor(s) ==
  IF s \notin Comparable THEN {Row("unavailable", "UNSUPPORTED_SYMBOL", TRUE)}
  ELSE {Row("loaded", "none", TRUE), Row("stale", "SNAPSHOT_STALE", TRUE),
        Row("partial", "FX_RATE_UNAVAILABLE", TRUE), FailedRow}

Successful(row) == row.status \notin {"failed", "unavailable"}
Usable(row) == Successful(row) /\ row.value

Pending == [state |-> "pending", rows |-> <<>>, failures |-> {}]

(* toKimchiPartialFailure: the failures of a load, and one without a       *)
(* symbol when no row of it succeeded.                                     *)
FailuresOf(loaded) ==
  {[symbol |-> SymbolAt(request, i), code |-> loaded[i].code] :
     i \in {j \in DOMAIN loaded : loaded[j].code # "none"}}
  \cup IF \E i \in DOMAIN loaded : Successful(loaded[i]) THEN {}
       ELSE {[symbol |-> "all", code |-> "ALL_PROVIDERS_FAILED"]}

Loaded(loaded) == [state |-> "fulfilled", rows |-> loaded, failures |-> FailuresOf(loaded)]

(* buildKimchiFailedChunkLoad                                              *)
FailedChunk(places) ==
  [state |-> "rejected", rows |-> [i \in places |-> FailedRow],
   failures |-> {[symbol |-> SymbolAt(request, i), code |-> FailedRow.code] : i \in places}]

-----------------------------------------------------------------------------
Asks ==
  /\ request = NoRequest
  /\ \E route \in {"batch", "sparkline"}, n \in 1..MaxTokens :
       \E tokens \in [1..n -> Token] :
         LET r == [route |-> route, tokens |-> tokens] IN
         /\ request' = r
         /\ IF Symbols(r) = {}
            THEN answer' = [kind |-> "bad_request"] /\ UNCHANGED chunks
            ELSE chunks' = [c \in ChunksOf(r) |-> Pending] /\ UNCHANGED answer

ChunkLoads(c) ==
  /\ chunks[c] = Pending /\ answer = NoAnswer
  /\ \E loaded \in [Chunk(c) -> UNION {RowsFor(SymbolAt(request, i)) : i \in Chunk(c)}] :
       /\ \A i \in Chunk(c) : loaded[i] \in RowsFor(SymbolAt(request, i))
       /\ chunks' = [chunks EXCEPT ![c] = Loaded(loaded)]
  /\ UNCHANGED <<request, answer>>

(* A load that is not split fails the request.                             *)
ChunkFails(c) ==
  /\ chunks[c] = Pending /\ answer = NoAnswer
  /\ IF Cardinality(DOMAIN chunks) > 1
     THEN chunks' = [chunks EXCEPT ![c] = FailedChunk(Chunk(c))] /\ UNCHANGED answer
     ELSE answer' = [kind |-> "failed"] /\ UNCHANGED chunks
  /\ UNCHANGED request

-----------------------------------------------------------------------------
(* mergeKimchiSnapshotLoads                                                *)
RowOf(symbol) ==
  LET load == CHOOSE c \in DOMAIN chunks :
                \E i \in DOMAIN chunks[c].rows : SymbolAt(request, i) = symbol
      place == CHOOSE i \in DOMAIN chunks[load].rows : SymbolAt(request, i) = symbol
  IN  [symbol |-> symbol, row |-> chunks[load].rows[place]]

Entries ==
  LET here == {i \in Asked(request) :
                 \E c \in DOMAIN chunks : \E j \in DOMAIN chunks[c].rows :
                   SymbolAt(request, j) = SymbolAt(request, i)}
  IN [n \in DOMAIN Ordered(here) |-> RowOf(SymbolAt(request, Ordered(here)[n]))]

Entered == {Entries[n] : n \in DOMAIN Entries}

Failures == UNION {chunks[c].failures : c \in DOMAIN chunks}

(* classifyKimchiBatchFailures; the entries' own codes are among them.     *)
Unsupported == {f \in Failures : f.code = "UNSUPPORTED_SYMBOL"}
Unavailable ==
  (Failures \ Unsupported)
  \cup {[symbol |-> e.symbol, code |-> e.row.code] :
          e \in {x \in Entered : /\ x.row.code \notin {"none", "UNSUPPORTED_SYMBOL"}
                                        /\ \A f \in Failures : f.symbol # x.symbol}}

Hydrated == {e.symbol : e \in {x \in Entered : Usable(x.row)}}

(* determineHydrationPhase                                                 *)
Phase(requested) ==
  IF Entered = {} /\ Unavailable # {} THEN "degraded"
  ELSE IF requested <= FastPath THEN "representative_fast_path"
  ELSE IF Cardinality(Hydrated) < Len(Entries) \/ Unavailable # {} THEN "background_batch"
  ELSE "hydrated"

(* determineFullHydrationUiHint; the representative cache may be ready     *)
(* when the entries are not.                                               *)
Hint(ready, pending, phase) ==
  IF phase = "degraded" /\ ~ready THEN "degraded"
  ELSE IF ready /\ (pending \/ phase = "background_batch" \/ Unavailable # {})
    THEN "background_hydration_only"
  ELSE IF ready THEN "ready"
  ELSE "sync_required"

AllSettled == \A c \in DOMAIN chunks : chunks[c] # Pending

(* getKimchiPremiumBatch                                                   *)
AnswersBatch ==
  /\ request.route = "batch" /\ answer = NoAnswer /\ AllSettled
  /\ \E cached \in BOOLEAN :
       LET phase   == Phase(Len(request.tokens))
           pending == \/ Cardinality(Hydrated) < Len(Entries) \/ Unavailable # {}
                      \/ phase = "background_batch"
           ready   == Hydrated \cap Representative # {} \/ cached
       IN answer' = [kind |-> "batch", entries |-> Entries,
                     rejected |-> {request.tokens[i] : i \in Rejected(request)},
                     unsupported |-> Unsupported, unavailable |-> Unavailable,
                     phase |-> phase, hint |-> Hint(ready, pending, phase),
                     partial |-> \/ Rejected(request) # {}
                                 \/ Unsupported # {} \/ Unavailable # {}
                                 \/ \E e \in Entered : e.row.status # "loaded"]
  /\ UNCHANGED <<request, chunks>>

(* toKimchiViewportRow                                                     *)
Display(row) ==
  CASE row.status = "loaded" -> "fresh" [] row.status = "stale" -> "delayed"
    [] row.status = "partial" -> "partial" [] OTHER -> "unavailable"

(* getKimchiPremiumSparkline, and the route's rejected tokens.             *)
AnswersSparkline ==
  /\ request.route = "sparkline" /\ answer = NoAnswer /\ AllSettled
  /\ answer' = [kind |-> "sparkline", entries |-> Entries,
                rejected |-> {request.tokens[i] : i \in Rejected(request)}, skipped |-> SymbolsOf(request, Skipped(request)),
                partial |-> \/ Rejected(request) # {}
                            \/ Skipped(request) # {}
                            \/ \E e \in Entered : Display(e.row) = "partial"]
  /\ UNCHANGED <<request, chunks>>

Next == \/ Asks \/ AnswersBatch \/ AnswersSparkline
        \/ \E c \in DOMAIN chunks : ChunkLoads(c) \/ ChunkFails(c)

Spec == Init /\ [][Next]_vars

-----------------------------------------------------------------------------
Given == {answer.entries[n] : n \in DOMAIN answer.entries}
Answered(s) == {n \in DOMAIN answer.entries : answer.entries[n].symbol = s}

(* Whichever chunks fail, every token of the request is accounted for: it  *)
(* is rejected, or its symbol is answered once and in the order asked, as  *)
(* a row without an error or with its code in exactly one of the lists; a  *)
(* symbol of the sparkline route is answered or skipped.  An answer that   *)
(* is not partial is complete.                                             *)
EveryTokenAccountedFor ==
  answer.kind \in {"batch", "sparkline"} =>
    /\ \A i \in DOMAIN request.tokens :
         LET t == request.tokens[i]
         IN IF t \notin DOMAIN SymbolOf THEN t \in answer.rejected
            ELSE IF answer.kind = "sparkline" /\ SymbolOf[t] \notin Comparable
            THEN /\ \E n \in DOMAIN answer.skipped : answer.skipped[n] = SymbolOf[t]
                 /\ Answered(SymbolOf[t]) = {}
            ELSE Cardinality(Answered(SymbolOf[t])) = 1
    /\ [i \in DOMAIN answer.entries |-> answer.entries[i].symbol] = SymbolsOf(request, Asked(request))
    /\ answer.kind = "batch" =>
         \A e \in Given :
           LET listed == {f \in answer.unsupported \cup answer.unavailable : f.symbol = e.symbol}
           IN listed = IF e.row.code = "none" THEN {} ELSE {[symbol |-> e.symbol, code |-> e.row.code]}
    /\ answer.kind = "batch" /\ ~answer.partial =>
         /\ answer.rejected = {} /\ answer.hint # "background_hydration_only"
         /\ \A e \in Given : e.row = Row("loaded", "none", TRUE)
=============================================================================
