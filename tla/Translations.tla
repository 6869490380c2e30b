---------------------------- MODULE Translations ----------------------------
(***************************************************************************)
(* Translation (src/src/domains/translation/translation.service.ts) and    *)
(* the coin descriptions that use it (coin-info.service.ts): a memory      *)
(* cache without expiry over a table, one provider, and three kinds of     *)
(* call: a single text, a batch, and a coin description.  A batch that     *)
(* cannot translate a text answers with the original and writes a row      *)
(* without a translation.  A cached translation is abstracted to whether   *)
(* it has text ("text") or not ("null").                                   *)
(***************************************************************************)
EXTENDS Naturals, Sequences

CONSTANTS Caller,       \* concurrent calls
          Text,         \* normalized texts, each with its cache key
          Empty, Long,  \* texts that normalize to nothing, or exceed the limit
          MaxBatch,     \* texts in a batch
          MaxRestarts

VARIABLES configured,   \* a provider and its credentials are in the environment
          memory,       \* translationCache
          rows,         \* the table translation_cache
          call, restarts

vars == <<configured, memory, rows, call, restarts>>

Idle == [kind |-> "none", pc |-> "idle", todo |-> <<>>, got |-> <<>>, put |-> "none"]
Kind == {"single", "batch", "description"}

\* What a call can say of a text

Entry(kind) == IF kind = "batch" THEN "batch" ELSE "translate"

Init ==
  /\ configured \in BOOLEAN
  /\ memory = [t \in Text |-> "none"] /\ rows = memory
  /\ call = [c \in Caller |-> Idle] /\ restarts = 0

Mine(c) == Head(call[c].todo)

\* An error of translateText: a description gives the reason, a batch falls
\* back, a single call fails.
Failed(c) == IF call[c].kind = "description" THEN "explained" ELSE "failed"

\* The call has its answer for the text at hand and goes on to the next.
Says(c, answer) ==
  LET rest == Tail(call[c].todo)
  IN  call' = [call EXCEPT ![c].todo = rest, ![c].got = Append(@, answer),
                           ![c].pc = IF rest = <<>> THEN "done" ELSE Entry(call[c].kind)]

Goes(c, pc) == call' = [call EXCEPT ![c].pc = pc]

Of(cached) == IF cached = "text" THEN "translated" ELSE "null"

\* A description is asked for a text that is not empty (buildDescription).
Begins(c, kind, texts) ==
  /\ call[c] = Idle
  /\ kind # "batch" => Len(texts) = 1
  /\ kind = "description" => texts[1] \notin Empty
  /\ call' = [call EXCEPT ![c] = [Idle EXCEPT !.kind = kind, !.pc = Entry(kind), !.todo = texts]]
  /\ UNCHANGED <<configured, memory, rows, restarts>>

\* translateBatch at a text: an empty one is its own translation, a long one
\* is refused, a cached one is answered whether or not a provider is there.
Batches(c) ==
  LET t == Mine(c)
  IN  /\ call[c].pc = "batch"
      /\ IF t \in Empty THEN Says(c, "original")
         ELSE IF t \in Long THEN Says(c, "failed")
         ELSE IF memory[t] # "none" THEN Says(c, Of(memory[t]))
         ELSE Goes(c, "batchrow")
      /\ UNCHANGED <<configured, memory, rows, restarts>>

\* translateText up to its first await
Translates(c) ==
  LET t == Mine(c)
  IN  /\ call[c].pc = "translate"
      /\ IF ~configured /\ call[c].kind = "batch" THEN Goes(c, "fallback")
         ELSE IF ~configured \/ t \in Empty \cup Long THEN Says(c, Failed(c))
         ELSE IF memory[t] # "none" THEN Says(c, Of(memory[t]))
         ELSE Goes(c, "row")
      /\ UNCHANGED <<configured, memory, rows, restarts>>

\* readCachedTranslation: a row goes into memory and is the answer.  Without
\* one, or on an error of the table, a batch goes on to translateText, and
\* translateText to the provider.
ReadsRow(c) ==
  LET t == Mine(c)
  IN  /\ call[c].pc \in {"batchrow", "row"}
      /\ \/ /\ rows[t] # "none"
            /\ memory' = [memory EXCEPT ![t] = rows[t]] /\ Says(c, Of(rows[t]))
         \/ /\ Goes(c, IF call[c].pc = "row" THEN "provider" ELSE "translate")
            /\ UNCHANGED memory
      /\ UNCHANGED <<configured, rows, restarts>>

\* writeCachedTranslation: memory at once, the row later
Keeps(c, cached) ==
  /\ memory' = [memory EXCEPT ![Mine(c)] = cached]
  /\ call' = [call EXCEPT ![c].pc = "write", ![c].put = cached]

\* The provider answers, or fails, after which only a batch has something to
\* store.
Provided(c) ==
  /\ call[c].pc = "provider"
  /\ \/ Keeps(c, "text")
     \/ /\ IF call[c].kind = "batch" THEN Goes(c, "fallback") ELSE Says(c, Failed(c))
        /\ UNCHANGED memory
  /\ UNCHANGED <<configured, rows, restarts>>

\* The catch of translateBatch stores a translation without text, over
\* whatever is there.
FallsBack(c) ==
  /\ call[c].pc = "fallback"
  /\ Keeps(c, "null")
  /\ UNCHANGED <<configured, rows, restarts>>

\* The row is upserted, or its failure swallowed; then the call answers, a
\* batch that fell back with the original text.
Writes(c) ==
  /\ call[c].pc = "write"
  /\ \/ rows' = [rows EXCEPT ![Mine(c)] = call[c].put]
     \/ UNCHANGED rows
  /\ Says(c, IF call[c].put = "text" THEN "translated" ELSE "original")
  /\ UNCHANGED <<configured, memory, restarts>>

Leaves(c) ==
  /\ call[c].pc = "done"
  /\ call' = [call EXCEPT ![c] = Idle]
  /\ UNCHANGED <<configured, memory, rows, restarts>>

\* A new process, perhaps with other settings
Restart ==
  /\ restarts < MaxRestarts
  /\ restarts' = restarts + 1
  /\ configured' \in BOOLEAN
  /\ memory' = [t \in Text |-> "none"] /\ call' = [c \in Caller |-> Idle]
  /\ UNCHANGED rows

Next ==
  \/ \E c \in Caller, kind \in Kind, n \in 1 .. MaxBatch : \E texts \in [1 .. n -> Text] : Begins(c, kind, texts)
  \/ \E c \in Caller : Batches(c) \/ Translates(c) \/ ReadsRow(c) \/ Provided(c) \/ FallsBack(c)
                         \/ Writes(c) \/ Leaves(c)
  \/ Restart

Spec == Init /\ [][Next]_vars

----------------------------------------------------------------------------

(* A coin description without Korean text says why: the translation that   *)
(* could not run is a reason, not a translation without text.              *)
(* docs/api-contracts.md:1109 promises the reason, and :1100 that provider *)
(* failures are not cached as long-lived successes.                        *)
DescriptionSaysWhy ==
  \A c \in Caller : call[c].kind = "description" =>
    \A i \in 1 .. Len(call[c].got) : call[c].got[i] # "null"
=============================================================================
