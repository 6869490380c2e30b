--------------------------- MODULE PrivateOperations ---------------------------
(* The stored connection of one user to one exchange, the requests that change  *)
(* it (create, update, remove and re-validate;                                  *)
(* private-account/exchange-connections.service.ts with the validators of       *)
(* private-adapters) and the trading and portfolio requests that use it         *)
(* (domains/trading/trading.service.ts, domains/portfolio/portfolio.service.ts, *)
(* domains/exchange-connections/user-exchange-credentials.service.ts).          *)
(*                                                                              *)
(* A request reads the row, awaits the exchange's verdict on the keys and then  *)
(* writes; only the write is a transaction, so other requests run between the   *)
(* read and the write.  An operation reads the keys, calls the exchange, marks  *)
(* the connection with the outcome and, for an order, keeps a record of it.     *)
EXTENDS Naturals, FiniteSets

CONSTANTS
  Requests,          \* each is one call, made once
  ApiKeys, Secrets,  \* the keys users submit
  ValidPairs,        \* the pairs <<api key, secret>> the exchange accepts
  StoredPairs,       \* the verified pairs a connection may start with
  Submissions,       \* what requests submit: a pair, or None for a key left out
  UpstreamFailures,  \* failures of an exchange call other than bad keys
  TradingEnabled     \* isPrivateExchangeTradingAPIEnabled and isTradingEnabled

VARIABLES
  row,        \* the row of ExchangeConnection, or NoRow
  removed,    \* ids of removed rows
  history,    \* rows of ExchangeConnectionVerification
  req,        \* the progress of each request
  verified,   \* pairs the exchange has verified (history variable)
  overtaken   \* a validation of replaced keys left its mask or verdict (history)

connVars == <<row, removed, history, req, verified, overtaken>>

-----------------------------------------------------------------------------
(* How a failure of an exchange's private API becomes a verdict on a            *)
(* connection, an answer to the caller and a mark on the stored connection: the *)
(* classifications of private-account, trading and portfolio.                   *)
(*                                                                              *)
(* A failure is a record [kind, status, word].  kind is the class of the error: *)
(* "request" (an HTTP answer, or a timeout reported as 504), "auth", "error"    *)
(* (any other Error), "app" (an AppError of this server).  word stands for the  *)
(* first pattern its text matches.                                              *)

Failure(kind, status, word) == [kind |-> kind, status |-> status, word |-> word]

Words == {"none", "ip", "permission", "signature", "invalid", "timeout",
          "not_connected", "must_be_verified", "symbol"}

\* classifyExchangeValidationError: status before text for 429 and 5xx, text
\* before status for address and scope problems.
ClassifyRequest(e) ==
  IF e.status = 429 THEN "rate_limited"
  ELSE IF e.status >= 500 THEN "exchange_unavailable"
  ELSE IF e.word = "ip" THEN "ip_not_whitelisted"
  ELSE IF e.word = "permission" \/ e.status \in {401, 403} THEN "insufficient_permissions"
  ELSE IF e.word = "signature" THEN "signature_error"
  ELSE IF e.word = "invalid" THEN "invalid_credentials"
  ELSE "unknown_error"

ClassifyAuth(e) ==
  CASE e.word = "ip"         -> "ip_not_whitelisted"
    [] e.word = "permission" -> "insufficient_permissions"
    [] e.word = "signature"  -> "signature_error"
    [] e.word = "timeout"    -> "timeout"
    [] OTHER                 -> "invalid_credentials"

ClassifyOther(e) == IF e.word = "timeout" THEN "timeout" ELSE "unknown_error"

Classify(e) ==
  CASE e.kind = "request" -> ClassifyRequest(e)
    [] e.kind = "auth"    -> ClassifyAuth(e)
    [] OTHER              -> ClassifyOther(e)

TransientCodes == {"timeout", "rate_limited", "exchange_unavailable"}
KeyCodes == {"invalid_credentials", "signature_error"}

\* toOperationalStatus: the stored status after a validation with this code.
OperationalStatus(code) ==
  CASE code = "verified"                 -> "active"
    [] code \in KeyCodes                 -> "invalid_credentials"
    [] code = "insufficient_permissions" -> "insufficient_scope"
    [] code = "ip_not_whitelisted"       -> "ip_not_allowed"
    [] code \in TransientCodes           -> "temporarily_unreachable"
    [] OTHER                             -> "verification_failed"

\* normalizeFailureCode then toRuntimeFailureStatus: the stored status after a
\* failed operation.  Codes it does not know become "unknown_error".
KnownCodes == TransientCodes \cup KeyCodes
                \cup {"insufficient_permissions", "ip_not_whitelisted", "unsupported_exchange"}

NormalizeFailureCode(code) ==
  CASE code \in KnownCodes           -> code
    [] code = "INSUFFICIENT_SCOPE"   -> "insufficient_permissions"
    [] code = "IP_NOT_ALLOWED"       -> "ip_not_whitelisted"
    [] code = "EXCHANGE_UNAVAILABLE" -> "exchange_unavailable"
    [] OTHER                         -> "unknown_error"

RuntimeFailureStatus(code) ==
  CASE code \in KeyCodes                 -> "reauth_required"
    [] code = "insufficient_permissions" -> "insufficient_scope"
    [] code = "ip_not_whitelisted"       -> "ip_not_allowed"
    [] code \in TransientCodes           -> "temporarily_unreachable"
    [] OTHER                             -> "verification_failed"

\* toOperationAppError of the trading service: its own application codes, which
\* are also the failure code it passes to the sync mark.
NormalizeAppError(e) ==
  IF e.word \in {"not_connected", "must_be_verified"} THEN "exchange_not_connected"
  ELSE IF e.status = 403 THEN "permission_denied"
  ELSE IF e.status = 501 THEN "not_implemented"
  ELSE IF e.status = 400 /\ e.word = "symbol" THEN "invalid_symbol_or_market"
  ELSE "exchange_upstream_error"

TradingCode(e) ==
  LET code == Classify(e) IN
  IF e.kind = "app" THEN NormalizeAppError(e)
  ELSE IF code \in KeyCodes \cup {"insufficient_permissions", "ip_not_whitelisted"}
    THEN "permission_denied"
  ELSE IF code \in {"timeout", "rate_limited"} THEN "temporary_unavailable"
  ELSE IF e.kind = "request" /\ e.status = 400 THEN "invalid_symbol_or_market"
  ELSE IF e.kind = "request" /\ e.status = 404 THEN "not_implemented"
  ELSE "exchange_upstream_error"

\* toOperationAppError of the portfolio service keeps the classified code; an
\* AppError of the server carries no code of this vocabulary.
PortfolioCode(e) == IF e.kind = "app" THEN "unknown_error" ELSE Classify(e)

-----------------------------------------------------------------------------
None == 0
NoRow == [id |-> None]
Purposes == {"read_only", "trading"}
Pairs == ApiKeys \X Secrets
Ids == 1 .. Cardinality(Requests) + 1
Stage == {"idle", "validating", "commit", "label", "remove", "context", "calling",
          "mark", "record", "reject", "done"}

NoVerdict == "none"
Codes == KnownCodes \cup {"verified", "unknown_error", NoVerdict}

\* The keys, the masked key and the verdict are columns of one row.
RowOf(id, api, secret, mask, purpose, code) ==
  [id |-> id, api |-> api, secret |-> secret, mask |-> mask, purpose |-> purpose,
   code |-> code, canUse |-> code = "verified", status |-> OperationalStatus(code)]

KeysOf(r) == <<r.api, r.secret>>
Exists == row # NoRow

IdleReq == [stage |-> "idle", kind |-> "none", read |-> NoRow, pair |-> <<None, None>>,
            mask |-> None, tainted |-> FALSE, purpose |-> "read_only", code |-> NoVerdict]

Init ==
  /\ row \in {NoRow} \cup {RowOf(1, p[1], p[2], p[1], "trading", "verified") : p \in StoredPairs}
  /\ removed = {}
  /\ history = IF Exists THEN {[conn |-> 1, code |-> "verified", purpose |-> "trading"]} ELSE {}
  /\ req = [r \in Requests |-> IdleReq]
  /\ verified = IF Exists THEN {KeysOf(row)} ELSE {}
  /\ overtaken = FALSE

\* An answered request keeps nothing.
Goto(r, stage) ==
  req' = [req EXCEPT ![r] = [IF stage = "done" THEN IdleReq ELSE @ EXCEPT !.stage = stage]]

\* ensureReadOnlyPermissionAllowed.
PermissionAllowed(purpose) == TradingEnabled \/ purpose = "read_only"

Awaits(r, kind, pair, mask, purpose) ==
  req' = [req EXCEPT ![r] = [stage |-> "validating", kind |-> kind, read |-> row, pair |-> pair,
                             mask |-> mask, tainted |-> overtaken /\ Exists /\ mask = row.mask,
                             purpose |-> purpose, code |-> NoVerdict]]

\* createExchangeConnection up to its await: 403, 409 or the validation.
BeginCreate(r, pair, purpose) ==
  /\ req[r].stage = "idle"
  /\ IF PermissionAllowed(purpose) /\ ~Exists
     THEN Awaits(r, "create", pair, pair[1], purpose)
     ELSE Goto(r, "done")
  /\ UNCHANGED <<row, removed, history, verified, overtaken>>

\* mergeCredentials: a key the request leaves out comes from the row it read.
Merged(input, stored) ==
  <<IF input[1] = None THEN stored[1] ELSE input[1],
    IF input[2] = None THEN stored[2] ELSE input[2]>>

ChangesCredentials(input) == input # <<None, None>>

\* Variant: the masked key is never replaced.
MaskKept(input) == row.mask

\* The masked key an update writes: of the submitted key, else as it was read.
MaskWritten(input) == IF input[1] = None THEN row.mask ELSE input[1]

\* updateExchangeConnection up to its await; an update that changes neither
\* keys nor permission only writes the label.
BeginUpdate(r, input, purpose) ==
  /\ req[r].stage = "idle"
  /\ CASE ~Exists \/ ~PermissionAllowed(purpose) -> Goto(r, "done")
       [] Exists /\ PermissionAllowed(purpose)
            /\ ~ChangesCredentials(input) /\ purpose = row.purpose ->
            req' = [req EXCEPT ![r].stage = "label", ![r].read = row]
       [] OTHER -> Awaits(r, "update", Merged(input, KeysOf(row)), MaskWritten(input), purpose)
  /\ UNCHANGED <<row, removed, history, verified, overtaken>>

\* validateStoredExchangeConnection up to its await.
BeginValidate(r) ==
  /\ req[r].stage = "idle"
  /\ IF Exists /\ PermissionAllowed(row.purpose)
     THEN Awaits(r, "validate", KeysOf(row), row.api, row.purpose)
     ELSE Goto(r, "done")
  /\ UNCHANGED <<row, removed, history, verified, overtaken>>

\* LiveExchangeConnectionValidator.validate: a verdict, never an exception.  A
\* pair that does not belong together is answered with a bad signature.
Verdicts(pair) ==
  {Classify(f) : f \in UpstreamFailures}
    \cup IF pair \in ValidPairs THEN {"verified"}
         ELSE {Classify(Failure("request", 400, "signature"))}

ExchangeAnswers(r) ==
  /\ req[r].stage = "validating"
  /\ \E code \in Verdicts(req[r].pair) :
       /\ req' = [req EXCEPT ![r].stage = "commit", ![r].code = code]
       /\ verified' = verified \cup IF code = "verified" THEN {req[r].pair} ELSE {}
  /\ UNCHANGED <<row, removed, history, overtaken>>

\* createVerificationHistory: one row of the verdict, for the connection.
Remembers(id, r) ==
  history' = history \cup {[conn |-> id, code |-> req[r].code, purpose |-> req[r].purpose]}

\* testExchangeConnection: a verdict on submitted keys, remembered but not stored.
BeginTest(r, pair, purpose) ==
  /\ req[r].stage = "idle"
  /\ IF PermissionAllowed(purpose) THEN Awaits(r, "test", pair, pair[1], purpose)
                                   ELSE Goto(r, "done")
  /\ UNCHANGED <<row, removed, history, verified, overtaken>>

CommitTest(r) ==
  /\ req[r].stage = "commit" /\ req[r].kind = "test"
  /\ Remembers(None, r)
  /\ Goto(r, "done")
  /\ UNCHANGED <<row, removed, verified, overtaken>>

\* The uuids of connections, numbered in the order of their creation.
NextId == Cardinality(removed) + 1

\* The transaction of create: the unique key (user, exchange) refuses a second row.
CommitCreate(r) ==
  /\ req[r].stage = "commit" /\ req[r].kind = "create"
  /\ Goto(r, "done")
  /\ IF Exists
     THEN UNCHANGED <<row, history, overtaken>>
     ELSE /\ row' = RowOf(NextId, req[r].pair[1], req[r].pair[2], req[r].mask,
                          req[r].purpose, req[r].code)
          /\ Remembers(NextId, r)
          /\ overtaken' = FALSE
  /\ UNCHANGED <<removed, verified>>

\* Writes are by id: they find the row that was read, perhaps with other keys.
SameId(r) == Exists /\ row.id = req[r].read.id
KeysReplaced(r) == KeysOf(row) # KeysOf(req[r].read)

\* The transaction of update writes every key column, from the request or from
\* the row it read; it throws when the row is gone.
CommitUpdate(r) ==
  /\ req[r].stage = "commit" /\ req[r].kind = "update"
  /\ Goto(r, "done")
  /\ IF SameId(r)
     THEN /\ row' = RowOf(row.id, req[r].pair[1], req[r].pair[2], req[r].mask,
                          req[r].purpose, req[r].code)
          /\ Remembers(row.id, r)
          /\ overtaken' = req[r].tainted
     ELSE UNCHANGED <<row, history, overtaken>>
  /\ UNCHANGED <<removed, verified>>

\* The transaction of validate writes mask and verdict, not the keys.
CommitValidate(r) ==
  /\ req[r].stage = "commit" /\ req[r].kind = "validate"
  /\ Goto(r, "done")
  /\ IF SameId(r)
     THEN /\ row' = RowOf(row.id, row.api, row.secret, req[r].mask, req[r].purpose, req[r].code)
          /\ Remembers(row.id, r)
          /\ overtaken' = (overtaken \/ KeysReplaced(r))
     ELSE UNCHANGED <<row, history, overtaken>>
  /\ UNCHANGED <<removed, verified>>

\* The write of a label-only update: no column the model keeps.
CommitLabel(r) ==
  /\ req[r].stage = "label"
  /\ Goto(r, "done")
  /\ UNCHANGED <<row, removed, history, verified, overtaken>>

\* removeExchangeConnection: a read, then the delete by id.  History rows stay,
\* without their connection.
BeginRemove(r) ==
  /\ req[r].stage = "idle"
  /\ req' = [req EXCEPT ![r].stage = IF Exists THEN "remove" ELSE "done", ![r].read = row]
  /\ UNCHANGED <<row, removed, history, verified, overtaken>>

CommitRemove(r) ==
  /\ req[r].stage = "remove"
  /\ Goto(r, "done")
  /\ IF SameId(r)
     THEN /\ row' = NoRow
          /\ removed' = removed \cup {row.id}
          /\ history' = {IF h.conn = row.id THEN [h EXCEPT !.conn = None] ELSE h : h \in history}
     ELSE UNCHANGED <<row, removed, history>>
  /\ UNCHANGED <<verified, overtaken>>

RequestStep(r) ==
  \/ \E pair \in Submissions \cap Pairs, purpose \in Purposes :
       BeginCreate(r, pair, purpose) \/ BeginTest(r, pair, purpose)
  \/ \E input \in Submissions, purpose \in Purposes : BeginUpdate(r, input, purpose)
  \/ BeginValidate(r) \/ BeginRemove(r)
  \/ ExchangeAnswers(r)
  \/ CommitTest(r) \/ CommitCreate(r) \/ CommitUpdate(r) \/ CommitValidate(r)
  \/ CommitLabel(r) \/ CommitRemove(r)
-------------------------------------------------------------------------------
\* Every verdict a stored row carries was recorded with it: a history row of the
\* same connection has the same code and purpose, whatever ran in between.
HistoryExplainsRow ==
  Exists => \E h \in history : /\ h.conn = row.id
                               /\ h.code = row.code
                               /\ h.purpose = row.purpose

\* A row that no validation of replaced keys has overwritten shows the masked form of the key it
\* stores, and is usable only if the exchange verified exactly the stored pair.
VerdictOfKeys ==
  Exists /\ ~overtaken =>
    /\ row.mask = row.api
    /\ row.canUse => KeysOf(row) \in verified

-----------------------------------------------------------------------------
(* Trading and portfolio operations.                                            *)

CONSTANT MaxFaults      \* bound on database failures while an order is recorded

VARIABLES
  op,         \* per request: the connection and keys it read, failure it met
  placed,     \* requests whose order the exchange has accepted
  orders,     \* rows of OrderRequest
  used,       \* keys ever sent to the exchange by an operation (history)
  faults

opVars == <<op, placed, orders, used, faults>>

\* Each request is one of finitely many, and a failure has a class, an HTTP
\* status and a text; what is submitted is a key or None.
OpAssumption ==
  /\ IsFiniteSet(Requests) /\ MaxFaults \in Nat
  /\ StoredPairs \subseteq Pairs
  /\ Submissions \subseteq (ApiKeys \cup {None}) \X (Secrets \cup {None})
  /\ UpstreamFailures \subseteq
       [kind : {"request", "auth", "error"}, status : Nat, word : Words]
vars == <<connVars, opVars>>

NoFailure == Failure("none", 0, "none")
IdleOp == [conn |-> None, keys |-> <<None, None>>, failure |-> NoFailure, lost |-> FALSE]

OpInit ==
  /\ Init
  /\ op = [r \in Requests |-> IdleOp]
  /\ placed = {} /\ orders = {} /\ used = {} /\ faults = 0

AppError(status, word) == Failure("app", status, word)

\* requireUserOwnedExchangeCredentials: 404, 400 or 403, else the stored keys.
CredentialFailure(trade) ==
  CASE ~Exists                             -> AppError(404, "not_connected")
    [] Exists /\ ~row.canUse               -> AppError(400, "must_be_verified")
    [] Exists /\ row.canUse /\ trade
         /\ row.purpose # "trading"        -> AppError(403, "permission")
    [] OTHER                               -> NoFailure

\* createTradingOrder: getTradingContext reads the connection and, with a second
\* query, the keys.  The feature flags refuse the call first.
BeginOrder(r) ==
  /\ req[r].stage = "idle"
  /\ req' = [req EXCEPT ![r].kind = "order",
                        ![r].stage = IF TradingEnabled /\ Exists THEN "context" ELSE "done"]
  /\ op' = [op EXCEPT ![r].conn = IF Exists THEN row.id ELSE None]
  /\ UNCHANGED <<row, removed, history, verified, overtaken, placed, orders, used, faults>>

\* An order that gets no keys is refused without a mark.
OrderKeys(r) ==
  /\ req[r].stage = "context"
  /\ LET failure == CredentialFailure(TRUE) IN
       IF failure = NoFailure
       THEN /\ op' = [op EXCEPT ![r].keys = KeysOf(row)]
            /\ Goto(r, "calling")
       ELSE /\ op' = [op EXCEPT ![r].failure = failure]
            /\ Goto(r, "done")
  /\ UNCHANGED <<row, removed, history, verified, overtaken, placed, orders, used, faults>>

\* getPortfolioSnapshot, getAssetHistory, getOrderChance, getOpenOrders,
\* getRecentFills: the keys are read inside the marked operation.
BeginRead(r, kind) ==
  /\ req[r].stage = "idle"
  /\ kind = "trading" => TradingEnabled
  /\ LET failure == CredentialFailure(FALSE) IN
       IF failure = NoFailure
       THEN /\ op' = [op EXCEPT ![r].keys = KeysOf(row)]
            /\ req' = [req EXCEPT ![r].kind = kind, ![r].stage = "calling"]
       ELSE /\ op' = [op EXCEPT ![r].failure = failure]
            /\ req' = [req EXCEPT ![r].kind = kind, ![r].stage = "mark"]
  /\ UNCHANGED <<row, removed, history, verified, overtaken, placed, orders, used, faults>>

\* The exchange accepts good keys or fails; an accepted order's answer may be lost.
Answers(r, failure, accepts) ==
  /\ op' = [op EXCEPT ![r].failure = failure, ![r].lost = accepts /\ failure # NoFailure]
  /\ placed' = placed \cup IF accepts THEN {r} ELSE {}

ProviderCall(r) ==
  /\ req[r].stage = "calling"
  /\ Goto(r, "mark")
  /\ used' = used \cup {op[r].keys}
  /\ \/ /\ op[r].keys \in ValidPairs
        /\ Answers(r, NoFailure, req[r].kind = "order")
     \/ \E f \in UpstreamFailures, accepts \in BOOLEAN :
          /\ accepts => req[r].kind = "order" /\ op[r].keys \in ValidPairs /\ f.status >= 500
          /\ Answers(r, f, accepts)
     \/ /\ op[r].keys \notin ValidPairs
        /\ Answers(r, Failure("request", 400, "signature"), FALSE)
  /\ UNCHANGED <<row, removed, history, verified, overtaken, orders, faults>>

\* The failure code executeTradingOperation or executePortfolioOperation hands on.
MarkCode(r) == IF req[r].kind = "portfolio" THEN PortfolioCode(op[r].failure)
               ELSE TradingCode(op[r].failure)

\* Variant: a mark that fails is an error of the operation.
MarkSyncMayThrow(r) ==
  /\ req[r].stage = "mark"
  /\ \E next \in {"record", "reject"} : Goto(r, IF req[r].kind = "order" THEN next ELSE "done")
  /\ UNCHANGED <<row, removed, history, verified, overtaken, opVars>>

\* markExchangeConnectionSync: updateMany by user and exchange, whatever row is
\* there now; it never throws.
MarkSync(r) ==
  /\ req[r].stage = "mark"
  /\ row' = IF ~Exists THEN NoRow
            ELSE [row EXCEPT !.status =
                    IF op[r].failure = NoFailure THEN "active"
                    ELSE RuntimeFailureStatus(NormalizeFailureCode(MarkCode(r)))]
  /\ Goto(r, IF req[r].kind # "order" THEN "done"
             ELSE IF op[r].failure = NoFailure THEN "record"
             ELSE "reject")
  /\ UNCHANGED <<removed, history, verified, overtaken, opVars>>

\* recordOrderRequest: the foreign key refuses a connection removed meanwhile,
\* and the database may fail.
Inserts(r, status) ==
  /\ Exists /\ row.id = op[r].conn
  /\ orders' = orders \cup {[req |-> r, status |-> status]}
  /\ Goto(r, "done")
  /\ UNCHANGED <<op, faults>>

InsertFails(r, next) ==
  /\ \/ /\ ~(Exists /\ row.id = op[r].conn)
        /\ UNCHANGED faults
     \/ /\ faults < MaxFaults
        /\ faults' = faults + 1
  /\ Goto(r, next)
  /\ UNCHANGED <<op, orders>>

RecordSubmitted(r) ==
  /\ req[r].stage = "record"
  /\ Inserts(r, "submitted") \/ InsertFails(r, "reject")
  /\ UNCHANGED <<row, removed, history, verified, overtaken, placed, used>>

\* The catch of createTradingOrder: also where a failed record of an accepted
\* order ends.
RecordRejected(r) ==
  /\ req[r].stage = "reject"
  /\ Inserts(r, "rejected") \/ InsertFails(r, "done")
  /\ UNCHANGED <<row, removed, history, verified, overtaken, placed, used>>

OpNext ==
  \E r \in Requests :
    \/ RequestStep(r) /\ UNCHANGED opVars
    \/ BeginOrder(r) \/ OrderKeys(r)
    \/ \E kind \in {"portfolio", "trading"} : BeginRead(r, kind)
    \/ ProviderCall(r) \/ MarkSync(r)
    \/ RecordSubmitted(r) \/ RecordRejected(r)

OpSpec == OpInit /\ [][OpNext]_vars
-------------------------------------------------------------------------------
\* The stored row, the requests and the records have their types.
TypeOK ==
  /\ Exists => /\ row.id \in Ids
               /\ KeysOf(row) \in Pairs /\ row.mask \in ApiKeys
               /\ row.purpose \in Purposes /\ row.code \in Codes
  /\ removed \subseteq Ids
  /\ used \cup verified \subseteq Pairs
  /\ placed \subseteq Requests
  /\ \A r \in Requests : req[r].stage \in Stage
  /\ orders \subseteq [req : Requests, status : {"submitted", "rejected"}]
  /\ faults \in 0 .. MaxFaults

\* The keys an operation sends to the exchange were verified together: what the
\* refusal of requireUserOwnedExchangeCredentials says ("must be verified before
\* using private APIs").
OnlyVerifiedKeysUsed == used \subseteq verified

\* The order book of the server and of the exchange: one record per order; a
\* submitted record is of an accepted order; an accepted order without one had
\* its answer lost, its connection removed or the database failing meanwhile.
OrderLedger ==
  /\ \A a, b \in orders : a.req = b.req => a = b
  /\ \A o \in orders : o.status = "submitted" => o.req \in placed
  /\ \A r \in placed :
       \/ req[r].stage \in {"mark", "record"}
       \/ [req |-> r, status |-> "submitted"] \in orders
       \/ op[r].lost \/ op[r].conn \in removed \/ faults > 0

\* Users are sent to re-enter their keys only when the exchange refused keys an
\* operation had sent: never for a failure of the exchange or of this server.
ReauthMeansRefused ==
  Exists /\ row.status = "reauth_required" =>
    \E r \in Requests : /\ op[r].failure # NoFailure
                        /\ Classify(op[r].failure) \in KeyCodes
                        /\ op[r].keys \in used

\* A verdict and a mask of the row belong to the keys that it holds, the record
\* of verifications explains what the row says, and one is told to sign in again
\* only by an exchange that refused the keys.
VerdictOfStoredKeys ==
  TypeOK /\ HistoryExplainsRow /\ VerdictOfKeys /\ ReauthMeansRefused
===============================================================================
