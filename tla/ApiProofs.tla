---------------------------- MODULE ApiProofs -----------------------------
(***************************************************************************)
(* Proofs about what the API keeps, answers and watches.  A saved swap is  *)
(* read back as it was, for any hashes, texts and times: the saves of      *)
(* SwapSync may replace a row by the entity.  The front end may conclude   *)
(* what it does from the status of an answer, for every error of the       *)
(* domain and whatever the paymaster said.  Every outage is told, and      *)
(* prices are served old only when new ones were refused, for any          *)
(* components, retries, requests and lengths of the run.                   *)
(***************************************************************************)
EXTENDS SwapRows, Failures, ServiceHealth, TLAPS

-----------------------------------------------------------------------------
(* The rows of the swaps.                                                  *)

\* Each status but pending has a time column, and no two share one.
LEMMA TimeColumnOfStatus ==
  /\ DOMAIN TimeColumn = SwapStatus \ {"pending"}
  /\ \A status \in SwapStatus \ {"pending"} : TimeColumn[status] \in TimeColumns
<1>1. DOMAIN TimeColumn = SwapStatus \ {"pending"}
  BY DEF TimeColumn, SwapStatus
<1>. QED BY <1>1 DEF TimeColumns

\* The columns of a state give the state back, though the hashes of committed
\* and completed share tx_hash and every save nulls the columns it does not
\* use (stateToColumns, columnsToState).
THEOREM StateIsReadBack ==
  ASSUME NEW state \in State
  PROVE  ColumnsToState(StateToColumns(state)) = state
<1> DEFINE columns == StateToColumns(state)
<1>1. /\ columns.status = state.status
      /\ columns.txHash = IF state.status \in HashStatus THEN state.text ELSE Null
      /\ columns.errorMessage = IF state.status = "failed" THEN state.text ELSE Null
      /\ \A column \in TimeColumns : columns.times[column] =
           IF state.status # "pending" /\ column = TimeColumn[state.status]
           THEN state.at ELSE Null
  BY DEF StateToColumns
<1>2. /\ state = [status |-> state.status, text |-> state.text, at |-> state.at]
      /\ state.status \in SwapStatus
      /\ state.status \notin TextStatus => state.text = Null
      /\ state.status = "pending" => state.at = Null
  BY DEF State
<1>3. ColumnsToState(columns).text = state.text
  <2>1. CASE state.status \in HashStatus
    BY <1>1, <2>1 DEF ColumnsToState
  <2>2. CASE state.status = "failed"
    BY <1>1, <2>2 DEF ColumnsToState, HashStatus
  <2>3. CASE state.status \notin TextStatus
    BY <1>1, <1>2, <2>3 DEF ColumnsToState, TextStatus
  <2>. QED BY <2>1, <2>2, <2>3 DEF TextStatus
<1>4. ColumnsToState(columns).at = state.at
  <2>1. CASE state.status = "pending"
    BY <1>1, <1>2, <2>1 DEF ColumnsToState
  <2>2. CASE state.status # "pending"
    BY <1>1, <1>2, <2>2, TimeColumnOfStatus DEF ColumnsToState
  <2>. QED BY <2>1, <2>2
<1>5. ColumnsToState(columns) =
        [status |-> columns.status, text |-> ColumnsToState(columns).text,
         at |-> ColumnsToState(columns).at]
  BY DEF ColumnsToState
<1>. QED BY <1>1, <1>2, <1>3, <1>4, <1>5

\* The fields that the update of save leaves out.
SameForGood(old, new) ==
  /\ new.data.direction = old.data.direction
  /\ new.data.base = old.data.base
  /\ new.data.source = old.data.source
  /\ new.data.invoice = old.data.invoice

\* No method of Swap changes a field that the update of save leaves out.
LEMMA ChangesKeepFixedColumns ==
  ASSUME NEW old \in Swap, NEW new \in Changes(old)
  PROVE  SameForGood(old, new) /\ new \in Swap
<1>. SUFFICES SameForGood(old, new) /\ new.data \in Data /\ new.state \in State
           /\ new = [data |-> new.data, state |-> new.state]
  BY DEF Swap
<1>0. /\ old = [data |-> old.data, state |-> old.state]
      /\ old.data \in Data /\ old.state \in State
  BY DEF Swap
<1>1. ASSUME NEW status \in SwapStatus \ {"pending"}, NEW text \in Text, NEW time \in Time,
             new = Marked(old, status, text, time)
      PROVE  SameForGood(old, new) /\ new.data \in Data /\ new.state \in State
             /\ new = [data |-> new.data, state |-> new.state]
  <2>1. /\ new.data = old.data
        /\ new.state = [status |-> status,
                        text |-> IF status \in TextStatus THEN text ELSE Null,
                        at |-> time]
        /\ new = [data |-> new.data, state |-> new.state]
    BY <1>0, <1>1 DEF Marked
  <2>2. new.state \in State
    BY <2>1 DEF State, Nullable
  <2>. QED BY <1>0, <2>1, <2>2 DEF SameForGood
<1>2. ASSUME NEW address \in Text, new = WithAddress(old, address)
      PROVE  SameForGood(old, new) /\ new.data \in Data /\ new.state \in State
             /\ new = [data |-> new.data, state |-> new.state]
  <2>1. CASE old.data.direction = BitcoinToStarknet
    <3>1. /\ new.data = [old.data EXCEPT !.deposit = address]
          /\ new.state = old.state
          /\ new = [data |-> new.data, state |-> new.state]
      BY <1>0, <1>2, <2>1 DEF WithAddress
    <3>2. new.data \in Data
      BY <1>0, <2>1, <3>1 DEF Data, Nullable, BitcoinToStarknet, LightningToStarknet
    <3>. QED BY <1>0, <3>1, <3>2 DEF SameForGood, Data
  <2>2. CASE old.data.direction # BitcoinToStarknet
    BY <1>0, <1>2, <2>2 DEF WithAddress, SameForGood
  <2>. QED BY <2>1, <2>2
<1>3. ASSUME NEW hash \in Text, NEW time \in Time, new = WithClaimAttempt(old, hash, time)
      PROVE  SameForGood(old, new) /\ new.data \in Data /\ new.state \in State
             /\ new = [data |-> new.data, state |-> new.state]
  <2>1. /\ new.data = [old.data EXCEPT !.attemptAt = time, !.claimTx = hash]
        /\ new.state = old.state
        /\ new = [data |-> new.data, state |-> new.state]
    BY <1>0, <1>3 DEF WithClaimAttempt, Data
  <2>2. new.data \in Data
    BY <1>0, <2>1 DEF Data, Nullable
  <2>. QED BY <1>0, <2>1, <2>2 DEF SameForGood, Data
<1>. QED BY <1>1, <1>2, <1>3 DEF Changes

\* A saved swap is read back as it was saved, over whatever row an older
\* version of it left: the update writes every column that can differ (save,
\* toSwap, buildSwapData).
THEOREM SavedIsReadBack ==
  ASSUME NEW old \in Swap, NEW new \in Swap, SameForGood(old, new)
  PROVE  ToSwap(Upserted(Inserted(old), new)) = new
<1> DEFINE row == Upserted(Inserted(old), new)
<1>1. row = Inserted(new)
  <2> DEFINE was == Inserted(old)
  <2>1. was = [direction |-> was.direction, base |-> was.base, source |-> was.source,
               invoice |-> was.invoice, deposit |-> was.deposit,
               attemptAt |-> was.attemptAt, claimTx |-> was.claimTx,
               columns |-> was.columns]
    BY DEF Inserted
  <2>2. /\ was.direction = new.data.direction /\ was.base = new.data.base
        /\ was.source = new.data.source /\ was.invoice = new.data.invoice
    BY DEF Inserted, SameForGood
  <2>3. row = [direction |-> was.direction, base |-> was.base, source |-> was.source,
               invoice |-> was.invoice, deposit |-> new.data.deposit,
               attemptAt |-> new.data.attemptAt, claimTx |-> new.data.claimTx,
               columns |-> StateToColumns(new.state)]
    <3>1. row = Upserted(was, new)
      OBVIOUS
    <3>. HIDE DEF was, row
    <3>. QED BY <2>1, <3>1 DEF Upserted
  <2>. QED BY <2>2, <2>3 DEF Inserted
<1>2. /\ new = [data |-> new.data, state |-> new.state]
      /\ new.data \in Data /\ new.state \in State
  BY DEF Swap
<1>3. ToSwap(row).state = new.state
  BY <1>1, <1>2, StateIsReadBack DEF ToSwap, Inserted
<1>4. ToSwap(row).data = new.data
  BY <1>1, <1>2 DEF ToSwap, Inserted, Data
<1>5. ToSwap(row) = [data |-> ToSwap(row).data, state |-> ToSwap(row).state]
  BY DEF ToSwap
<1>. QED BY <1>2, <1>3, <1>4, <1>5

\* Whatever a method of Swap did to an entity, its save is read back by
\* every finder; SwapSync keeps the reduced entity as the row.
THEOREM ChangedIsReadBack ==
  ASSUME NEW old \in Swap, NEW new \in Changes(old)
  PROVE  /\ ToSwap(Upserted(Inserted(old), new)) = new
         /\ Reduced(ToSwap(Upserted(Inserted(old), new))) = Reduced(new)
         /\ TxHash(ToSwap(Upserted(Inserted(old), new))) = TxHash(new)
BY SavedIsReadBack, ChangesKeepFixedColumns

\* findActive selects the rows of the swaps that are not terminal: the list
\* of statuses in its query and Swap.isTerminal are written separately.
THEOREM ActiveRowsAreNotTerminal ==
  ASSUME NEW swap \in Swap
  PROVE  IsActiveRow(Inserted(swap)) <=> ~IsTerminal(swap.state.status, swap.data.direction)
BY DEF IsActiveRow, Inserted, StateToColumns, IsTerminal, TerminalStatus

-----------------------------------------------------------------------------
(* The errors and their answers.                                           *)

\* The errors of each file, by name.
LEMMA Classes ==
  /\ DOMAIN GeneralCode = {"NotFoundError", "InvalidStateTransitionError", "ValidationError",
                           "UnauthorizedError", "AlreadyExistsError", "TimeoutError"}
  /\ DOMAIN ServiceCode = {"AccountNotDeployedError", "BuildExpiredError", "ForbiddenError",
                           "ExternalServiceError", "PaymasterServiceError",
                           "UnsafeExternalCallError"}
  /\ DOMAIN AuthCode = {"InvalidSessionIdError", "SessionNotFoundError", "SessionExpiredError",
                        "ChallengeNotFoundError", "ChallengeExpiredError",
                        "ChallengeAlreadyUsedError", "InvalidChallengeError",
                        "AuthenticationFailedError", "RegistrationFailedError"}
  /\ DOMAIN AccountCode = {"InvalidAccountIdError", "InvalidUsernameError",
                           "InvalidStarknetAddressError", "AccountNotFoundError",
                           "AccountAlreadyExistsError", "AccountDeploymentError",
                           "InvalidAccountStateError"}
  /\ DOMAIN SwapCode = {"InvalidBitcoinAddressError", "BitcoinAddressNetworkMismatchError",
                        "InvalidLightningInvoiceError", "LightningInvoiceExpiredError",
                        "SwapNotFoundError", "SwapExpiredError", "InvalidSwapStateError",
                        "SwapAmountError", "SwapCreationError", "SwapOwnershipError"}
  /\ DOMAIN PaymentCode = {"PaymentParsingError", "InvalidPaymentAmountError",
                           "SameAddressPaymentError", "UnsupportedNetworkError",
                           "UnsupportedTokenError", "InvalidPaymentAddressError"}
  /\ DOMAIN UserCode = {"InvalidUserSettingsIdError", "InvalidTransactionIdError",
                        "InvalidTransactionHashError", "UnsupportedLanguageError",
                        "UserSettingsNotFoundError", "TransactionNotFoundError"}
  /\ DOMAIN CurrencyCode = {"UnsupportedCurrencyError"}
BY DEF GeneralCode, ServiceCode, AuthCode, AccountCode, SwapCode, PaymentCode, UserCode,
       CurrencyCode

\* The codes and the classes that are answered with 401, 404.
SessionCodes == {"UNAUTHORIZED", "AUTHENTICATION_FAILED", "SESSION_NOT_FOUND", "SESSION_EXPIRED"}
MissingCodes == {"ACCOUNT_NOT_FOUND", "SWAP_NOT_FOUND", "USER_SETTINGS_NOT_FOUND"}
SessionErrors == {"UnauthorizedError", "AuthenticationFailedError", "SessionNotFoundError",
                  "SessionExpiredError"}
MissingErrors == {"AccountNotFoundError", "SwapNotFoundError", "UserSettingsNotFoundError"}

Fits(class, code) ==
  /\ code \in ErrorCode
  /\ code \in SessionCodes <=> class \in SessionErrors
  /\ code \in MissingCodes <=> class \in MissingErrors

LEMMA GeneralFits == \A class \in DOMAIN GeneralCode : Fits(class, GeneralCode[class])
BY Classes DEF Fits, GeneralCode, ErrorCode, SessionCodes, SessionErrors, MissingCodes, MissingErrors

LEMMA ServiceFits == \A class \in DOMAIN ServiceCode : Fits(class, ServiceCode[class])
BY Classes DEF Fits, ServiceCode, ErrorCode, SessionCodes, SessionErrors, MissingCodes, MissingErrors

LEMMA AuthFits == \A class \in DOMAIN AuthCode : Fits(class, AuthCode[class])
BY Classes DEF Fits, AuthCode, ErrorCode, SessionCodes, SessionErrors, MissingCodes, MissingErrors

LEMMA AccountFits == \A class \in DOMAIN AccountCode : Fits(class, AccountCode[class])
BY Classes DEF Fits, AccountCode, ErrorCode, SessionCodes, SessionErrors, MissingCodes, MissingErrors

LEMMA SwapFits == \A class \in DOMAIN SwapCode : Fits(class, SwapCode[class])
BY Classes DEF Fits, SwapCode, ErrorCode, SessionCodes, SessionErrors, MissingCodes, MissingErrors

LEMMA PaymentFits == \A class \in DOMAIN PaymentCode : Fits(class, PaymentCode[class])
BY Classes DEF Fits, PaymentCode, ErrorCode, SessionCodes, SessionErrors, MissingCodes, MissingErrors

LEMMA UserFits == \A class \in DOMAIN UserCode : Fits(class, UserCode[class])
BY Classes DEF Fits, UserCode, ErrorCode, SessionCodes, SessionErrors, MissingCodes, MissingErrors

LEMMA CurrencyFits == \A class \in DOMAIN CurrencyCode : Fits(class, CurrencyCode[class])
BY Classes DEF Fits, CurrencyCode, ErrorCode, SessionCodes, SessionErrors, MissingCodes, MissingErrors

LEMMA CodesFit ==
  ASSUME NEW error \in Error, error.class \in DomainClass
  PROVE  Fits(error.class, CodeOf(error))
<1> DEFINE class == error.class
<1>1. CASE class = InsufficientBalance
  <2>1. Fits(InsufficientBalance, InsufficientBalanceCode(error))
    BY DEF Fits, InsufficientBalance, InsufficientBalanceCode, ErrorCode, SessionCodes,
           SessionErrors, MissingCodes, MissingErrors
  <2>2. InsufficientBalance \notin DOMAIN GeneralCode
    BY Classes DEF InsufficientBalance
  <2> QED BY <1>1, <2>1, Classes DEF CodeOf, InsufficientBalance
<1>2. CASE class \in DOMAIN GeneralCode
  BY <1>2, GeneralFits, Classes DEF CodeOf, InsufficientBalance
<1>3. CASE class \in DOMAIN ServiceCode
  BY <1>3, ServiceFits, Classes DEF CodeOf, InsufficientBalance
<1>4. CASE class \in DOMAIN AuthCode
  BY <1>4, AuthFits, Classes DEF CodeOf, InsufficientBalance
<1>5. CASE class \in DOMAIN AccountCode
  BY <1>5, AccountFits, Classes DEF CodeOf, InsufficientBalance
<1>6. CASE class \in DOMAIN SwapCode
  BY <1>6, SwapFits, Classes DEF CodeOf, InsufficientBalance
<1>7. CASE class \in DOMAIN PaymentCode
  BY <1>7, PaymentFits, Classes DEF CodeOf, InsufficientBalance
<1>8. CASE class \in DOMAIN UserCode
  BY <1>8, UserFits, Classes DEF CodeOf, InsufficientBalance
<1>9. CASE class \in DOMAIN CurrencyCode
  BY <1>9, CurrencyFits, Classes DEF CodeOf, InsufficientBalance
<1> QED
  BY <1>1, <1>2, <1>3, <1>4, <1>5, <1>6, <1>7, <1>8, <1>9 DEF DomainClass

\* The codes that the theorems below need.
LEMMA CodesOf ==
  ASSUME NEW error
  PROVE  /\ error.class \in DOMAIN GeneralCode => CodeOf(error) = GeneralCode[error.class]
         /\ error.class \in DOMAIN ServiceCode => CodeOf(error) = ServiceCode[error.class]
         /\ error.class \in DOMAIN AccountCode => CodeOf(error) = AccountCode[error.class]
<1>1. CASE error.class \in DOMAIN GeneralCode
  BY <1>1, Classes DEF CodeOf, InsufficientBalance
<1>2. CASE error.class \in DOMAIN ServiceCode
  BY <1>2, Classes DEF CodeOf, InsufficientBalance
<1>3. CASE error.class \in DOMAIN AccountCode
  BY <1>3, Classes DEF CodeOf, InsufficientBalance
<1> QED BY <1>1, <1>2, <1>3, Classes

LEMMA SomeCodes ==
  /\ GeneralCode["InvalidStateTransitionError"] = "INVALID_ACCOUNT_STATE"
  /\ AccountCode["AccountNotFoundError"] = "ACCOUNT_NOT_FOUND"
  /\ AccountCode["InvalidAccountStateError"] = "INVALID_ACCOUNT_STATE"
  /\ ServiceCode["PaymasterServiceError"] = "PAYMASTER_SERVICE_ERROR"
  /\ ServiceCode["ExternalServiceError"] = "EXTERNAL_SERVICE_ERROR"
BY DEF GeneralCode, AccountCode, ServiceCode

LEMMA SomeStatuses ==
  /\ HttpStatus("INVALID_ACCOUNT_STATE") = 400
  /\ HttpStatus("ACCOUNT_NOT_FOUND") = 404
  /\ HttpStatus("PAYMASTER_SERVICE_ERROR") = 502
  /\ HttpStatus("EXTERNAL_SERVICE_ERROR") = 502
BY DEF HttpStatus

\* The statuses that the front end acts on.
LEMMA Statuses ==
  /\ \A code \in ErrorCode : HttpStatus(code) = 401 <=> code \in SessionCodes
  /\ \A code \in ErrorCode : HttpStatus(code) = 404 <=> code \in MissingCodes
BY DEF HttpStatus, SessionCodes, MissingCodes

LEMMA AnswerStatus ==
  ASSUME NEW error \in Error, NEW sameClass \in BOOLEAN
  PROVE  Answer(error, sameClass).status =
           IF error.class = "ZodError" THEN 400
           ELSE IF error.class \in DomainClass THEN HttpStatus(CodeOf(error))
           ELSE 500
<1>1. error.class \in DomainClass => HasDomainShape(error)
  BY CodesFit DEF HasDomainShape, Fits
<1> QED BY <1>1 DEF Answer, Response, HasDomainShape

-----------------------------------------------------------------------------
\* An error is answered in the same way whichever copy of its class made it:
\* the check of its shape (asDomainErrorShape) replaces instanceof for every
\* error of the domain, because each of them carries a code of ErrorCode.
THEOREM IdentityIsIrrelevant ==
  ASSUME NEW error \in Error
  PROVE  Answer(error, FALSE) = Answer(error, TRUE)
<1>1. error.class \in DomainClass => HasDomainShape(error)
  BY CodesFit DEF HasDomainShape, Fits
<1> QED BY <1>1 DEF Answer, HasDomainShape

\* The front end signs the user out (authInterceptor) for the errors about the
\* session and the authentication, and for no other error of a handler.
THEOREM OnlySessionErrorsSignOut ==
  ASSUME NEW error \in Error, NEW sameClass \in BOOLEAN
  PROVE  SignsOut(Answer(error, sameClass)) <=> error.class \in SessionErrors
<1>1. SessionErrors \subseteq DomainClass
  BY Classes DEF SessionErrors, DomainClass
<1>2. "ZodError" \notin SessionErrors
  BY DEF SessionErrors
<1>3. ASSUME error.class \in DomainClass
      PROVE  HttpStatus(CodeOf(error)) = 401 <=> error.class \in SessionErrors
  BY <1>3, CodesFit, Statuses DEF Fits
<1>4. "ZodError" \notin DomainClass
  BY Classes DEF DomainClass, InsufficientBalance
<1> QED BY <1>1, <1>2, <1>3, <1>4, AnswerStatus DEF SignsOut

\* A poll gives a swap up as lost (SwapPollingService) only when the API does
\* not know the swap, whatever else may go wrong while it reads the status.
THEOREM LostMeansNotFound ==
  ASSUME NEW error \in Error, error.class \in StatusErrors, NEW sameClass \in BOOLEAN
  PROVE  LosesSwap(Answer(error, sameClass)) <=> error.class = "SwapNotFoundError"
<1>1. error.class \in MissingErrors <=> error.class = "SwapNotFoundError"
  BY DEF StatusErrors, MissingErrors
<1>2. ASSUME error.class \in DomainClass
      PROVE  HttpStatus(CodeOf(error)) = 404 <=> error.class \in MissingErrors
  BY <1>2, CodesFit, Statuses DEF Fits
<1>3. "SwapNotFoundError" \in DomainClass
  BY Classes DEF DomainClass
<1>4. error.class # "ZodError"
  BY DEF StatusErrors
<1> QED BY <1>1, <1>2, <1>3, <1>4, AnswerStatus DEF LosesSwap

\* The set-up page waits for a deployment that is under way (AccountSetupPage)
\* only when the account refused to start another one; every other failure of
\* the request is shown as a failure.
THEOREM RefusedMeansUnderWay ==
  ASSUME NEW error \in Error, error.class \in DeployErrors, NEW sameClass \in BOOLEAN
  PROVE  TakesForUnderWay(Answer(error, sameClass))
           <=> error.class \in {"InvalidAccountStateError", "InvalidStateTransitionError"}
<1>1. CASE error.class = "Error"
  <2>1. "Error" \notin DomainClass
    BY Classes DEF DomainClass, InsufficientBalance
  <2> QED BY <1>1, <2>1, AnswerStatus DEF TakesForUnderWay
<1>2. ASSUME NEW class \in DomainClass, NEW code, error.class = class, CodeOf(error) = code,
             class # "ZodError"
      PROVE  Answer(error, sameClass).status = HttpStatus(code)
  BY <1>2, AnswerStatus
<1>3. CASE error.class = "AccountNotFoundError"
  <2>1. CodeOf(error) = "ACCOUNT_NOT_FOUND"
    BY <1>3, CodesOf, SomeCodes, Classes
  <2> QED BY <1>3, <1>2, <2>1, SomeStatuses, Classes DEF TakesForUnderWay, DomainClass
<1>4. CASE error.class = "InvalidAccountStateError"
  <2>1. CodeOf(error) = "INVALID_ACCOUNT_STATE"
    BY <1>4, CodesOf, SomeCodes, Classes
  <2> QED BY <1>4, <1>2, <2>1, SomeStatuses, Classes DEF TakesForUnderWay, DomainClass
<1>5. CASE error.class = "InvalidStateTransitionError"
  <2>1. CodeOf(error) = "INVALID_ACCOUNT_STATE"
    BY <1>5, CodesOf, SomeCodes, Classes
  <2> QED BY <1>5, <1>2, <2>1, SomeStatuses, Classes DEF TakesForUnderWay, DomainClass
<1>6. CASE error.class = "PaymasterServiceError"
  <2>1. CodeOf(error) = "PAYMASTER_SERVICE_ERROR"
    BY <1>6, CodesOf, SomeCodes, Classes
  <2> QED BY <1>6, <1>2, <2>1, SomeStatuses, Classes DEF TakesForUnderWay, DomainClass
<1>7. CASE error.class = "ExternalServiceError"
  <2>1. CodeOf(error) = "EXTERNAL_SERVICE_ERROR"
    BY <1>7, CodesOf, SomeCodes, Classes
  <2> QED BY <1>7, <1>2, <2>1, SomeStatuses, Classes DEF TakesForUnderWay, DomainClass
<1> QED
  BY <1>1, <1>3, <1>4, <1>5, <1>6, <1>7 DEF DeployErrors

-----------------------------------------------------------------------------
LEMMA PaymasterAnswer ==
  ASSUME NEW error, error.class = "PaymasterServiceError"
  PROVE  Answer(error, TRUE) = Response(502, "PAYMASTER_SERVICE_ERROR")
<1>1. error.class \in DOMAIN ServiceCode
  BY Classes
<1>2. CodeOf(error) = ServiceCode[error.class]
  BY <1>1, CodesOf
<1>3. CodeOf(error) = "PAYMASTER_SERVICE_ERROR"
  BY <1>2, SomeCodes
<1>4. HttpStatus(CodeOf(error)) = 502
  BY <1>3, SomeStatuses
<1>5. error.class \in DomainClass /\ error.class # "ZodError"
  BY <1>1 DEF DomainClass
<1> QED BY <1>3, <1>4, <1>5 DEF Answer

\* When the paymaster's key is invalid or out of credits, the request for a
\* build and the request to execute one are both answered as a failure of the
\* paymaster, however the message reached us: the services in between do not
\* take it for a failure of a payment.
THEOREM KeyErrorIsTold ==
  ASSUME NEW o \in Outcome, o.kind \in {"http error", "rpc error", "throws"},
         IsPaymasterApiKeyError(o.marks)
  PROVE  /\ Answer(BuildCalls(o, TRUE), TRUE) = Response(502, "PAYMASTER_SERVICE_ERROR")
         /\ Answer(ExecuteSignedCalls(o, TRUE), TRUE) = Response(502, "PAYMASTER_SERVICE_ERROR")
         /\ \A hasApprove \in BOOLEAN :
              Answer(BuildCommit(o, hasApprove), TRUE) = Response(502, "PAYMASTER_SERVICE_ERROR")
<1> DEFINE error == New("PaymasterServiceError", o.marks)
<1>1. /\ BuildInvokeTransaction(o) = error
      /\ ExecuteInvokeTransaction(o) = error
  BY DEF BuildInvokeTransaction, ExecuteInvokeTransaction
<1>2. error.class = "PaymasterServiceError"
  BY DEF New
<1>3. "PaymasterServiceError" \in DomainClass
  BY Classes DEF DomainClass
<1>4. /\ BuildCalls(o, TRUE) = error
      /\ ExecuteSignedCalls(o, TRUE) = error
  BY <1>1, <1>2, <1>3 DEF BuildCalls, ExecuteSignedCalls, PassedOn
<1>5. \A hasApprove \in BOOLEAN : BuildCommit(o, hasApprove) = error
  BY <1>2, <1>4 DEF BuildCommit, InsufficientBalance
<1>6. Answer(error, TRUE) = Response(502, "PAYMASTER_SERVICE_ERROR")
  BY <1>2, PaymasterAnswer
<1> QED BY <1>4, <1>5, <1>6

\* The operators are alerted (PaymentExecutor) of every signature that the
\* account refused while the paymaster's key was in order, and of no failure
\* of the key.
THEOREM RefusedSignatureIsAlerted ==
  ASSUME NEW o \in Outcome, o.kind # "done"
  PROVE  AlertsOperators(ExecuteSignedCalls(o, TRUE))
           <=> "invalid-owner-sig" \in o.marks /\ ~ IsPaymasterApiKeyError(o.marks)
<1>1. /\ "PaymasterServiceError" \in DomainClass
      /\ "ExternalServiceError" \in DomainClass
  BY Classes DEF DomainClass
<1>2. CASE IsPaymasterApiKeyError(o.marks)
  BY <1>1, <1>2
  DEF AlertsOperators, ExecuteSignedCalls, PassedOn, ExecuteInvokeTransaction, New
<1>3. CASE ~ IsPaymasterApiKeyError(o.marks)
  BY <1>1, <1>3
  DEF AlertsOperators, ExecuteSignedCalls, PassedOn, ExecuteInvokeTransaction, New
<1> QED BY <1>2, <1>3

-----------------------------------------------------------------------------
(* The health of the services and the prices.                              *)

\* What the alerts have said of the components that are down, off or not: the
\* registry forgets them when the process exits.
Told ==
  \A c \in Components :
    registry[c].status = "down" => told[c] = "down" /\ registry[c].downSince = outage[c]

\* The prices are from when the cache was last marked, and no older than the
\* clock for whoever has just refreshed them; an answer that was old was so
\* because its own refresh was refused.
PricesFit ==
  /\ prices.at = prices.got /\ prices.got <= now
  /\ \A r \in Readers : reader[r] = "refreshed" => prices.any /\ prices.got = now
  /\ StaleOnlyIfRefused

HealthInv == TypeOK /\ Told /\ PricesFit

\* The bounds, and the records of the registry.
LEMMA HealthBounds ==
  ASSUME ServiceHealthAssumption
  PROVE  /\ MaxRetries \in Nat \ {0} /\ TTL \in Nat \ {0} /\ MaxTime \in Nat
         /\ "database" \in Components /\ External \subseteq Components
         /\ 0 \in 0 .. MaxTime /\ 0 \in 0 .. MaxRetries
         /\ Declared \in ComponentHealth(0 .. MaxTime)
<1>1. MaxRetries \in Nat \ {0} /\ TTL \in Nat \ {0} /\ MaxTime \in Nat
  BY DEF ServiceHealthAssumption
<1>. QED BY <1>1 DEF Components, ComponentHealth, Declared

\* A report leaves the registry, what was told and when the outage began typed,
\* and the alerts true of what is down.
LEMMA ReportKeeps ==
  ASSUME ServiceHealthAssumption, TypeOK, Told, NEW c \in Components, Healthy(c) \/ Down(c)
  PROVE  /\ registry' \in [Components -> ComponentHealth(0 .. MaxTime)]
         /\ told' \in [Components -> {"healthy", "down"}]
         /\ outage' \in [Components -> 0 .. MaxTime]
         /\ Told'
<1> DEFINE next == registry'[c]
<1>0. /\ registry \in [Components -> ComponentHealth(0 .. MaxTime)]
      /\ told \in [Components -> {"healthy", "down"}]
      /\ outage \in [Components -> 0 .. MaxTime] /\ now \in 0 .. MaxTime
  BY DEF TypeOK
<1>1. registry[c].status \in {"healthy", "down"} /\ registry[c].downSince \in 0 .. MaxTime \cup {NoOutage}
  BY <1>0 DEF ComponentHealth
<1>2. PICK n \in ComponentHealth(0 .. MaxTime) :
        /\ registry' = [registry EXCEPT ![c] = n] /\ Tells(c, n)
        /\ n = Declared \/ n = ReportDown(registry[c], now)
  <2>1. ReportDown(registry[c], now) \in ComponentHealth(0 .. MaxTime)
    BY <1>0, <1>1 DEF ReportDown, ComponentHealth
  <2>2. CASE Healthy(c)
    BY <2>2, HealthBounds DEF Healthy, Reports, ReportHealthy
  <2>3. CASE Down(c)
    BY <2>1, <2>3 DEF Down, Reports
  <2>. QED BY <2>2, <2>3
<1>3. n.status \in {"healthy", "down"}
  BY <1>2 DEF ComponentHealth
<1>4. /\ registry' \in [Components -> ComponentHealth(0 .. MaxTime)]
      /\ told' \in [Components -> {"healthy", "down"}]
      /\ outage' \in [Components -> 0 .. MaxTime]
  BY <1>0, <1>2, <1>3 DEF Tells
<1>5. ASSUME n.status = "down"
      PROVE  told'[c] = "down" /\ n.downSince = outage'[c]
  <2>1. n = ReportDown(registry[c], now)
    BY <1>2, <1>5 DEF Declared
  <2>2. CASE registry[c].status = "down"
    BY <1>0, <1>2, <2>1, <2>2 DEF Told, Tells, IsTransition, ReportDown
  <2>3. CASE registry[c].status = "healthy"
    BY <1>0, <1>2, <1>5, <2>1, <2>3 DEF Tells, IsTransition, ReportDown
  <2>. QED BY <1>1, <2>2, <2>3
<1>6. Told'
  BY <1>0, <1>2, <1>5 DEF Told, Tells
<1>. QED BY <1>4, <1>6

\* Whoever is gone is forgotten: nothing is down, nothing cached, nobody waits.
LEMMA ExitsKeeps ==
  ASSUME ServiceHealthAssumption, TypeOK, Exits, now' = now,
         told' \in [Components -> {"healthy", "down"}]
  PROVE  HealthInv'
<1>1. TypeOK'
  BY HealthBounds DEF TypeOK, Exits, Starting, NoPrices, NothingServed
<1>2. Told'
  BY DEF Exits, Told, Declared
<1>3. PricesFit'
  BY HealthBounds DEF TypeOK, Exits, PricesFit, NoPrices, NothingServed, StaleOnlyIfRefused
<1>. QED BY <1>1, <1>2, <1>3 DEF HealthInv

LEMMA HealthInit == ASSUME ServiceHealthAssumption PROVE Init => HealthInv
BY HealthBounds DEF Init, HealthInv, TypeOK, Told, PricesFit, Starting, NoPrices, NothingServed,
   StaleOnlyIfRefused, Declared

\* Every step keeps the invariant.
LEMMA HealthStep ==
  ASSUME ServiceHealthAssumption
  PROVE  HealthInv /\ [Next]_vars => HealthInv'
<1> SUFFICES ASSUME HealthInv, [Next]_vars
             PROVE  HealthInv'
  OBVIOUS
<1>0. TypeOK /\ Told /\ PricesFit
  BY DEF HealthInv
<1>1. CASE ConnectionFails \/ TableMissing \/ PingFails \/ Exit \/ Crash
  <2>1. CASE Exits
    <3>1. now' = now /\ told' \in [Components -> {"healthy", "down"}]
      BY <1>0, <1>1, HealthBounds
         DEF ConnectionFails, TableMissing, PingFails, Exit, Crash, TypeOK
    <3>. QED BY <1>0, <2>1, <3>1, ExitsKeeps
  <2>2. CASE ConnectionFails /\ attempt + 1 < MaxRetries
    <3>1. attempt' \in 0 .. MaxRetries
      BY <1>0, <2>2, HealthBounds DEF ConnectionFails, TypeOK
    <3>. QED BY <1>0, <2>2, <3>1
             DEF ConnectionFails, HealthInv, TypeOK, Told, PricesFit, StaleOnlyIfRefused
  <2>. QED BY <1>1, <2>1, <2>2 DEF ConnectionFails, TableMissing, PingFails, Exit, Crash
<1>2. ASSUME UNCHANGED <<memory, now, told, outage, served>>, process' \in Starting \cup {"serving", "stopping"}
      PROVE  HealthInv'
  BY <1>0, <1>2 DEF memory, HealthInv, TypeOK, Told, PricesFit, StaleOnlyIfRefused
<1>3. CASE Start \/ Connected \/ AllSettled \/ StartupTimeout \/ Shutdown
  BY <1>2, <1>3 DEF Start, Connected, AllSettled, StartupTimeout, Shutdown, Starting
<1>4. ASSUME NEW c \in Components, Healthy(c) \/ Down(c), checking' \subseteq External,
             process' \in Starting \cup {"serving", "stopping"}, probe' \in [Probes -> BOOLEAN],
             UNCHANGED <<attempt, prices, reader, cron, now, served>>
      PROVE  HealthInv'
  BY <1>0, <1>4, ReportKeeps DEF HealthInv, TypeOK, PricesFit, StaleOnlyIfRefused
<1>5. CASE PingDatabaseAtStartup
  BY <1>0, <1>4, <1>5, HealthBounds DEF PingDatabaseAtStartup, Starting, TypeOK
<1>6. ASSUME NEW c \in External, CheckHealth(c)
      PROVE  HealthInv'
  <2>1. /\ checking' \subseteq External /\ process' \in Starting \cup {"serving", "stopping"}
        /\ UNCHANGED <<process, attempt, probe, prices, reader, cron, now, served>>
    BY <1>0, <1>6 DEF CheckHealth, TypeOK, Live, Starting
  <2>2. CASE Healthy(c) \/ Down(c)
    BY <1>0, <1>4, <2>1, <2>2, HealthBounds DEF TypeOK
  <2>3. CASE UNCHANGED <<registry, told, outage>>
    BY <1>0, <2>1, <2>3 DEF HealthInv, TypeOK, Told, PricesFit, StaleOnlyIfRefused
  <2>. QED BY <1>6, <2>2, <2>3 DEF CheckHealth
<1>7. CASE OperationReports
  BY <1>0, <1>4, <1>7, HealthBounds DEF OperationReports, TypeOK
<1>8. ASSUME NEW p \in Probes, Probe(p)
      PROVE  HealthInv'
  BY <1>0, <1>8 DEF Probe, HealthInv, TypeOK, Told, PricesFit, StaleOnlyIfRefused
<1>9. ASSUME NEW p \in Probes, PingDatabase(p)
      PROVE  HealthInv'
  <2>1. probe' \in [Probes -> BOOLEAN] /\ process' \in Starting \cup {"serving", "stopping"}
    BY <1>0, <1>9 DEF PingDatabase, TypeOK, Live, Starting
  <2>. QED BY <1>0, <1>4, <1>9, <2>1, HealthBounds DEF PingDatabase, TypeOK
<1>10. ASSUME NEW r \in Readers, GetPrices(r) \/ AnswerPrices(r)
       PROVE  HealthInv'
  <2>0. /\ now \in Nat /\ prices.got \in Nat /\ prices.at \in Nat /\ prices.got <= now
        /\ prices.at = prices.got /\ now <= MaxTime /\ prices.any \in BOOLEAN
        /\ served \in [age : 0 .. MaxTime, refused : BOOLEAN]
        /\ reader \in [Readers -> {"idle", "fetching", "refreshed", "refused"}]
    BY <1>0, HealthBounds DEF TypeOK, PricesFit
  <2>1. /\ UNCHANGED <<process, attempt, registry, checking, probe, prices, cron, now, told, outage>>
        /\ reader' \in [Readers -> {"idle", "fetching", "refreshed", "refused"}]
        /\ \A x \in Readers : reader'[x] = "refreshed" => reader[x] = "refreshed"
    BY <1>10, <2>0 DEF GetPrices, AnswerPrices
  <2>2. ASSUME NEW refused \in BOOLEAN,
               served' = IF prices.any THEN [age |-> now - prices.got, refused |-> refused] ELSE served,
               prices.any => now - prices.got < TTL \/ refused
        PROVE  served' \in [age : 0 .. MaxTime, refused : BOOLEAN] /\ StaleOnlyIfRefused'
    BY <1>0, <2>0, <2>2, HealthBounds DEF PricesFit, StaleOnlyIfRefused
  <2>3. served' \in [age : 0 .. MaxTime, refused : BOOLEAN] /\ StaleOnlyIfRefused'
    <3>1. CASE GetPrices(r) /\ ShouldRefreshCache
      BY <1>0, <2>0, <3>1 DEF GetPrices, PricesFit, StaleOnlyIfRefused
    <3>2. CASE GetPrices(r) /\ ~ShouldRefreshCache
      <4>1. Serves(FALSE)
        BY <3>2 DEF GetPrices
      <4>2. now - prices.got < TTL
        BY <2>0, <3>2, HealthBounds DEF ShouldRefreshCache
      <4>. QED BY <2>2, <4>1, <4>2 DEF Serves
    <3>3. CASE AnswerPrices(r)
      <4>1. /\ served' = IF prices.any THEN [age |-> now - prices.got, refused |-> reader[r] = "refused"]
                         ELSE served
            /\ reader[r] \in {"refreshed", "refused"}
        BY <3>3 DEF AnswerPrices, Serves
      <4>2. CASE reader[r] = "refused"
        BY <2>2, <4>1, <4>2
      <4>3. CASE reader[r] = "refreshed"
        <5>1. now - prices.got < TTL /\ (reader[r] = "refused") = FALSE
          BY <1>0, <2>0, <4>3, HealthBounds DEF PricesFit
        <5>. QED BY <2>2, <4>1, <5>1
      <4>. QED BY <4>1, <4>2, <4>3
    <3>. QED BY <1>10, <3>1, <3>2, <3>3
  <2>. QED BY <1>0, <2>1, <2>3 DEF HealthInv, TypeOK, Told, PricesFit
<1>11. ASSUME NEW r \in Readers, RefreshCache(r) \/ RefreshFails(r)
       PROVE  HealthInv'
  <2>1. CASE RefreshCache(r)
    <3>1. prices' \in [got : 0 .. MaxTime, at : 0 .. MaxTime, any : BOOLEAN]
      BY <1>0, <2>1 DEF RefreshCache, TypeOK
    <3>2. /\ prices'.at = now /\ prices'.got = now /\ prices'.any
          /\ UNCHANGED <<process, attempt, registry, checking, probe, cron, now, told, outage, served>>
          /\ reader' = [reader EXCEPT ![r] = "refreshed"]
      BY <2>1 DEF RefreshCache
    <3>3. PricesFit'
      BY <1>0, <3>2, HealthBounds DEF TypeOK, PricesFit, StaleOnlyIfRefused
    <3>. QED BY <1>0, <3>1, <3>2, <3>3 DEF HealthInv, TypeOK, Told
  <2>2. CASE RefreshFails(r)
    BY <1>0, <2>2 DEF RefreshFails, HealthInv, TypeOK, Told, PricesFit, StaleOnlyIfRefused
  <2>. QED BY <1>11, <2>1, <2>2
<1>12. CASE BalanceCheck \/ CheckAvnuCredits \/ CheckTreasuryBalance
  BY <1>0, <1>12 DEF BalanceCheck, CheckAvnuCredits, CheckTreasuryBalance, HealthInv, TypeOK, Told,
                     PricesFit, StaleOnlyIfRefused
<1>13. CASE Tick
  BY <1>0, <1>13, HealthBounds
     DEF Tick, memory, HealthInv, TypeOK, Told, PricesFit, StaleOnlyIfRefused
<1>14. CASE UNCHANGED vars
  BY <1>0, <1>14 DEF vars, memory, HealthInv, TypeOK, Told, PricesFit, StaleOnlyIfRefused
<1>. QED BY <1>1, <1>3, <1>5, <1>6, <1>7, <1>8, <1>9, <1>10, <1>11, <1>12, <1>13, <1>14 DEF Next

\* The types, and all that the health and the cached prices keep, in every state.
THEOREM HealthHolds == ASSUME ServiceHealthAssumption PROVE Spec => []HealthInv
<1>1. Init => HealthInv
  BY HealthInit
<1>2. HealthInv /\ [Next]_vars => HealthInv'
  BY HealthStep
<1>. QED BY <1>1, <1>2, PTL DEF Spec

\* The last alert about a component that is down said so, and the registry has
\* it down since the first report of the outage, whatever late checks, probes
\* and restarts reported in between.
THEOREM OutageAlwaysTold == ASSUME ServiceHealthAssumption PROVE Spec => []OutageIsTold
<1>1. HealthInv => OutageIsTold
  BY DEF HealthInv, Told, OutageIsTold
<1>. QED BY <1>1, HealthHolds, PTL

\* Prices that have expired are served only after the request's own refresh
\* has failed, however many requests refresh them at once.
THEOREM StaleAlwaysRefused == ASSUME ServiceHealthAssumption PROVE Spec => []StaleOnlyIfRefused
<1>1. HealthInv => StaleOnlyIfRefused
  BY DEF HealthInv, PricesFit
<1>. QED BY <1>1, HealthHolds, PTL
=============================================================================
