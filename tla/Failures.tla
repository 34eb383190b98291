------------------------------ MODULE Failures ------------------------------
(***************************************************************************)
(* What becomes of a failure on its way from the paymaster to the screen:  *)
(* the gateways turn what the paymaster says into errors of the domain,    *)
(* services pass them on or replace them, the error handler of the API     *)
(* answers each with a code and an HTTP status, and the front end decides  *)
(* by that status alone whether the session is over, a swap is lost or a   *)
(* deployment is already under way.                                        *)
(*                                                                         *)
(* A message is the set of the marks that some code looks for in it.       *)
(***************************************************************************)
EXTENDS Naturals

-----------------------------------------------------------------------------
(* The errors of the domain and their codes.                               *)

ErrorCode ==
  {"INTERNAL_ERROR", "VALIDATION_ERROR", "UNAUTHORIZED", "ACCOUNT_NOT_FOUND",
   "ACCOUNT_ALREADY_EXISTS", "INVALID_USERNAME", "CHALLENGE_NOT_FOUND", "CHALLENGE_EXPIRED",
   "CHALLENGE_ALREADY_USED", "INVALID_CHALLENGE", "AUTHENTICATION_FAILED",
   "REGISTRATION_FAILED", "SESSION_NOT_FOUND", "SESSION_EXPIRED", "ACCOUNT_NOT_DEPLOYED",
   "INVALID_ACCOUNT_STATE", "ACCOUNT_DEPLOYMENT_FAILED", "INVALID_STARKNET_ADDRESS",
   "SWAP_NOT_FOUND", "SWAP_EXPIRED", "SWAP_AMOUNT_OUT_OF_RANGE", "SWAP_CREATION_FAILED",
   "INVALID_SWAP_STATE", "BUILD_EXPIRED", "FORBIDDEN", "PAYMENT_PARSING_ERROR",
   "INVALID_PAYMENT_AMOUNT", "SAME_ADDRESS_PAYMENT", "UNSUPPORTED_NETWORK",
   "UNSUPPORTED_TOKEN", "INVALID_LIGHTNING_INVOICE", "LIGHTNING_INVOICE_EXPIRED",
   "INVALID_BITCOIN_ADDRESS", "BITCOIN_ADDRESS_NETWORK_MISMATCH", "INVALID_PAYMENT_ADDRESS",
   "INSUFFICIENT_BALANCE", "INSUFFICIENT_BALANCE_WITH_AMOUNT",
   "INSUFFICIENT_BALANCE_SECURITY_DEPOSIT", "USER_SETTINGS_NOT_FOUND",
   "UNSUPPORTED_CURRENCY", "EXTERNAL_SERVICE_ERROR", "PAYMASTER_SERVICE_ERROR",
   "TIMEOUT_ERROR", "RATE_LIMITED"}

\* The classes of each errors.ts with the code of each.
GeneralCode ==
  [NotFoundError |-> "INTERNAL_ERROR", InvalidStateTransitionError |-> "INVALID_ACCOUNT_STATE",
   ValidationError |-> "VALIDATION_ERROR", UnauthorizedError |-> "UNAUTHORIZED",
   AlreadyExistsError |-> "INTERNAL_ERROR", TimeoutError |-> "TIMEOUT_ERROR"]

ServiceCode ==
  [AccountNotDeployedError |-> "ACCOUNT_NOT_DEPLOYED", BuildExpiredError |-> "BUILD_EXPIRED",
   ForbiddenError |-> "FORBIDDEN", ExternalServiceError |-> "EXTERNAL_SERVICE_ERROR",
   PaymasterServiceError |-> "PAYMASTER_SERVICE_ERROR",
   UnsafeExternalCallError |-> "EXTERNAL_SERVICE_ERROR"]

AuthCode ==
  [InvalidSessionIdError |-> "VALIDATION_ERROR", SessionNotFoundError |-> "SESSION_NOT_FOUND",
   SessionExpiredError |-> "SESSION_EXPIRED", ChallengeNotFoundError |-> "CHALLENGE_NOT_FOUND",
   ChallengeExpiredError |-> "CHALLENGE_EXPIRED",
   ChallengeAlreadyUsedError |-> "CHALLENGE_ALREADY_USED",
   InvalidChallengeError |-> "INVALID_CHALLENGE",
   AuthenticationFailedError |-> "AUTHENTICATION_FAILED",
   RegistrationFailedError |-> "REGISTRATION_FAILED"]

AccountCode ==
  [InvalidAccountIdError |-> "VALIDATION_ERROR", InvalidUsernameError |-> "INVALID_USERNAME",
   InvalidStarknetAddressError |-> "INVALID_STARKNET_ADDRESS",
   AccountNotFoundError |-> "ACCOUNT_NOT_FOUND",
   AccountAlreadyExistsError |-> "ACCOUNT_ALREADY_EXISTS",
   AccountDeploymentError |-> "ACCOUNT_DEPLOYMENT_FAILED",
   InvalidAccountStateError |-> "INVALID_ACCOUNT_STATE"]

SwapCode ==
  [InvalidBitcoinAddressError |-> "INVALID_BITCOIN_ADDRESS",
   BitcoinAddressNetworkMismatchError |-> "BITCOIN_ADDRESS_NETWORK_MISMATCH",
   InvalidLightningInvoiceError |-> "INVALID_LIGHTNING_INVOICE",
   LightningInvoiceExpiredError |-> "LIGHTNING_INVOICE_EXPIRED",
   SwapNotFoundError |-> "SWAP_NOT_FOUND", SwapExpiredError |-> "SWAP_EXPIRED",
   InvalidSwapStateError |-> "INVALID_SWAP_STATE",
   SwapAmountError |-> "SWAP_AMOUNT_OUT_OF_RANGE",
   SwapCreationError |-> "SWAP_CREATION_FAILED", SwapOwnershipError |-> "FORBIDDEN"]

PaymentCode ==
  [PaymentParsingError |-> "PAYMENT_PARSING_ERROR",
   InvalidPaymentAmountError |-> "INVALID_PAYMENT_AMOUNT",
   SameAddressPaymentError |-> "SAME_ADDRESS_PAYMENT",
   UnsupportedNetworkError |-> "UNSUPPORTED_NETWORK",
   UnsupportedTokenError |-> "UNSUPPORTED_TOKEN",
   InvalidPaymentAddressError |-> "INVALID_PAYMENT_ADDRESS"]

UserCode ==
  [InvalidUserSettingsIdError |-> "VALIDATION_ERROR",
   InvalidTransactionIdError |-> "VALIDATION_ERROR",
   InvalidTransactionHashError |-> "VALIDATION_ERROR",
   UnsupportedLanguageError |-> "VALIDATION_ERROR",
   UserSettingsNotFoundError |-> "USER_SETTINGS_NOT_FOUND",
   TransactionNotFoundError |-> "INTERNAL_ERROR"]

CurrencyCode == [UnsupportedCurrencyError |-> "UNSUPPORTED_CURRENCY"]

InsufficientBalance == "InsufficientBalanceError"

DomainClass ==
  {InsufficientBalance} \cup DOMAIN GeneralCode \cup DOMAIN ServiceCode
    \cup DOMAIN AuthCode \cup DOMAIN AccountCode \cup DOMAIN SwapCode
    \cup DOMAIN PaymentCode \cup DOMAIN UserCode \cup DOMAIN CurrencyCode

\* What code looks for in messages: the two parts of the paymaster's error for
\* a key that is invalid or out of credits, its words for a balance that is too
\* low, and the account contract's word for a signature it does not accept.
Mark == {"163", "api-key", "balance too low", "invalid-owner-sig"}

\* "ZodError" is a body that does not validate, "Error" anything else.
Error ==
  [class : DomainClass \cup {"ZodError", "Error"}, marks : SUBSET Mark,
   reason : {"none", "transfer", "security_deposit"}, amountKnown : BOOLEAN]

InsufficientBalanceCode(error) ==
  IF error.reason = "security_deposit" THEN "INSUFFICIENT_BALANCE_SECURITY_DEPOSIT"
  ELSE IF error.amountKnown THEN "INSUFFICIENT_BALANCE_WITH_AMOUNT"
  ELSE "INSUFFICIENT_BALANCE"

CodeOf(error) ==
  LET class == error.class IN
  CASE class = InsufficientBalance   -> InsufficientBalanceCode(error)
    [] class \in DOMAIN GeneralCode  -> GeneralCode[class]
    [] class \in DOMAIN ServiceCode  -> ServiceCode[class]
    [] class \in DOMAIN AuthCode     -> AuthCode[class]
    [] class \in DOMAIN AccountCode  -> AccountCode[class]
    [] class \in DOMAIN SwapCode     -> SwapCode[class]
    [] class \in DOMAIN PaymentCode  -> PaymentCode[class]
    [] class \in DOMAIN UserCode     -> UserCode[class]
    [] OTHER                         -> CurrencyCode[class]

-----------------------------------------------------------------------------
(* The answer of the API.                                                  *)

\* HTTP_STATUS; a code it does not list is a bad request.
HttpStatus(code) ==
  CASE code \in {"UNAUTHORIZED", "AUTHENTICATION_FAILED", "SESSION_NOT_FOUND",
                 "SESSION_EXPIRED"}                                          -> 401
    [] code = "FORBIDDEN"                                                    -> 403
    [] code \in {"ACCOUNT_NOT_FOUND", "SWAP_NOT_FOUND",
                 "USER_SETTINGS_NOT_FOUND"}                                  -> 404
    [] code = "ACCOUNT_ALREADY_EXISTS"                                       -> 409
    [] code = "RATE_LIMITED"                                                 -> 429
    [] code \in {"INTERNAL_ERROR", "ACCOUNT_DEPLOYMENT_FAILED",
                 "SWAP_CREATION_FAILED"}                                     -> 500
    [] code \in {"EXTERNAL_SERVICE_ERROR", "PAYMASTER_SERVICE_ERROR"}        -> 502
    [] code = "TIMEOUT_ERROR"                                                -> 504
    [] OTHER                                                                 -> 400

\* createErrorResponse.
Response(status, code) == [status |-> status, code |-> code]

\* asDomainErrorShape: the error carries a known code.
HasDomainShape(error) == error.class \in DomainClass /\ CodeOf(error) \in ErrorCode

\* handleDomainError.  The bundle may hold a class twice: an error made with
\* the other copy fails instanceof (sameClass is FALSE).
Answer(error, sameClass) ==
  IF error.class = "ZodError"
  THEN Response(400, "VALIDATION_ERROR")
  ELSE IF (error.class \in DomainClass /\ sameClass) \/ HasDomainShape(error)
  THEN Response(HttpStatus(CodeOf(error)), CodeOf(error))
  ELSE Response(500, "INTERNAL_ERROR")

\* The refusals that need no handler: the rate limiter, the session check.
RateLimited == Response(429, "RATE_LIMITED")

NotAuthenticated == {Response(401, "UNAUTHORIZED"), Response(401, "SESSION_EXPIRED"),
                     Response(401, "SESSION_NOT_FOUND")}

-----------------------------------------------------------------------------
(* The front end.                                                          *)

\* authInterceptor: any request.
SignsOut(answer) == answer.status = 401

\* SwapPollingService: a poll of the status of a swap.
LosesSwap(answer) == answer.status = 404

\* AccountSetupPage: the request for a deployment.
TakesForUnderWay(answer) == answer.status = 400

\* The codes that en.json and fr.json translate.
Translated == ErrorCode \ {"BUILD_EXPIRED", "FORBIDDEN", "RATE_LIMITED"}

\* httpNotificationInterceptor and translateError: the toast of a request that
\* does not suppress it, and its id, which merges the toasts of parallel 401s.
Toast(answer) ==
  [text |-> IF answer.code \in Translated THEN "translation" ELSE "message of the server",
   id   |-> IF answer.status = 401 THEN "session-expired" ELSE "none"]

-----------------------------------------------------------------------------
(* Sponsored calls.                                                        *)

\* What a request to the paymaster comes to.
Outcome ==
  [kind : {"done", "wrong type", "no hash", "http error", "rpc error", "throws"},
   marks : SUBSET Mark]

NoError == [class |-> "none", marks |-> {}, reason |-> "none", amountKnown |-> FALSE]

New(class, marks) ==
  [class |-> class, marks |-> marks, reason |-> "none", amountKnown |-> FALSE]

IsPaymasterApiKeyError(marks) == {"163", "api-key"} \subseteq marks

BuildInvokeTransaction(o) ==
  CASE o.kind = "done"                   -> NoError
    [] o.kind = "wrong type"             -> New("ExternalServiceError", {})
    [] OTHER ->
       IF IsPaymasterApiKeyError(o.marks) THEN New("PaymasterServiceError", o.marks)
       ELSE IF "balance too low" \in o.marks THEN New(InsufficientBalance, {})
       ELSE New("ExternalServiceError", o.marks)

ExecuteInvokeTransaction(o) ==
  IF o.kind = "done" THEN NoError
  ELSE IF IsPaymasterApiKeyError(o.marks) THEN New("PaymasterServiceError", o.marks)
  ELSE New("ExternalServiceError", o.marks)

\* Only the error of a JSON-RPC answer is searched for the marks of the key.
ExecuteDeploy(o) ==
  IF o.kind = "done" THEN NoError
  ELSE IF o.kind = "rpc error" /\ IsPaymasterApiKeyError(o.marks)
  THEN New("PaymasterServiceError", o.marks)
  ELSE New("ExternalServiceError", o.marks)

\* What the services above do with an error: buildCalls and executeSignedCalls
\* pass an error of the domain on.
PassedOn(error, sameClass) ==
  IF error.class \in DomainClass /\ sameClass THEN error
  ELSE New("ExternalServiceError", error.marks)

BuildCalls(o, sameClass) ==
  IF o.kind = "done" THEN NoError ELSE PassedOn(BuildInvokeTransaction(o), sameClass)

ExecuteSignedCalls(o, sameClass) ==
  IF o.kind = "done" THEN NoError ELSE PassedOn(ExecuteInvokeTransaction(o), sameClass)

\* The operators are alerted of a signature the account does not accept.
AlertsOperators(error) ==
  error.class = "ExternalServiceError" /\ "invalid-owner-sig" \in error.marks

\* buildCommitTypedData: a balance too low for a commit with an approval is
\* told as the security deposit that is missing.
BuildCommit(o, hasApprove) ==
  LET error == BuildCalls(o, TRUE) IN
  IF error.class = InsufficientBalance /\ hasApprove
  THEN [error EXCEPT !.reason = "security_deposit", !.amountKnown = TRUE]
  ELSE error

-----------------------------------------------------------------------------
(* What the handlers behind the three requests may throw, beside errors     *)
(* that are not of the domain.                                              *)

StatusErrors ==
  {"SwapNotFoundError", "SwapOwnershipError", "ValidationError", "InvalidAccountIdError", "Error"}

DeployErrors ==
  {"AccountNotFoundError", "InvalidAccountStateError", "InvalidStateTransitionError",
   "PaymasterServiceError", "ExternalServiceError", "Error"}
=============================================================================
