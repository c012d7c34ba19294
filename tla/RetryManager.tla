---------------------------- MODULE RetryManager ----------------------------
(***************************************************************************)
(* danube/retry_manager.py: which RPC errors are retried, how many times,  *)
(* how long a coroutine sleeps between two attempts, and the routing       *)
(* header that every RPC carries in proxy mode.                            *)
(*                                                                         *)
(* The module only has operators; the retry loops that use them are in     *)
(* Producer and Consumer, and BackoffLoop drives the arithmetic alone.     *)
(* Durations are in milliseconds.                                          *)
(***************************************************************************)
EXTENDS Integers

CONSTANT NoHeader   \* the absence of an x-danube-broker-url entry

DEFAULT_MAX_RETRIES == 5
DEFAULT_BASE_BACKOFF_MS == 200
DEFAULT_MAX_BACKOFF_MS == 5000

\* A defect to detect: zero, the default of the options, is taken literally.
EffectiveKeepsZero(option, default) == IF option >= 0 THEN option ELSE default

\* RetryManager.__init__: an option that is not positive takes its default.
Effective(option, default) == IF option > 0 THEN option ELSE default

\* A defect to detect: a connection that breaks is taken for final.
is_retryable_timeouts(code) == code \in {"DEADLINE_EXCEEDED", "RESOURCE_EXHAUSTED"}

\* Whether a failed RPC may be tried again. Errors that are not gRPC status
\* codes (UnrecoverableError, ValueError, LookupError) never are.
is_retryable(code) ==
    code \in {"UNAVAILABLE", "DEADLINE_EXCEEDED", "RESOURCE_EXHAUSTED"}

\* A defect to detect: the cap is forgotten.
LinearBackoffUncapped(base, cap, attempt) == base * (attempt + 1)

\* calculate_backoff(attempt), up to the call of random.randint.
LinearBackoff(base, cap, attempt) ==
    IF base * (attempt + 1) > cap THEN cap ELSE base * (attempt + 1)

LowBackoff(linear) == IF linear \div 2 > 1 THEN linear \div 2 ELSE 1

\* Every value calculate_backoff(attempt) can return. random.randint(low, high)
\* raises ValueError when low > high: that would be the empty set here.
calculate_backoff(base, cap, attempt) ==
    LET linear == LinearBackoff(base, cap, attempt)
    IN  LowBackoff(linear) .. linear

\* The routing header of a request: the owning broker, in proxy mode only.
insert_proxy_header(broker_url, proxy) ==
    IF proxy THEN broker_url ELSE NoHeader
=============================================================================
