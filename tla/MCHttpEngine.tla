---------------------------- MODULE MCHttpEngine ----------------------------
(* Instances of HttpEngine for TLC. *)
EXTENDS HttpEngineProofs

\* No retry, the default statuses, and a policy that retries 401 and 304 too.
MCRetryOns == {{}, {429, 503}, {304, 401, 429}}
\* One wait below and one above MaxRetryAfter, no header and a malformed one.
MCRetryAfters == {1, 5, NoHeader, NotANumber}
=============================================================================
