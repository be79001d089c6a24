----------------------------- MODULE HttpClientMC -----------------------------
(* Small instances of HttpClient for TLC. *)
EXTENDS HttpClient

CONSTANTS a1, a2, a3, w1, w2, s1, s2

\* One request of each kind.
OneOfEach == [r \in Requests |-> CASE r = a1 -> "passes"
                                   [] r = a2 -> "panics"
                                   [] r = a3 -> "returnsNil"]
=============================================================================
