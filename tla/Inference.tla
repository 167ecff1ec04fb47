----------------------------- MODULE Inference -----------------------------
(***************************************************************************)
(* A call of the inference service through the gateway's client            *)
(* (modules/ai/ai.client.ts) and circuit breaker (modules/ai/ai.breaker.ts) *)
(* as its callers see it.  The breaker opens and closes by thresholds over *)
(* time, so to a caller it may be in any state.                            *)
(***************************************************************************)

\* What becomes of the HTTP request: no URL or no answer in time, an error status,
\* a body that is no JSON or JSON without fields, or an answer with a face, with
\* none, or with an embedding of another length.
Responses == {"none", "errorStatus", "notJson", "nullBody", "face", "noFace", "wrongSize"}

\* extractEmbeddings: the faces, or what it throws.
Extracted(response) ==
  CASE response = "none" -> "AiUnavailableError"
    [] response \in {"errorStatus", "notJson"} -> "AiBadResponseError"
    [] response = "nullBody" -> "TypeError"
    [] OTHER -> response

\* extractViaBreaker: the breaker lets the call pass, is open, or stops waiting.
Results == {Extracted(r) : r \in Responses} \cup {"EOPENBREAKER", "ETIMEDOUT"}

IsAiFailure(result) ==
  result \in {"AiUnavailableError", "AiBadResponseError", "EOPENBREAKER", "ETIMEDOUT"}
Throws(result) == IsAiFailure(result) \/ result = "TypeError"
=============================================================================
