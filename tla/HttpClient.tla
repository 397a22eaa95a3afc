----------------------------- MODULE HttpClient -----------------------------
(***************************************************************************)
(* What the HTTP client of the memory providers makes of an answer.  An    *)
(* answer is a record [status, body]: the status decides first, the body   *)
(* of a success is what the backend returned, or Garbled when it is no     *)
(* JSON, and the body of an error may mention the text "HTTP 404".         *)
(***************************************************************************)
EXTENDS Integers

CONSTANTS
    None,       \* no value, a field that is absent
    Garbled,    \* a body that is no JSON
    Quotes404   \* a body of an error that contains the text "HTTP 404"

ASSUME NoneAssumption ==
    /\ None \notin BOOLEAN
    /\ None \notin {"MemoryProviderError", "UnsupportedOperationError", "InvalidScopeError",
                    "RateLimitError", "Error"}
    /\ Garbled # None /\ Quotes404 # None

ProviderErrors == {"MemoryProviderError", "UnsupportedOperationError",
                   "InvalidScopeError", "RateLimitError"}

(* A client call ends with an error or with a value. *)
Threw(e)    == [error |-> e, value |-> None]
Returned(v) == [error |-> None, value |-> v]

(* fetch itself rejects when the timeout fires or the connection fails. *)
NoAnswer == [status |-> 0, body |-> None]

ThrowForStatus(answer) ==
    CASE answer.status = 0              -> "Error"
      [] answer.status = 429            -> "RateLimitError"
      [] answer.status \in {404, 500}   -> "MemoryProviderError"
      [] OTHER                          -> None

FetchVoid(answer) == [error |-> ThrowForStatus(answer), value |-> None]

FetchJson(answer) ==
    IF ThrowForStatus(answer) # None THEN Threw(ThrowForStatus(answer))
    ELSE IF answer.body = Garbled THEN Threw("Error") ELSE Returned(answer.body)

FetchJsonOrNull(answer) ==
    IF answer.status = 404 THEN Returned(None) ELSE FetchJson(answer)

(* The text of an error begins with the status and ends with the body;     *)
(* whoever looks for "HTTP 404" in it finds either.  The error of a rate   *)
(* limit quotes neither.                                                   *)
Mentions404(answer) ==
    /\ ThrowForStatus(answer) = "MemoryProviderError"
    /\ answer.status = 404 \/ answer.body = Quotes404

(* Mutant: every error of a delete is swallowed. *)
DeleteIgnoreErrors(answer) == Returned(None)

DeleteIgnore404(answer) ==
    IF Mentions404(answer) THEN Returned(None) ELSE FetchVoid(answer)
=============================================================================
