--------------------------- MODULE ArtifactStorage ---------------------------
(***************************************************************************)
(* The client of the direct storage API (client.storage).  A call checks   *)
(* its input, sends one request without any timeout, and turns the answer  *)
(* into a value of its closed types or into a typed error.  The server is  *)
(* external: it keeps artifacts and the documents that refer to them,      *)
(* finishes uploads and deletions in its own time, and may be newer than   *)
(* the client, so that it uses a status the client does not know.          *)
(***************************************************************************)
EXTENDS Integers, FiniteSets

CONSTANTS
    Unset,          \* an argument or a field that is left out
    Artifacts,      \* ids the server may assign
    Docs,           \* documents, function to the artifact they refer to
    Uploaders,      \* BOUND: callers
    Uses,           \* per caller, the calls it makes
    Backends        \* records [eventual, filecoin]: uploads are finished later,
                    \* managed uploads are refused

Statuses == {"stored", "pending", "available", "unavailable", "deleting", "deleted",
             "delete_failed", "failed"}
Modes    == {"pointer", "managed"}
Novel    == "novel"             \* a status or mode of a newer server

(* What a call may reject with: the typed errors, and the codes the client *)
(* gives errors of its own.                                                *)
StorageErrors ==
    {"StorageClientError", "UnsupportedCapabilityError", "ArtifactNotFoundError",
     "ArtifactInUseError", "PointerContentNotManagedError",
     "FilecoinDirectStorageNotSupportedError"}
OwnCodes ==
    {"missing_artifact_id", "streaming_body_not_supported", "unsupported_body_type",
     "network_error", "invalid_storage_response", "invalid_head_response"}

ASSUME UsesAssumption ==
    \A c \in Uploaders : \A ask \in Uses[c] :
        /\ ask.op \in {"put", "capabilities", "get", "getContent", "head", "delete", "verify"}
        /\ ask.id \in Artifacts \cup {Unset}

ASSUME UnsetAssumption ==
    Unset \notin StorageErrors \cup OwnCodes \cup
        {"SyntaxError", "artifact_in_use", "pointer_content_not_managed", "artifact_not_found",
         "filecoin_direct_storage_not_yet_supported", "unsupported_capability"}

VARIABLES
    backend,    \* the server's backend, chosen at the start
    artifact,   \* the server's record of each id
    documents,  \* documents that are there
    use,        \* per caller: its call
    fact        \* per caller, history: what the server found and did for it

artifactVars == <<backend, artifact, documents, use, fact>>

Absent0 == [status |-> "absent", mode |-> Unset]
NoFact  == [sent |-> FALSE, there |-> FALSE, mode |-> Unset, referenced |-> FALSE,
            changed |-> FALSE, cascaded |-> {}]

ArtifactInit ==
    /\ backend \in Backends
    /\ artifact = [i \in Artifacts |-> Absent0]
    /\ documents = {}
    /\ use = [c \in Uploaders |-> [phase |-> "none"]]
    /\ fact = [c \in Uploaders |-> NoFact]

-----------------------------------------------------------------------------
(* Before the request.  An ask is [op, id, mode, body, policy].            *)

AddressesOne(ask) == ask.op \in {"get", "getContent", "head", "delete", "verify"}
KnownLength       == {"Buffer", "Uint8Array", "ArrayBuffer"}

CoerceManagedBody(ask) ==
    IF ask.op # "put" \/ ask.mode = "pointer" \/ ask.body \in KnownLength THEN Unset
    ELSE IF ask.body = "Blob" THEN "unsupported_body_type" ELSE "streaming_body_not_supported"

RequireArtifactId(ask) ==
    IF AddressesOne(ask) /\ ask.id = Unset THEN "missing_artifact_id" ELSE CoerceManagedBody(ask)

Policy(ask) == ask.policy

UseEnds(c, error, value) ==
    use' = [use EXCEPT ![c] = [phase |-> "ended", ask |-> @.ask, error |-> error, value |-> value]]

UseBegin(c, ask) ==
    /\ use[c].phase # "sent"
    /\ use' = [use EXCEPT ![c] =
                  IF RequireArtifactId(ask) = Unset
                  THEN [phase |-> "sent", ask |-> ask, policy |-> Policy(ask)]
                  ELSE [phase |-> "ended", ask |-> ask, error |-> RequireArtifactId(ask),
                        value |-> Unset]]
    /\ fact' = [fact EXCEPT ![c] = NoFact]
    /\ UNCHANGED <<backend, artifact, documents>>

-----------------------------------------------------------------------------
(* The server.  An answer is [status, code, body]; its code is Unset when  *)
(* the body of an error is empty or not the server's.                      *)

There(i)     == artifact[i].status \notin {"absent", "deleted"}
Referring(i) == {d \in documents : Docs[d] = i}

Refusing(status, code) == [status |-> status, code |-> code, body |-> Unset]
Granting(body)         == [status |-> 200, code |-> Unset, body |-> body]

WireBody(i, mode, status, cascaded) ==
    [id |-> i, mode |-> mode, status |-> status, cascaded |-> cascaded]

(* What serving a request leaves and answers. *)
Served(a, d, answer) == [artifact |-> a, documents |-> d, answer |-> answer]
Unserved(status, code) == {Served(artifact, documents, Refusing(status, code))}

(* What the server puts where a status is due. *)
Told(status) == {status, Novel}

PutStatus(ask) == IF ask.mode = "managed" /\ backend.eventual THEN "pending" ELSE "stored"

PutAs(ask, i, told) ==
    Served([artifact EXCEPT ![i] = [mode |-> ask.mode, status |-> PutStatus(ask)]],
           documents \cup {d \in DOMAIN Docs : Docs[d] = i},
           Granting(WireBody(i, ask.mode, told, {})))

Put(ask) ==
    IF ask.mode = "managed" /\ backend.filecoin
    THEN Unserved(501, "filecoin_direct_storage_not_yet_supported")
    ELSE {PutAs(ask, i, told) : i \in {j \in Artifacts : artifact[j].status = "absent"},
                                told \in Told(PutStatus(ask))}

Delete(ask, policy) ==
    IF Referring(ask.id) # {} /\ policy # "with_documents"
    THEN Unserved(409, "artifact_in_use")
    ELSE {Served([artifact EXCEPT ![ask.id].status = "deleting"], documents \ Referring(ask.id),
                 Granting(WireBody(ask.id, artifact[ask.id].mode, told, Referring(ask.id)))) :
             told \in Told("deleting")}

Look(ask) ==
    IF ask.op = "getContent" /\ artifact[ask.id].mode = "pointer"
    THEN Unserved(409, "pointer_content_not_managed")
    ELSE {Served(artifact, documents, Granting(WireBody(ask.id, artifact[ask.id].mode, told, {}))) :
             told \in Told(artifact[ask.id].status)}

Serving(ask, policy) ==
    CASE ask.op = "put"          -> Put(ask)
      [] ask.op = "capabilities" -> {Served(artifact, documents, Granting(Unset))}
      [] AddressesOne(ask)       ->
             IF ~There(ask.id)
             THEN Unserved(404, IF ask.op = "head" THEN Unset ELSE "artifact_not_found")
             ELSE IF ask.op = "delete" THEN Delete(ask, policy) ELSE Look(ask)

(* Answers that do not come from the storage routes, or deny the request. *)
Interferes == {Refusing(400, "unsupported_capability"), Refusing(502, Unset)}

-----------------------------------------------------------------------------
(* Reading the answer *)

(* Mutant: told apart by the status alone. *)
ThrowForStatusOnly(answer) ==
    CASE answer.status = 409 -> "ArtifactInUseError"
      [] answer.status = 501 -> "FilecoinDirectStorageNotSupportedError"
      [] answer.status = 404 -> "ArtifactNotFoundError"
      [] OTHER -> "StorageClientError"

ThrowForResponse(answer) ==
    CASE answer.code = "artifact_in_use" -> "ArtifactInUseError"
      [] answer.code = "pointer_content_not_managed" -> "PointerContentNotManagedError"
      [] answer.code = "filecoin_direct_storage_not_yet_supported" ->
             "FilecoinDirectStorageNotSupportedError"
      [] OTHER ->
             IF answer.code = "artifact_not_found" \/ answer.status = 404
             THEN "ArtifactNotFoundError"
             ELSE IF answer.code = "unsupported_capability" THEN "UnsupportedCapabilityError"
             ELSE "StorageClientError"

RequireWireEnum(value, allowed) == value \in allowed

MapStoredArtifact(body) ==
    IF RequireWireEnum(body.mode, Modes) /\ RequireWireEnum(body.status, Statuses)
    THEN [error |-> Unset, value |-> [id |-> body.id, mode |-> body.mode, status |-> body.status]]
    ELSE [error |-> "invalid_storage_response", value |-> Unset]

MapHeadHeaders(body) ==
    IF body.mode \in Modes /\ body.status \in Statuses
    THEN [error |-> Unset, value |-> [id |-> body.id, mode |-> body.mode, status |-> body.status]]
    ELSE [error |-> "invalid_head_response", value |-> Unset]

MapDeleteResult(body) ==
    IF RequireWireEnum(body.status, Statuses)
    THEN [error |-> Unset, value |-> [id |-> body.id, status |-> body.status,
                                      cascaded |-> body.cascaded]]
    ELSE [error |-> "invalid_storage_response", value |-> Unset]

(* The kind of a verification that the client does not know is told as     *)
(* unsupported; what the server finds is not modelled.                     *)
ReadArtifact(ask, answer) ==
    IF answer.status # 200 THEN [error |-> ThrowForResponse(answer), value |-> Unset]
    ELSE CASE ask.op \in {"put", "get"} -> MapStoredArtifact(answer.body)
           [] ask.op = "head"           -> MapHeadHeaders(answer.body)
           [] ask.op = "delete"         -> MapDeleteResult(answer.body)
           [] OTHER                     -> [error |-> Unset, value |-> Unset]

Finds(ask, served) ==
    [sent |-> TRUE,
     there |-> AddressesOne(ask) /\ There(ask.id),
     mode |-> IF AddressesOne(ask) THEN artifact[ask.id].mode ELSE ask.mode,
     referenced |-> AddressesOne(ask) /\ Referring(ask.id) # {},
     changed |-> served.artifact # artifact,
     cascaded |-> documents \ served.documents]

(* A body that is no JSON ends in an error that is not the client's; one   *)
(* that never arrives in a network_error, like a connection that fails.    *)
UseServe(c) ==
    /\ use[c].phase = "sent"
    /\ \E served \in Serving(use[c].ask, use[c].policy) :
          LET read == ReadArtifact(use[c].ask, served.answer)
          IN  /\ artifact' = served.artifact /\ documents' = served.documents
              /\ fact' = [fact EXCEPT ![c] = Finds(use[c].ask, served)]
              /\ \/ UseEnds(c, read.error, read.value)
                 \/ UseEnds(c, "network_error", Unset)
                 \/ /\ served.answer.status = 200 /\ use[c].ask.op \notin {"head", "getContent"}
                    /\ UseEnds(c, "SyntaxError", Unset)
    /\ UNCHANGED backend

UseFails(c) ==
    /\ use[c].phase = "sent"
    /\ \/ \E answer \in Interferes : UseEnds(c, ReadArtifact(use[c].ask, answer).error, Unset)
       \/ UseEnds(c, "network_error", Unset)
    /\ UNCHANGED <<backend, artifact, documents, fact>>

(* The server finishes uploads and deletions. *)
Reconciles(i) ==
    /\ \E after \in CASE artifact[i].status = "pending"  -> {"available", "failed"}
                      [] artifact[i].status = "deleting" -> {"deleted", "delete_failed"}
                      [] OTHER -> {} :
          artifact' = [artifact EXCEPT ![i].status = after]
    /\ UNCHANGED <<backend, documents, use, fact>>

ArtifactNext ==
    \/ \E c \in Uploaders : \/ \E ask \in Uses[c] : UseBegin(c, ask)
                            \/ UseServe(c) \/ UseFails(c)
    \/ \E i \in Artifacts : Reconciles(i)

ArtifactSpec == ArtifactInit /\ [][ArtifactNext]_artifactVars

-----------------------------------------------------------------------------
(* Properties *)

UseEnded(c)    == use[c].phase = "ended"
UseResolved(c) == UseEnded(c) /\ use[c].error = Unset

(* Values come without errors, and what is no artifact id or no body of    *)
(* known length has never been sent (client.ts, coerceManagedBody).        *)
ArtifactTypeOK ==
    /\ \A i \in Artifacts : artifact[i].status \in Statuses \cup {"absent"}
    /\ documents \subseteq DOMAIN Docs
    /\ \A c \in Uploaders : UseEnded(c) =>
          /\ use[c].error \in StorageErrors \cup OwnCodes \cup {Unset, "SyntaxError"}
          /\ use[c].error # Unset => use[c].value = Unset
          /\ fact[c].sent /\ use[c].ask.op = "put" /\ use[c].ask.mode = "managed" =>
                use[c].ask.body \in KnownLength
          /\ fact[c].sent /\ AddressesOne(use[c].ask) => use[c].ask.id \in Artifacts

(* A typed error tells what the server found: no artifact, documents that  *)
(* refer to it, a pointer.  And unless it is one of the three that leave   *)
(* it open - a lost answer, a garbled one, one of a newer server - a call  *)
(* that rejects has changed nothing (client.ts, throwForResponse).         *)
ErrorsTellTheTruth ==
    \A c \in Uploaders : UseEnded(c) =>
        /\ use[c].error = "ArtifactNotFoundError"  => ~fact[c].there
        /\ use[c].error = "ArtifactInUseError"     => fact[c].referenced
        /\ use[c].error = "PointerContentNotManagedError" => fact[c].mode = "pointer"
        /\ use[c].error \notin {Unset, "network_error", "SyntaxError", "invalid_storage_response"}
              => ~fact[c].changed

(* A call that resolves answers in the closed sets of modes and statuses,  *)
(* whatever a newer server says (client.ts, requireWireEnum).              *)
KnownValuesOnly ==
    \A c \in Uploaders : UseResolved(c) =>
        /\ use[c].ask.op \in {"put", "get", "head"} =>
              use[c].value.mode \in Modes /\ use[c].value.status \in Statuses
        /\ use[c].ask.op = "delete" => use[c].value.status \in Statuses

(* Documents go only by a deletion that asked for it, and the answer names *)
(* those that went (errors.ts, ArtifactInUseError: "callers can use        *)
(* ?policy=with_documents to cascade").                                    *)
DocumentsNeedThePolicy ==
    \A c \in Uploaders : UseEnded(c) =>
        /\ fact[c].cascaded # {} => use[c].ask.op = "delete" /\ use[c].ask.policy = "with_documents"
        /\ UseResolved(c) /\ use[c].ask.op = "delete" => use[c].value.cascaded = fact[c].cascaded

(* A caller can go by the outcome of a call: errors, values and what went  *)
(* with a deletion are as the server has them.                             *)
AnswersAreTrue == ErrorsTellTheTruth /\ KnownValuesOnly /\ DocumentsNeedThePolicy
==============================================================================
