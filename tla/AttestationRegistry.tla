------------------------- MODULE AttestationRegistry -------------------------
(* ToriumAttestationRegistry.sol and the SDK's reads and preflights of it
   (contracts.ts).  Transactions are steps; the SDK's awaited reads are answered
   one by one while other transactions are mined; a behaviour makes one call.

   An attestation id is the tuple of what it is derived from, since the hash is
   injective: issuer, issuer nonce, payload, superseded id. *)
EXTENDS Integers, Sequences, FiniteSets

CONSTANTS
    Issuers,
    Payloads,           \* schema, subject, and the hashes of content and metadata
    ZeroContent,        \* the hash that a payload may not have
    MaxRecords          \* bound on attestationCount

\* The zero address, which a record that does not exist names, sends nothing.
ASSUME RegistryAssumption == "" \notin Issuers

VARIABLES
    records,            \* _attestations, by id
    nonces,             \* issuerNonces
    usedPayloads,       \* replay keys: issuer and payload, without the edge
    query               \* the SDK call under way or answered

registryVars == <<records, nonces, usedPayloads>>
attestationVars == <<records, nonces, usedPayloads, query>>

NoId == <<>>
SomePayload == CHOOSE p \in Payloads : TRUE

ComputeCommitment(payload, supersedes) == <<payload, supersedes>>
ComputeReplayKey(issuer, payload) == <<issuer, payload>>
ComputeAttestationId(issuer, nonce, commitment) == <<issuer, nonce>> \o commitment

NoRecord == [issuer |-> "", nonce |-> 0, payload |-> SomePayload,
             supersedes |-> NoId, supersededBy |-> NoId, revoked |-> FALSE]

RecordOf(id) == IF id \in DOMAIN records THEN records[id] ELSE NoRecord

StatusOf(record) ==
    CASE record.issuer = "" -> "missing"
      [] record.issuer # "" /\ record.revoked -> "revoked"
      [] record.issuer # "" /\ ~record.revoked /\ record.supersededBy # NoId -> "superseded"
      [] OTHER -> "active"

NoQuery == [kind |-> "none", issuer |-> CHOOSE i \in Issuers : TRUE,
            payload |-> SomePayload, target |-> NoId, pending |-> {},
            nonce |-> 0, status |-> "missing", record |-> NoRecord,
            blockers |-> {}, answered |-> FALSE, quiet |-> TRUE]

AttestationInit ==
    /\ records = <<>>
    /\ nonces = [i \in Issuers |-> 0]
    /\ usedPayloads = {}
    /\ query = NoQuery

\* --------------------------------------------------------- the contract ---

Mined == query' = [query EXCEPT !.quiet = query.kind = "none"]

ValidatePayload(payload) == payload.content # ZeroContent

\* What attest refuses about the record it supersedes, in the order of its checks.
PriorRefusal(prior, issuer, payload) ==
    CASE StatusOf(prior) = "missing" -> "AttestationNotFound"
      [] StatusOf(prior) \in {"revoked", "superseded"} -> "InvalidAttestationStatus"
      [] StatusOf(prior) = "active" /\ prior.issuer # issuer -> "IssuerMismatch"
      [] StatusOf(prior) = "active" /\ prior.issuer = issuer
            /\ prior.payload.schema # payload.schema -> "SchemaMismatch"
      [] StatusOf(prior) = "active" /\ prior.issuer = issuer
            /\ prior.payload.schema = payload.schema
            /\ prior.payload.subject # payload.subject -> "SubjectMismatch"
      [] OTHER -> "none"

AttestRefusal(issuer, payload, supersedes) ==
    CASE ~ValidatePayload(payload) -> "ZeroContentHash"
      [] ValidatePayload(payload)
            /\ ComputeReplayKey(issuer, payload) \in usedPayloads -> "DuplicatePayload"
      [] OTHER -> IF supersedes = NoId THEN "none"
                  ELSE PriorRefusal(RecordOf(supersedes), issuer, payload)

NextId(issuer, payload, supersedes) ==
    ComputeAttestationId(issuer, nonces[issuer] + 1, ComputeCommitment(payload, supersedes))

Attest(issuer, payload, supersedes) ==
    /\ Cardinality(DOMAIN records) < MaxRecords
    /\ AttestRefusal(issuer, payload, supersedes) = "none"
    /\ LET id == NextId(issuer, payload, supersedes) IN
        /\ id \notin DOMAIN records
        /\ records' = [k \in DOMAIN records \cup {id} |->
               IF k = id
               THEN [NoRecord EXCEPT !.issuer = issuer, !.nonce = nonces[issuer] + 1,
                                     !.payload = payload, !.supersedes = supersedes]
               ELSE IF k = supersedes THEN [records[k] EXCEPT !.supersededBy = id]
               ELSE records[k]]
    /\ nonces' = [nonces EXCEPT ![issuer] = @ + 1]
    /\ usedPayloads' = usedPayloads \cup {ComputeReplayKey(issuer, payload)}
    /\ Mined

\* The reason is not zero: revoke and the SDK both require it.
RevokeRefusalLate(sender, id) ==
    CASE StatusOf(RecordOf(id)) = "missing" -> "AttestationNotFound"
      [] RecordOf(id).issuer # sender -> "IssuerMismatch"
      [] StatusOf(RecordOf(id)) = "revoked" -> "InvalidAttestationStatus"
      [] OTHER -> "none"

RevokeRefusal(sender, id) ==
    CASE StatusOf(RecordOf(id)) = "missing" -> "AttestationNotFound"
      [] StatusOf(RecordOf(id)) # "missing" /\ RecordOf(id).issuer # sender -> "IssuerMismatch"
      [] StatusOf(RecordOf(id)) \in {"revoked", "superseded"}
            /\ RecordOf(id).issuer = sender -> "InvalidAttestationStatus"
      [] OTHER -> "none"

Revoke(sender, id) ==
    /\ RevokeRefusal(sender, id) = "none"
    /\ records' = [records EXCEPT ![id].revoked = TRUE]
    /\ Mined
    /\ UNCHANGED <<nonces, usedPayloads>>

\* verify: an active record of this issuer that commits to exactly this.
VerifyIgnoringStatus(id, issuer, commitment) ==
    LET record == RecordOf(id)
    IN  record.issuer = issuer
          /\ ComputeCommitment(record.payload, record.supersedes) = commitment

Verify(id, issuer, commitment) ==
    LET record == RecordOf(id)
    IN  /\ StatusOf(record) = "active" /\ record.issuer = issuer
        /\ ComputeCommitment(record.payload, record.supersedes) = commitment

\* -------------------------------------------------------------- the SDK ---

\* Ids a caller may name: those that exist and one that does not yet.
KnownIds == DOMAIN records \cup
    {NextId(i, SomePayload, NoId) : i \in Issuers}

StartGetAttestation(id) ==
    /\ query.kind = "none"
    /\ query' = [NoQuery EXCEPT !.kind = "get", !.target = id, !.pending = {"statusOf"}]
    /\ UNCHANGED registryVars

\* The payload is validated before anything is asked.
StartAttestPreflight(issuer, payload, supersedes) ==
    /\ query.kind = "none"
    /\ ValidatePayload(payload)
    /\ query' = [NoQuery EXCEPT !.kind = "attest", !.issuer = issuer, !.payload = payload,
                                !.target = supersedes,
                                !.pending = {"usedPayloads", "issuerNonces"}]
    /\ UNCHANGED registryVars

StartRevokePreflight(issuer, id) ==
    /\ query.kind = "none"
    /\ query' = [NoQuery EXCEPT !.kind = "revoke", !.issuer = issuer, !.target = id,
                                !.pending = {"statusOf"}]
    /\ UNCHANGED registryVars

\* verifyToriumAttestation: one read; the answer is kept with what was asked.
VerifyToriumAttestation(id, issuer, payload, supersedes) ==
    /\ query.kind = "none"
    /\ query' = [NoQuery EXCEPT !.kind = "verify", !.issuer = issuer, !.target = id,
                    !.record = [NoRecord EXCEPT !.payload = payload, !.supersedes = supersedes],
                    !.answered = TRUE,
                    !.blockers = IF Verify(id, issuer, ComputeCommitment(payload, supersedes))
                                 THEN {} ELSE {"not-verified"}]
    /\ UNCHANGED registryVars

\* prepareToriumAttestation and prepareToriumAttestationRevocation refuse what the
\* contract would, and the prepared request is simulated: one eth_call, whose revert
\* is decoded to the name of the contract's error.
PrepareToriumAttestation(sender, payload, supersedes) ==
    /\ query.kind = "none"
    /\ ValidatePayload(payload)
    /\ query' = [NoQuery EXCEPT !.kind = "attest", !.issuer = sender, !.payload = payload,
                    !.target = supersedes, !.nonce = nonces[sender], !.answered = TRUE,
                    !.blockers = {AttestRefusal(sender, payload, supersedes)} \ {"none"}]
    /\ UNCHANGED registryVars

PrepareToriumAttestationRevocation(sender, id) ==
    /\ query.kind = "none"
    /\ query' = [NoQuery EXCEPT !.kind = "revoke", !.issuer = sender, !.target = id,
                    !.answered = TRUE, !.blockers = {RevokeRefusal(sender, id)} \ {"none"}]
    /\ UNCHANGED registryVars

\* An answer has not the form its parser accepts: the call throws.
InvalidContractResponse ==
    /\ query.pending # {}
    /\ query' = [NoQuery EXCEPT !.kind = "failed", !.quiet = FALSE]
    /\ UNCHANGED registryVars

\* The read that follows once the pending ones have been answered.
Asking(q) ==
    IF q.pending # {} THEN q
    ELSE IF q.kind = "attest" /\ q.target # NoId THEN [q EXCEPT !.pending = {"statusOf"}]
    ELSE [q EXCEPT !.answered = TRUE]

AnswerUsedPayloads ==
    /\ "usedPayloads" \in query.pending
    /\ LET used == ComputeReplayKey(query.issuer, query.payload) \in usedPayloads
       IN  query' = Asking([query EXCEPT !.pending = @ \ {"usedPayloads"},
                            !.blockers = IF used THEN @ \cup {"duplicate-payload"} ELSE @])
    /\ UNCHANGED registryVars

AnswerIssuerNonces ==
    /\ "issuerNonces" \in query.pending
    /\ query' = Asking([query EXCEPT !.pending = @ \ {"issuerNonces"},
                                     !.nonce = nonces[query.issuer]])
    /\ UNCHANGED registryVars

Refused(status) ==
    IF query.kind = "attest"
    THEN IF status = "missing" THEN {"supersedes-not-found"} ELSE {"supersedes-not-active"}
    ELSE IF query.kind = "revoke"
    THEN IF status = "missing" THEN {"attestation-not-found"} ELSE {"attestation-not-active"}
    ELSE {}

\* A get goes on to the record unless it is missing, a preflight only when active.
AnswerStatusOf ==
    /\ "statusOf" \in query.pending
    /\ LET status == StatusOf(RecordOf(query.target))
           goOn == IF query.kind = "get" THEN status # "missing" ELSE status = "active"
       IN  query' = IF goOn
                    THEN [query EXCEPT !.status = status, !.pending = {"getAttestation"}]
                    ELSE [query EXCEPT !.status = status, !.pending = {}, !.answered = TRUE,
                                       !.blockers = @ \cup Refused(status)]
    /\ UNCHANGED registryVars

Mismatches(record) ==
    (IF record.issuer # query.issuer THEN {"issuer-mismatch"} ELSE {})
      \cup IF query.kind = "revoke" THEN {}
           ELSE (IF record.payload.schema # query.payload.schema THEN {"schema-mismatch"} ELSE {})
                  \cup (IF record.payload.subject # query.payload.subject
                        THEN {"subject-mismatch"} ELSE {})

Receive(record) ==
    /\ "getAttestation" \in query.pending
    /\ query' = [query EXCEPT !.pending = {}, !.answered = TRUE, !.record = record,
                     !.blockers = IF query.kind = "get" THEN @ ELSE @ \cup Mismatches(record)]
    /\ UNCHANGED registryVars

AnswerGetAttestation == Receive(RecordOf(query.target))

AttestationNext ==
    \/ \E issuer \in Issuers, payload \in Payloads, s \in KnownIds \cup {NoId} :
           \/ Attest(issuer, payload, s) \/ StartAttestPreflight(issuer, payload, s)
           \/ PrepareToriumAttestation(issuer, payload, s)
    \/ \E issuer \in Issuers, id \in KnownIds :
           \/ Revoke(issuer, id) \/ StartRevokePreflight(issuer, id)
           \/ PrepareToriumAttestationRevocation(issuer, id)
           \/ \E payload \in {RecordOf(id).payload, SomePayload},
                 s \in {RecordOf(id).supersedes, NoId} :
                VerifyToriumAttestation(id, issuer, payload, s)
    \/ \E id \in KnownIds : StartGetAttestation(id)
    \/ AnswerUsedPayloads \/ AnswerIssuerNonces \/ AnswerStatusOf \/ AnswerGetAttestation
    \/ InvalidContractResponse

AttestationSpec == AttestationInit /\ [][AttestationNext]_attestationVars

\* ----------------------------------------------------------- properties ---

\* Supersession forms chains: the two edges of every record mirror each other, a
\* record replaces one of the same issuer, schema and subject that is older, and
\* no payload of an issuer is ever recorded twice.
ChainsAreSound ==
    \A id \in DOMAIN records : LET r == records[id] IN
        /\ r.supersedes # NoId =>
            /\ r.supersedes \in DOMAIN records
            /\ records[r.supersedes].supersededBy = id
            /\ records[r.supersedes].issuer = r.issuer
            /\ records[r.supersedes].payload.schema = r.payload.schema
            /\ records[r.supersedes].payload.subject = r.payload.subject
            /\ records[r.supersedes].nonce < r.nonce
        /\ r.supersededBy # NoId =>
            /\ r.supersededBy \in DOMAIN records
            /\ records[r.supersededBy].supersedes = id
        /\ \A other \in DOMAIN records \ {id} :
            ComputeReplayKey(r.issuer, r.payload)
                # ComputeReplayKey(records[other].issuer, records[other].payload)

\* A record that was revoked or superseded keeps that status for ever, through
\* every later attestation and revocation of its chain.
EndedStaysEnded ==
    [][\A id \in DOMAIN records :
        StatusOf(records[id]) \in {"revoked", "superseded"} =>
            StatusOf(records'[id]) = StatusOf(records[id])]_attestationVars

\* getToriumAttestation reads the status and then the record: a status other than
\* active is confirmed by the record it is returned with, and an active one is
\* unless something was mined between the two reads.
StatusIsNeverAhead ==
    query.answered /\ query.kind = "get" /\ query.status # "missing" =>
        /\ query.status # "active" => StatusOf(query.record) = query.status
        /\ query.quiet => StatusOf(query.record) = query.status

\* A preflight never says yes where the contract refuses: with nothing mined since
\* it started attest and revoke succeed, and a yes whose reads were answered at
\* different moments is overtaken only by the same payload or by the end of the
\* record it names.
YesIsOnlyOvertaken ==
    query.answered /\ query.blockers = {} =>
        /\ query.kind = "attest" =>
            AttestRefusal(query.issuer, query.payload, query.target) \in
                IF query.quiet THEN {"none"}
                ELSE {"none", "DuplicatePayload", "InvalidAttestationStatus"}
        /\ query.kind = "revoke" =>
            RevokeRefusal(query.issuer, query.target) \in
                IF query.quiet THEN {"none"} ELSE {"none", "InvalidAttestationStatus"}

\* With nothing mined since it started, a preflight's no is the contract's, and
\* the id it predicts is the one the transaction would get.
QuietPreflightsAgree ==
    query.answered /\ query.quiet =>
        /\ query.kind = "attest" =>
            /\ query.blockers # {} =>
                AttestRefusal(query.issuer, query.payload, query.target) # "none"
            /\ ComputeAttestationId(query.issuer, query.nonce + 1,
                                    ComputeCommitment(query.payload, query.target))
                    = NextId(query.issuer, query.payload, query.target)
        /\ query.kind = "revoke" /\ query.blockers # {} =>
            RevokeRefusal(query.issuer, query.target) # "none"

\* What verifyToriumAttestation confirmed stays true of the record but for its
\* status: the record is that issuer's and commits to what was expected, whatever is
\* mined later.  With nothing mined, it is active, and a no is the contract's.
VerifiedIsTheRecord ==
    query.kind = "verify" =>
        LET record == RecordOf(query.target)
            commits == /\ record.issuer = query.issuer
                       /\ record.payload = query.record.payload
                       /\ record.supersedes = query.record.supersedes
        IN  /\ query.blockers = {} => commits
            /\ query.quiet => (query.blockers = {} <=> commits /\ StatusOf(record) = "active")

\* The registry's chains are sound, and what the SDK's separate reads of it say is
\* true of it or was overtaken.
RegistryAnswersHold ==
    /\ ChainsAreSound /\ StatusIsNeverAhead /\ VerifiedIsTheRecord
    /\ QuietPreflightsAgree /\ YesIsOnlyOvertaken
=============================================================================
