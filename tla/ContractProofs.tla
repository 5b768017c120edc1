---------------------------- MODULE ContractProofs ----------------------------
(* Proofs about the contracts.

   AttestationRegistry, for any issuers, payloads and number of records: the chains of
   the registry are sound, what ended stays ended, and the SDK's reads and preflights
   tell the truth or are overtaken.

   ContractDeployment, for any runs of the script: what is recorded and verified is
   deployed, and nothing is sent that was not checked. *)
EXTENDS AttestationRegistry, ContractDeployment, TLAPS

\* ------------------------------------------------------ inductive invariant ---

RecordForm(r) ==
    r = [issuer |-> r.issuer, nonce |-> r.nonce, payload |-> r.payload,
         supersedes |-> r.supersedes, supersededBy |-> r.supersededBy, revoked |-> r.revoked]

\* What the registry keeps of every record besides ChainsAreSound.
Booked ==
    /\ nonces \in [Issuers -> Nat]
    /\ \A id \in DOMAIN records :
        /\ id # NoId
        /\ RecordForm(records[id])
        /\ records[id].issuer \in Issuers
        /\ records[id].nonce \in Nat /\ records[id].nonce <= nonces[records[id].issuer]
        /\ records[id].revoked \in BOOLEAN
        /\ ComputeReplayKey(records[id].issuer, records[id].payload) \in usedPayloads

CallForm(q) ==
    q = [kind |-> q.kind, issuer |-> q.issuer, payload |-> q.payload, target |-> q.target,
         pending |-> q.pending, nonce |-> q.nonce, status |-> q.status, record |-> q.record,
         blockers |-> q.blockers, answered |-> q.answered, quiet |-> q.quiet]

QueryForm ==
    /\ CallForm(query)
    /\ query.answered \in BOOLEAN /\ query.quiet \in BOOLEAN
    /\ query.kind \in {"none", "failed", "get", "attest", "revoke", "verify"}
    /\ query.kind \in {"none", "failed"} => ~query.answered /\ query.pending = {}
    /\ query.kind \in {"attest", "revoke", "verify"} => query.issuer \in Issuers
    /\ query.answered => query.pending = {}
    /\ query.kind = "verify" => query.answered

Target == RecordOf(query.target)

\* The record a preflight names is the caller's and fits the payload: what no later
\* transaction changes.
Matched ==
    query.target # NoId =>
        /\ query.target \in DOMAIN records
        /\ Target.issuer = query.issuer
        /\ Target.payload.schema = query.payload.schema
        /\ Target.payload.subject = query.payload.subject

\* getToriumAttestation between its two reads.
Getting ==
    query.kind = "get" =>
        /\ query.pending \in {{}, {"statusOf"}, {"getAttestation"}}
        /\ query.pending = {"getAttestation"} =>
            /\ query.status # "missing"
            /\ query.status # "active" => StatusOf(Target) = query.status
            /\ query.quiet => StatusOf(Target) = query.status

\* The preflight of attest: what its reads have established so far, and its answer.
Attesting ==
    query.kind = "attest" =>
        /\ ValidatePayload(query.payload)
        /\ query.pending \in {{}, {"usedPayloads", "issuerNonces"}, {"usedPayloads"},
                              {"issuerNonces"}, {"statusOf"}, {"getAttestation"}}
        /\ query.quiet /\ "issuerNonces" \notin query.pending =>
            query.nonce = nonces[query.issuer]
        /\ query.pending # {} /\ query.quiet /\ "usedPayloads" \notin query.pending =>
                (query.blockers = {} <=>
                    ComputeReplayKey(query.issuer, query.payload) \notin usedPayloads)
        /\ "usedPayloads" \in query.pending => query.blockers = {}
        /\ query.pending = {"statusOf"} => query.target # NoId
        /\ query.pending = {"getAttestation"} =>
            /\ query.target # NoId /\ query.target \in DOMAIN records
            /\ query.quiet => StatusOf(Target) = "active"
        /\ query.answered =>
            /\ query.blockers = {} => Matched
            /\ query.quiet =>
                (query.blockers = {} <=>
                    AttestRefusal(query.issuer, query.payload, query.target) = "none")

\* The preflight of revoke.
Revoking ==
    query.kind = "revoke" =>
        /\ query.pending \in {{}, {"statusOf"}, {"getAttestation"}}
        /\ query.pending # {} => query.blockers = {}
        /\ query.pending = {"getAttestation"} =>
            /\ query.target \in DOMAIN records
            /\ query.quiet => StatusOf(Target) = "active"
        /\ query.answered =>
            /\ query.blockers = {} =>
                query.target \in DOMAIN records /\ Target.issuer = query.issuer
            /\ query.quiet =>
                (query.blockers = {} <=> RevokeRefusal(query.issuer, query.target) = "none")

QueryInv ==
    /\ QueryForm /\ Getting /\ Attesting /\ Revoking
    /\ StatusIsNeverAhead /\ VerifiedIsTheRecord

RegistryInv == Booked /\ ChainsAreSound /\ QueryInv

\* A transaction keeps every record but for its end, and an end for ever.
Kept ==
    \A id \in DOMAIN records :
        /\ id \in DOMAIN records'
        /\ records'[id].issuer = records[id].issuer
        /\ records'[id].payload = records[id].payload
        /\ records'[id].supersedes = records[id].supersedes
        /\ StatusOf(records[id]) \in {"revoked", "superseded"} =>
            StatusOf(records'[id]) = StatusOf(records[id])

\* ------------------------------------------------------------------ lemmas ---

\* statusOf in terms of the record.
LEMMA StatusFacts ==
    ASSUME Booked, NEW id
    PROVE  /\ StatusOf(RecordOf(id)) \in {"missing", "active", "revoked", "superseded"}
           /\ StatusOf(RecordOf(id)) = "missing" <=> id \notin DOMAIN records
           /\ id \in DOMAIN records => RecordOf(id) = records[id]
           /\ StatusOf(RecordOf(id)) = "active" =>
                ~records[id].revoked /\ records[id].supersededBy = NoId
<1>1. CASE id \in DOMAIN records
  <2>1. RecordOf(id) = records[id] /\ records[id].issuer # ""
    BY Zenon, <1>1, RegistryAssumption DEF Booked, RecordOf
  <2> QED
    BY Zenon, <1>1, <2>1 DEF StatusOf
<1>2. CASE id \notin DOMAIN records
  <2>1. RecordOf(id).issuer = ""
    BY <1>2 DEF RecordOf, NoRecord
  <2> QED
    BY Zenon, <1>2, <2>1 DEF StatusOf
<1> QED
  BY <1>1, <1>2

\* The record revoke leaves, field by field.
LEMMA RevokedRecord ==
    ASSUME NEW r, RecordForm(r), NEW b
    PROVE  [r EXCEPT !.revoked = b] =
             [issuer |-> r.issuer, nonce |-> r.nonce, payload |-> r.payload,
              supersedes |-> r.supersedes, supersededBy |-> r.supersededBy, revoked |-> b]
BY DEF RecordForm

\* An id is never the one that stands for none.
LEMMA IdIsSome ==
    ASSUME NEW issuer, NEW payload, NEW s
    PROVE  NextId(issuer, payload, s) # NoId
BY DEF NextId, ComputeAttestationId, ComputeCommitment, NoId

\* What attest admits: the payload is new to its issuer and the record it
\* supersedes is active, the issuer's own and about the same subject.
LEMMA AttestAdmits ==
    ASSUME Booked, NEW issuer, NEW payload, NEW s
    PROVE  AttestRefusal(issuer, payload, s) = "none" <=>
             /\ ValidatePayload(payload)
             /\ ComputeReplayKey(issuer, payload) \notin usedPayloads
             /\ s # NoId =>
                  /\ StatusOf(RecordOf(s)) = "active"
                  /\ RecordOf(s).issuer = issuer
                  /\ RecordOf(s).payload.schema = payload.schema
                  /\ RecordOf(s).payload.subject = payload.subject
<1>1. PriorRefusal(RecordOf(s), issuer, payload) = "none" <=>
        /\ StatusOf(RecordOf(s)) = "active"
        /\ RecordOf(s).issuer = issuer
        /\ RecordOf(s).payload.schema = payload.schema
        /\ RecordOf(s).payload.subject = payload.subject
  BY StatusFacts DEF PriorRefusal
<1> QED
  BY <1>1 DEF AttestRefusal

LEMMA RevokeAdmits ==
    ASSUME Booked, NEW sender, NEW id
    PROVE  RevokeRefusal(sender, id) = "none" <=>
             StatusOf(RecordOf(id)) = "active" /\ RecordOf(id).issuer = sender
BY StatusFacts DEF RevokeRefusal

\* ------------------------------------------------------------ transactions ---

LEMMA AttestKeeps ==
    ASSUME Booked, ChainsAreSound, NEW issuer \in Issuers, NEW payload, NEW s,
           Attest(issuer, payload, s)
    PROVE  Booked' /\ ChainsAreSound' /\ Kept
<1> DEFINE id == NextId(issuer, payload, s)
           new == [NoRecord EXCEPT !.issuer = issuer, !.nonce = nonces[issuer] + 1,
                                   !.payload = payload, !.supersedes = s]
<1>1. /\ ValidatePayload(payload)
      /\ ComputeReplayKey(issuer, payload) \notin usedPayloads
      /\ s # NoId =>
           /\ s \in DOMAIN records
           /\ ~records[s].revoked /\ records[s].supersededBy = NoId
           /\ records[s].issuer = issuer
           /\ records[s].payload.schema = payload.schema
           /\ records[s].payload.subject = payload.subject
  BY AttestAdmits, StatusFacts DEF Attest
<1>2. id # NoId /\ id \notin DOMAIN records /\ NoId \notin DOMAIN records
  BY IdIsSome DEF Attest, Booked
<1>3. /\ DOMAIN records' = DOMAIN records \cup {id}
      /\ records'[id] = new
      /\ \A k \in DOMAIN records :
            records'[k] = IF k = s THEN [records[k] EXCEPT !.supersededBy = id] ELSE records[k]
  BY <1>2 DEF Attest
<1>4. /\ RecordForm(new) /\ new.issuer = issuer /\ new.nonce = nonces[issuer] + 1
      /\ new.payload = payload /\ new.supersedes = s
      /\ new.supersededBy = NoId /\ new.revoked = FALSE
  <2>1. new = [issuer |-> issuer, nonce |-> nonces[issuer] + 1, payload |-> payload,
               supersedes |-> s, supersededBy |-> NoId, revoked |-> FALSE]
    <3>1. RecordForm(NoRecord) /\ NoRecord.supersededBy = NoId /\ NoRecord.revoked = FALSE
      <4>1. ASSUME NEW b, NEW r,
                   r = [issuer |-> "", nonce |-> 0, payload |-> SomePayload,
                        supersedes |-> NoId, supersededBy |-> NoId, revoked |-> b]
            PROVE  RecordForm(r) /\ r.supersededBy = NoId /\ r.revoked = b
        BY Zenon, <4>1 DEF RecordForm
      <4> QED
        BY Zenon, <4>1 DEF NoRecord
    <3>2. new = [issuer |-> issuer, nonce |-> nonces[issuer] + 1, payload |-> payload,
                 supersedes |-> s, supersededBy |-> NoRecord.supersededBy,
                 revoked |-> NoRecord.revoked]
      <4> DEFINE a == [NoRecord EXCEPT !.issuer = issuer]
                 b == [a EXCEPT !.nonce = nonces[issuer] + 1]
                 c == [b EXCEPT !.payload = payload]
      <4>0. RecordForm(NoRecord)
        BY Zenon, <3>1
      <4>1. a = [issuer |-> issuer, nonce |-> NoRecord.nonce, payload |-> NoRecord.payload,
                 supersedes |-> NoRecord.supersedes,
                 supersededBy |-> NoRecord.supersededBy, revoked |-> NoRecord.revoked]
        BY <4>0 DEF RecordForm
      <4> HIDE DEF a
      <4>2. b = [issuer |-> issuer, nonce |-> nonces[issuer] + 1, payload |-> NoRecord.payload,
                 supersedes |-> NoRecord.supersedes,
                 supersededBy |-> NoRecord.supersededBy, revoked |-> NoRecord.revoked]
        BY <4>1
      <4> HIDE DEF b
      <4>3. c = [issuer |-> issuer, nonce |-> nonces[issuer] + 1, payload |-> payload,
                 supersedes |-> NoRecord.supersedes,
                 supersededBy |-> NoRecord.supersededBy, revoked |-> NoRecord.revoked]
        BY <4>2
      <4> HIDE DEF c
      <4>4. [c EXCEPT !.supersedes = s] =
              [issuer |-> issuer, nonce |-> nonces[issuer] + 1, payload |-> payload,
               supersedes |-> s, supersededBy |-> NoRecord.supersededBy,
               revoked |-> NoRecord.revoked]
        BY <4>3
      <4> QED
        BY Zenon, <4>4 DEF a, b, c
    <3> QED
      BY Zenon, <3>1, <3>2
  <2> HIDE DEF new
  <2> QED
    BY Zenon, <2>1 DEF RecordForm
<1>5. \A k \in DOMAIN records :
        /\ RecordForm(records'[k])
        /\ records'[k].issuer = records[k].issuer /\ records'[k].nonce = records[k].nonce
        /\ records'[k].payload = records[k].payload
        /\ records'[k].supersedes = records[k].supersedes
        /\ records'[k].revoked = records[k].revoked
        /\ records'[k].supersededBy = IF k = s THEN id ELSE records[k].supersededBy
  <2> TAKE k \in DOMAIN records
  <2>1. RecordForm(records[k])
    BY DEF Booked
  <2>2. CASE k = s
    <3>1. records'[k] = [records[k] EXCEPT !.supersededBy = id]
      BY <1>3, <2>2
    <3>2. [records[k] EXCEPT !.supersededBy = id] =
            [issuer |-> records[k].issuer, nonce |-> records[k].nonce,
             payload |-> records[k].payload, supersedes |-> records[k].supersedes,
             supersededBy |-> id, revoked |-> records[k].revoked]
      BY <2>1 DEF RecordForm
    <3> QED
      BY <2>2, <3>1, <3>2 DEF RecordForm
  <2>3. CASE k # s
    BY <1>3, <2>1, <2>3
  <2> QED
    BY <2>2, <2>3
<1>6. /\ nonces' \in [Issuers -> Nat] /\ nonces'[issuer] = nonces[issuer] + 1
      /\ \A i \in Issuers : nonces[i] \in Nat /\ nonces[i] <= nonces'[i]
      /\ usedPayloads' = usedPayloads \cup {ComputeReplayKey(issuer, payload)}
  BY DEF Attest, Booked
<1>7. Booked'
  <2>1. ASSUME NEW k \in DOMAIN records'
        PROVE  /\ k # NoId
               /\ RecordForm(records'[k])
               /\ records'[k].issuer \in Issuers
               /\ records'[k].nonce \in Nat /\ records'[k].nonce <= nonces'[records'[k].issuer]
               /\ records'[k].revoked \in BOOLEAN
               /\ ComputeReplayKey(records'[k].issuer, records'[k].payload) \in usedPayloads'
    <3>1. CASE k = id
      <4>1. records'[k].revoked \in BOOLEAN
        BY Zenon, <3>1, <1>3, <1>4
      <4>2. nonces[issuer] + 1 \in Nat
        BY <1>6
      <4> HIDE DEF new
      <4> QED
        BY <3>1, <4>1, <4>2, <1>2, <1>3, <1>4, <1>6
    <3>2. CASE k \in DOMAIN records
      <4>1. /\ records[k].issuer \in Issuers /\ records[k].nonce \in Nat
            /\ records[k].nonce <= nonces[records[k].issuer]
            /\ records[k].revoked \in BOOLEAN
            /\ ComputeReplayKey(records[k].issuer, records[k].payload) \in usedPayloads
        BY <3>2 DEF Booked
      <4>2. records[k].nonce <= nonces'[records[k].issuer]
        BY <4>1, <1>6
      <4> QED
        BY <3>2, <4>1, <4>2, <1>2, <1>5, <1>6
    <3> QED
      BY <2>1, <1>3, <3>1, <3>2
  <2> QED
    BY <2>1, <1>6 DEF Booked, RecordForm, ComputeReplayKey
<1>8. ChainsAreSound'
  <2>1. ASSUME NEW k \in DOMAIN records', records'[k].supersedes # NoId
        PROVE  LET t == records'[k].supersedes IN
               /\ t \in DOMAIN records' /\ records'[t].supersededBy = k
               /\ records'[t].issuer = records'[k].issuer
               /\ records'[t].payload.schema = records'[k].payload.schema
               /\ records'[t].payload.subject = records'[k].payload.subject
               /\ records'[t].nonce < records'[k].nonce
    <3>1. CASE k = id
      <4>1. s # NoId /\ s \in DOMAIN records
        BY <2>1, <3>1, <1>1, <1>3, <1>4
      <4>2. records[s].nonce < nonces[issuer] + 1
        BY <4>1, <1>1 DEF Booked
      <4> QED
        BY <4>1, <4>2, <3>1, <1>1, <1>3, <1>4, <1>5
    <3>2. CASE k \in DOMAIN records
      <4> DEFINE t == records[k].supersedes
      <4>1. /\ t \in DOMAIN records /\ records[t].supersededBy = k
            /\ records[t].issuer = records[k].issuer
            /\ records[t].payload.schema = records[k].payload.schema
            /\ records[t].payload.subject = records[k].payload.subject
            /\ records[t].nonce < records[k].nonce
        BY <3>2, <2>1, <1>5 DEF ChainsAreSound
      <4>2. t # s
        BY <3>2, <4>1, <1>1, <1>2
      <4> QED
        BY <3>2, <4>1, <4>2, <1>3, <1>5
    <3> QED
      BY <1>3, <3>1, <3>2
  <2>2. ASSUME NEW k \in DOMAIN records', records'[k].supersededBy # NoId
        PROVE  /\ records'[k].supersededBy \in DOMAIN records'
               /\ records'[records'[k].supersededBy].supersedes = k
    <3>1. k \in DOMAIN records
      BY Zenon, <2>2, <1>3, <1>4
    <3>2. CASE k = s
      BY Zenon, <3>1, <3>2, <1>3, <1>4, <1>5
    <3>3. CASE k # s
      <4>1. /\ records[k].supersededBy \in DOMAIN records
            /\ records[records[k].supersededBy].supersedes = k
        BY <2>2, <3>1, <3>3, <1>5 DEF ChainsAreSound
      <4> QED
        BY <3>1, <3>3, <4>1, <1>3, <1>5
    <3> QED
      BY <3>2, <3>3
  <2>3. ASSUME NEW k \in DOMAIN records', NEW other \in DOMAIN records' \ {k}
        PROVE  ComputeReplayKey(records'[k].issuer, records'[k].payload)
                 # ComputeReplayKey(records'[other].issuer, records'[other].payload)
    <3>1. \A j \in DOMAIN records :
            ComputeReplayKey(records[j].issuer, records[j].payload) # ComputeReplayKey(issuer, payload)
      BY <1>1 DEF Booked
    <3>2. CASE k = id
      BY <3>1, <3>2, <1>3, <1>4, <1>5
    <3>3. CASE other = id
      BY <3>1, <3>3, <1>3, <1>4, <1>5
    <3>4. CASE k # id /\ other # id
      <4>1. k \in DOMAIN records /\ other \in DOMAIN records \ {k}
        BY <3>4, <1>3
      <4> QED
        BY <4>1, <1>5 DEF ChainsAreSound
    <3> QED
      BY <3>2, <3>3, <3>4
  <2> QED
    BY <2>1, <2>2, <2>3 DEF ChainsAreSound, ComputeReplayKey
<1>9. Kept
  <2> SUFFICES ASSUME NEW k \in DOMAIN records
               PROVE  StatusOf(records[k]) \in {"revoked", "superseded"} =>
                        StatusOf(records'[k]) = StatusOf(records[k])
    BY <1>3, <1>5 DEF Kept
  <2>1. records[k].issuer # "" /\ records[k].revoked \in BOOLEAN
    BY Zenon, RegistryAssumption DEF Booked
  <2>2. k = s => k # NoId /\ ~records[k].revoked /\ records[k].supersededBy = NoId
    BY <1>1, <1>2
  <2>3. CASE k = s
    BY Zenon, <2>1, <2>2, <2>3 DEF StatusOf
  <2>4. CASE k # s
    BY <1>3, <2>4
  <2> QED
    BY <2>3, <2>4
<1> QED
  BY <1>7, <1>8, <1>9

LEMMA RevokeKeeps ==
    ASSUME Booked, ChainsAreSound, NEW sender, NEW id, Revoke(sender, id)
    PROVE  Booked' /\ ChainsAreSound' /\ Kept
<1>1. id \in DOMAIN records /\ ~records[id].revoked /\ records[id].supersededBy = NoId
  BY RevokeAdmits, StatusFacts DEF Revoke
<1>2. DOMAIN records' = DOMAIN records
  BY DEF Revoke
<1>3. \A k \in DOMAIN records :
        /\ RecordForm(records'[k])
        /\ records'[k].issuer = records[k].issuer /\ records'[k].nonce = records[k].nonce
        /\ records'[k].payload = records[k].payload
        /\ records'[k].supersedes = records[k].supersedes
        /\ records'[k].supersededBy = records[k].supersededBy
        /\ records'[k].revoked = IF k = id THEN TRUE ELSE records[k].revoked
  <2> TAKE k \in DOMAIN records
  <2>1. RecordForm(records[k])
    BY DEF Booked
  <2>2. CASE k = id
    <3>1. records'[k] = [records[k] EXCEPT !.revoked = TRUE]
      BY <1>1, <2>2 DEF Revoke
    <3>2. [records[k] EXCEPT !.revoked = TRUE] =
            [issuer |-> records[k].issuer, nonce |-> records[k].nonce,
             payload |-> records[k].payload, supersedes |-> records[k].supersedes,
             supersededBy |-> records[k].supersededBy, revoked |-> TRUE]
      BY Zenon, <2>1, RevokedRecord
    <3> QED
      BY <2>2, <3>1, <3>2 DEF RecordForm
  <2>3. CASE k # id
    BY <2>1, <2>3 DEF Revoke
  <2> QED
    BY Zenon, <2>2, <2>3
<1>4. nonces' = nonces /\ usedPayloads' = usedPayloads
  BY DEF Revoke
<1>5. Booked'
  BY Zenon, <1>2, <1>3, <1>4 DEF Booked, RecordForm, ComputeReplayKey
<1>6. ChainsAreSound'
  <2> SUFFICES ASSUME NEW k \in DOMAIN records
               PROVE  /\ records'[k].supersedes # NoId =>
                           LET t == records'[k].supersedes IN
                           /\ t \in DOMAIN records /\ records'[t].supersededBy = k
                           /\ records'[t].issuer = records'[k].issuer
                           /\ records'[t].payload.schema = records'[k].payload.schema
                           /\ records'[t].payload.subject = records'[k].payload.subject
                           /\ records'[t].nonce < records'[k].nonce
                      /\ records'[k].supersededBy # NoId =>
                           /\ records'[k].supersededBy \in DOMAIN records
                           /\ records'[records'[k].supersededBy].supersedes = k
                      /\ \A other \in DOMAIN records \ {k} :
                           ComputeReplayKey(records'[k].issuer, records'[k].payload)
                             # ComputeReplayKey(records'[other].issuer, records'[other].payload)
    BY ZenonT(30), <1>2 DEF ChainsAreSound, ComputeReplayKey
  <2>6. \A j \in DOMAIN records :
          /\ records'[j].issuer = records[j].issuer /\ records'[j].nonce = records[j].nonce
          /\ records'[j].payload = records[j].payload
          /\ records'[j].supersedes = records[j].supersedes
          /\ records'[j].supersededBy = records[j].supersededBy
    BY Zenon, <1>3
  <2>1. records[k].supersedes # NoId => records[k].supersedes \in DOMAIN records
    BY DEF ChainsAreSound
  <2>2. records[k].supersededBy # NoId => records[k].supersededBy \in DOMAIN records
    BY DEF ChainsAreSound
  <2>3. ASSUME records'[k].supersedes # NoId
        PROVE  LET t == records'[k].supersedes IN
               /\ t \in DOMAIN records /\ records'[t].supersededBy = k
               /\ records'[t].issuer = records'[k].issuer
               /\ records'[t].payload.schema = records'[k].payload.schema
               /\ records'[t].payload.subject = records'[k].payload.subject
               /\ records'[t].nonce < records'[k].nonce
    BY <2>6, <2>1, <2>3 DEF ChainsAreSound
  <2>4. ASSUME records'[k].supersededBy # NoId
        PROVE  /\ records'[k].supersededBy \in DOMAIN records
               /\ records'[records'[k].supersededBy].supersedes = k
    BY <2>6, <2>2, <2>4 DEF ChainsAreSound
  <2>5. ASSUME NEW other \in DOMAIN records \ {k}
        PROVE  ComputeReplayKey(records'[k].issuer, records'[k].payload)
                 # ComputeReplayKey(records'[other].issuer, records'[other].payload)
    BY <2>6 DEF ChainsAreSound
  <2> QED
    BY <2>3, <2>4, <2>5
<1>7. Kept
  <2> SUFFICES ASSUME NEW k \in DOMAIN records
               PROVE  StatusOf(records[k]) \in {"revoked", "superseded"} =>
                        StatusOf(records'[k]) = StatusOf(records[k])
    BY Zenon, <1>2, <1>3 DEF Kept
  <2>1. records[k].issuer # "" /\ records[k].revoked \in BOOLEAN
    BY Zenon, RegistryAssumption DEF Booked
  <2> QED
    BY Zenon, <2>1, <1>1, <1>3 DEF StatusOf
<1> QED
  BY <1>5, <1>6, <1>7

\* A transaction is mined while the SDK waits: what the SDK has read of the parts of
\* a record that never change stays true, and the call is no longer quiet.
LEMMA MinedKeeps ==
    ASSUME RegistryInv, Kept, Mined
    PROVE  QueryInv'
<1> USE DEF QueryInv
<1>1. /\ query'.kind = query.kind /\ query'.issuer = query.issuer
      /\ query'.payload = query.payload /\ query'.target = query.target
      /\ query'.pending = query.pending /\ query'.nonce = query.nonce
      /\ query'.status = query.status /\ query'.record = query.record
      /\ query'.blockers = query.blockers /\ query'.answered = query.answered
      /\ query'.quiet = (query.kind = "none")
  BY DEF RegistryInv, QueryForm, CallForm, Mined
<1>2. QueryForm'
  BY <1>1 DEF RegistryInv, QueryForm, CallForm, Mined
<1>3. \A id \in DOMAIN records : RecordOf(id) = records[id] /\ RecordOf(id)' = records'[id]
  BY DEF RecordOf, Kept
<1>4. Getting'
  <2> SUFFICES ASSUME query.kind = "get", query.pending = {"getAttestation"}
               PROVE  /\ query.status # "missing"
                      /\ query.status # "active" => StatusOf(Target)' = query.status
    BY Zenon, <1>1 DEF RegistryInv, Getting
  <2>1. query.status # "missing" /\ (query.status # "active" => StatusOf(Target) = query.status)
    BY DEF RegistryInv, Getting
  <2>2. ASSUME query.status # "active" PROVE StatusOf(Target)' = query.status
    <3>1. query.target \in DOMAIN records /\ StatusOf(Target) \in {"revoked", "superseded"}
      BY <2>1, <2>2, StatusFacts DEF RegistryInv, Target
    <3>2. StatusOf(records'[query.target]) = StatusOf(records[query.target])
      BY <3>1, <1>3 DEF Kept, Target
    <3>3. StatusOf(Target)' = StatusOf(records'[query.target])
      BY Zenon, <3>1, <1>1, <1>3 DEF Target, StatusOf
    <3> QED
      BY <2>1, <2>2, <3>1, <3>2, <3>3, <1>3 DEF Target
  <2> QED
    BY <2>1, <2>2
<1>5. Attesting'
  <2> SUFFICES ASSUME query.kind = "attest"
               PROVE  /\ ValidatePayload(query.payload)
                      /\ query.pending \in {{}, {"usedPayloads", "issuerNonces"}, {"usedPayloads"},
                                            {"issuerNonces"}, {"statusOf"}, {"getAttestation"}}
                      /\ "usedPayloads" \in query.pending => query.blockers = {}
                      /\ query.pending = {"statusOf"} => query.target # NoId
                      /\ query.pending = {"getAttestation"} =>
                           query.target # NoId /\ query.target \in DOMAIN records'
                      /\ query.answered /\ query.blockers = {} => Matched'
    BY Zenon, <1>1 DEF Attesting, ValidatePayload
  <2>1. query.answered /\ query.blockers = {} => Matched'
    BY <1>1, <1>3 DEF RegistryInv, Attesting, Matched, Target, Kept
  <2> QED
    BY <2>1 DEF RegistryInv, Attesting, Kept
<1>6. Revoking'
  <2> SUFFICES ASSUME query.kind = "revoke"
               PROVE  /\ query.pending \in {{}, {"statusOf"}, {"getAttestation"}}
                      /\ query.pending # {} => query.blockers = {}
                      /\ query.pending = {"getAttestation"} => query.target \in DOMAIN records'
                      /\ query.answered /\ query.blockers = {} =>
                           query.target \in DOMAIN records' /\ Target'.issuer = query.issuer
    BY Zenon, <1>1 DEF Revoking
  <2> QED
    BY <1>1, <1>3 DEF RegistryInv, Revoking, Target, Kept
<1>7. StatusIsNeverAhead'
  BY Zenon, <1>1 DEF RegistryInv, StatusIsNeverAhead, StatusOf
<1>8. VerifiedIsTheRecord'
  <2> SUFFICES ASSUME query.kind = "verify", query.blockers = {}
               PROVE  /\ RecordOf(query.target)'.issuer = query.issuer
                      /\ RecordOf(query.target)'.payload = query.record.payload
                      /\ RecordOf(query.target)'.supersedes = query.record.supersedes
    BY Zenon, <1>1 DEF VerifiedIsTheRecord, RecordOf
  <2>1. /\ Target.issuer = query.issuer
        /\ Target.payload = query.record.payload
        /\ Target.supersedes = query.record.supersedes
    BY DEF RegistryInv, VerifiedIsTheRecord, Target
  <2>2. query.target \in DOMAIN records
    BY Zenon, <2>1, RegistryAssumption DEF RegistryInv, QueryForm, Target, RecordOf, NoRecord
  <2> QED
    BY <2>1, <2>2, <1>1, <1>3 DEF Target, Kept
<1> QED
  BY <1>2, <1>4, <1>5, <1>6, <1>7, <1>8

\* ------------------------------------------------------------ the SDK's steps ---

\* A read changes nothing in the registry.
LEMMA ReadsKeep ==
    ASSUME Booked, ChainsAreSound, UNCHANGED registryVars
    PROVE  /\ Booked' /\ ChainsAreSound'
           /\ \A id : RecordOf(id)' = RecordOf(id)
           /\ \A i, p, t : AttestRefusal(i, p, t)' = AttestRefusal(i, p, t)
           /\ \A i, id : RevokeRefusal(i, id)' = RevokeRefusal(i, id)
<1> USE DEF registryVars
<1>1. Booked'
  BY DEF Booked, RecordForm, ComputeReplayKey
<1>2. ChainsAreSound'
  BY DEF ChainsAreSound, ComputeReplayKey
<1>3. \A id : RecordOf(id)' = RecordOf(id)
  BY DEF RecordOf
<1>4. \A i, p, t : AttestRefusal(i, p, t)' = AttestRefusal(i, p, t)
  BY DEF AttestRefusal, PriorRefusal, RecordOf, StatusOf, ValidatePayload, ComputeReplayKey
<1>5. \A i, id : RevokeRefusal(i, id)' = RevokeRefusal(i, id)
  BY DEF RevokeRefusal, RecordOf, StatusOf
<1> QED
  BY <1>1, <1>2, <1>3, <1>4, <1>5

LEMMA StartGetKeeps ==
    ASSUME RegistryInv, NEW id, StartGetAttestation(id)
    PROVE  QueryInv'
<1>1. /\ query'.kind = "get" /\ query'.pending = {"statusOf"} /\ ~query'.answered
      /\ QueryForm'
  BY Zenon DEF StartGetAttestation, NoQuery, QueryForm, CallForm
<1> QED
  BY <1>1 DEF QueryInv, Getting, Attesting, Revoking, StatusIsNeverAhead, VerifiedIsTheRecord

LEMMA StartAttestKeeps ==
    ASSUME RegistryInv, NEW issuer \in Issuers, NEW payload, NEW s,
           StartAttestPreflight(issuer, payload, s)
    PROVE  QueryInv'
<1>1. /\ query'.kind = "attest" /\ query'.pending = {"usedPayloads", "issuerNonces"}
      /\ query'.blockers = {} /\ query'.payload = payload /\ ~query'.answered
      /\ QueryForm'
  BY Zenon DEF StartAttestPreflight, NoQuery, QueryForm, CallForm
<1>2. ValidatePayload(query'.payload)
  BY <1>1 DEF StartAttestPreflight
<1> QED
  BY <1>1, <1>2 DEF QueryInv, Getting, Attesting, Revoking, StatusIsNeverAhead,
                    VerifiedIsTheRecord, ValidatePayload

LEMMA StartRevokeKeeps ==
    ASSUME RegistryInv, NEW issuer \in Issuers, NEW id, StartRevokePreflight(issuer, id)
    PROVE  QueryInv'
<1>1. /\ query'.kind = "revoke" /\ query'.pending = {"statusOf"}
      /\ query'.blockers = {} /\ ~query'.answered
      /\ QueryForm'
  BY Zenon DEF StartRevokePreflight, NoQuery, QueryForm, CallForm
<1> QED
  BY <1>1 DEF QueryInv, Getting, Attesting, Revoking, StatusIsNeverAhead, VerifiedIsTheRecord

LEMMA InvalidKeeps ==
    ASSUME RegistryInv, InvalidContractResponse
    PROVE  QueryInv'
<1>1. query'.kind = "failed" /\ ~query'.answered /\ QueryForm'
  BY Zenon DEF InvalidContractResponse, NoQuery, QueryForm, CallForm
<1> QED
  BY <1>1 DEF QueryInv, Getting, Attesting, Revoking, StatusIsNeverAhead, VerifiedIsTheRecord

LEMMA VerifyKeeps ==
    ASSUME RegistryInv, NEW id, NEW issuer \in Issuers, NEW payload, NEW s,
           VerifyToriumAttestation(id, issuer, payload, s)
    PROVE  QueryInv'
<1> DEFINE holds == Verify(id, issuer, ComputeCommitment(payload, s))
<1>1. /\ query'.kind = "verify" /\ query'.issuer = issuer /\ query'.target = id
      /\ query'.record = [NoRecord EXCEPT !.payload = payload, !.supersedes = s]
      /\ query'.blockers = IF holds THEN {} ELSE {"not-verified"}
      /\ QueryForm'
  BY Zenon DEF VerifyToriumAttestation, NoQuery, QueryForm, CallForm
<1>2. query'.record.payload = payload /\ query'.record.supersedes = s
  BY <1>1 DEF NoRecord
<1>3. holds <=> /\ StatusOf(RecordOf(id)) = "active" /\ RecordOf(id).issuer = issuer
                /\ RecordOf(id).payload = payload /\ RecordOf(id).supersedes = s
  BY DEF Verify, ComputeCommitment
<1>4. UNCHANGED registryVars /\ RecordOf(id)' = RecordOf(id)
  BY DEF VerifyToriumAttestation, registryVars, RecordOf
<1>5. VerifiedIsTheRecord'
  BY Zenon, <1>1, <1>2, <1>3, <1>4 DEF VerifiedIsTheRecord, StatusOf
<1> QED
  BY <1>1, <1>5 DEF QueryInv, Getting, Attesting, Revoking, StatusIsNeverAhead

LEMMA PrepareAttestKeeps ==
    ASSUME RegistryInv, NEW issuer \in Issuers, NEW payload, NEW s,
           PrepareToriumAttestation(issuer, payload, s)
    PROVE  QueryInv'
<1>1. /\ query'.kind = "attest" /\ query'.issuer = issuer /\ query'.payload = payload
      /\ query'.target = s /\ query'.nonce = nonces[issuer] /\ query'.pending = {}
      /\ query'.blockers = {AttestRefusal(issuer, payload, s)} \ {"none"}
      /\ QueryForm'
  BY Zenon DEF PrepareToriumAttestation, NoQuery, QueryForm, CallForm
<1>2. /\ ValidatePayload(payload) /\ nonces' = nonces /\ records' = records
      /\ UNCHANGED registryVars
  BY DEF PrepareToriumAttestation, registryVars
<1>3. query'.blockers = {} <=> AttestRefusal(issuer, payload, s) = "none"
  BY <1>1
<1>4. AttestRefusal(issuer, payload, s)' = AttestRefusal(issuer, payload, s)
      /\ RecordOf(s)' = RecordOf(s)
  BY <1>2, ReadsKeep DEF RegistryInv
<1>5. query'.blockers = {} => Matched'
  BY <1>1, <1>2, <1>3, <1>4, AttestAdmits, StatusFacts DEF RegistryInv, Matched, Target
<1>6. AttestRefusal(query.issuer, query.payload, query.target)' = AttestRefusal(issuer, payload, s)
  BY <1>1, <1>4 DEF AttestRefusal, PriorRefusal, ValidatePayload, ComputeReplayKey
<1>7. Attesting'
  BY <1>1, <1>2, <1>3, <1>5, <1>6 DEF Attesting, ValidatePayload
<1> QED
  BY <1>1, <1>7 DEF QueryInv, Getting, Revoking, StatusIsNeverAhead, VerifiedIsTheRecord

LEMMA PrepareRevokeKeeps ==
    ASSUME RegistryInv, NEW issuer \in Issuers, NEW id,
           PrepareToriumAttestationRevocation(issuer, id)
    PROVE  QueryInv'
<1>1. /\ query'.kind = "revoke" /\ query'.issuer = issuer
      /\ query'.target = id /\ query'.pending = {}
      /\ query'.blockers = {RevokeRefusal(issuer, id)} \ {"none"}
      /\ QueryForm'
  BY Zenon DEF PrepareToriumAttestationRevocation, NoQuery, QueryForm, CallForm
<1>2. records' = records /\ UNCHANGED registryVars
  BY DEF PrepareToriumAttestationRevocation, registryVars
<1>3. query'.blockers = {} <=> RevokeRefusal(issuer, id) = "none"
  BY <1>1
<1>4. RecordOf(id)' = RecordOf(id)
  BY <1>2, ReadsKeep DEF RegistryInv
<1>5. RevokeRefusal(query.issuer, query.target)' = RevokeRefusal(issuer, id)
  BY <1>1, <1>4 DEF RevokeRefusal
<1>6. query'.blockers = {} => id \in DOMAIN records /\ RecordOf(id).issuer = issuer
  BY <1>3, RevokeAdmits, StatusFacts DEF RegistryInv
<1>7. Revoking'
  BY <1>1, <1>2, <1>3, <1>4, <1>5, <1>6 DEF Revoking, Target
<1> QED
  BY <1>1, <1>7 DEF QueryInv, Getting, Attesting, StatusIsNeverAhead, VerifiedIsTheRecord

\* The read that follows, as the fields it changes.
LEMMA AskingFields ==
    ASSUME NEW q, CallForm(q), q.kind = "attest"
    PROVE  /\ CallForm(Asking(q))
           /\ Asking(q).kind = "attest" /\ Asking(q).issuer = q.issuer
           /\ Asking(q).payload = q.payload /\ Asking(q).target = q.target
           /\ Asking(q).nonce = q.nonce /\ Asking(q).blockers = q.blockers
           /\ Asking(q).quiet = q.quiet
           /\ q.pending # {} =>
                Asking(q).pending = q.pending /\ Asking(q).answered = q.answered
           /\ q.pending = {} /\ q.target # NoId =>
                Asking(q).pending = {"statusOf"} /\ Asking(q).answered = q.answered
           /\ q.pending = {} /\ q.target = NoId =>
                Asking(q).pending = {} /\ Asking(q).answered = TRUE
BY Zenon DEF Asking, CallForm

LEMMA AnswerUsedKeeps ==
    ASSUME RegistryInv, AnswerUsedPayloads
    PROVE  QueryInv'
<1> USE DEF RegistryInv, QueryInv
<1> DEFINE used == ComputeReplayKey(query.issuer, query.payload) \in usedPayloads
           q == [query EXCEPT !.pending = @ \ {"usedPayloads"},
                              !.blockers = IF used THEN @ \cup {"duplicate-payload"} ELSE @]
<1>1. /\ query.kind = "attest" /\ ~query.answered /\ query.blockers = {}
      /\ query.pending \in {{"usedPayloads", "issuerNonces"}, {"usedPayloads"}}
  BY DEF AnswerUsedPayloads, QueryForm, Getting, Attesting, Revoking
<1>0. CallForm(query)
  BY DEF QueryForm
<1>8. CallForm(q)
  <2> DEFINE p == [query EXCEPT !.pending = @ \ {"usedPayloads"}]
             b == IF used THEN query.blockers \cup {"duplicate-payload"} ELSE query.blockers
  <2>1. CallForm(p) /\ p.blockers = query.blockers
    BY <1>0 DEF CallForm
  <2> HIDE DEF p, b
  <2>2. CallForm([p EXCEPT !.blockers = b])
    BY <2>1 DEF CallForm
  <2> QED
    BY Zenon, <2>1, <2>2 DEF p, b
<1>2. /\ q.kind = "attest" /\ q.issuer = query.issuer /\ q.payload = query.payload
      /\ q.target = query.target /\ q.nonce = query.nonce
      /\ q.quiet = query.quiet /\ q.answered = query.answered
      /\ q.pending = query.pending \ {"usedPayloads"}
      /\ q.blockers = IF used THEN {"duplicate-payload"} ELSE {}
  BY <1>0, <1>1 DEF CallForm
<1>3. query' = Asking(q) /\ UNCHANGED registryVars
  BY DEF AnswerUsedPayloads
<1> HIDE DEF q
<1>4. /\ query'.kind = "attest" /\ query'.issuer = query.issuer
      /\ query'.payload = query.payload /\ query'.target = query.target
      /\ query'.nonce = query.nonce /\ query'.quiet = query.quiet
      /\ query'.blockers = IF used THEN {"duplicate-payload"} ELSE {}
  BY Zenon, <1>8, <1>2, <1>3, AskingFields
<1>5. /\ query.pending = {"usedPayloads", "issuerNonces"} =>
           query'.pending = {"issuerNonces"} /\ ~query'.answered
      /\ query.pending = {"usedPayloads"} /\ query.target # NoId =>
           query'.pending = {"statusOf"} /\ ~query'.answered
      /\ query.pending = {"usedPayloads"} /\ query.target = NoId =>
           query'.pending = {} /\ query'.answered
  <2>1. /\ query.pending = {"usedPayloads", "issuerNonces"} => q.pending = {"issuerNonces"}
        /\ query.pending = {"usedPayloads"} => q.pending = {}
    BY <1>2
  <2>2. q.answered = FALSE
    <3>1. query.answered \in BOOLEAN
      BY DEF QueryForm
    <3> QED
      BY Zenon, <1>1, <1>2, <3>1
  <2>3. CASE q.pending # {}
    <3>1. query'.pending = q.pending /\ query'.answered = q.answered
      BY Zenon, <1>8, <1>2, <1>3, <2>3, AskingFields
    <3> QED
      BY Zenon, <2>1, <2>2, <2>3, <3>1
  <2>4. CASE q.pending = {} /\ q.target # NoId
    <3>1. query'.pending = {"statusOf"} /\ query'.answered = q.answered
      BY Zenon, <1>8, <1>2, <1>3, <2>4, AskingFields
    <3>2. query.pending # {"usedPayloads", "issuerNonces"} /\ query.target # NoId
      BY <2>1, <2>4, <1>2
    <3> QED
      BY Zenon, <2>2, <3>1, <3>2
  <2>5. CASE q.pending = {} /\ q.target = NoId
    <3>1. query'.pending = {} /\ query'.answered = TRUE
      BY Zenon, <1>8, <1>2, <1>3, <2>5, AskingFields
    <3>2. query.pending # {"usedPayloads", "issuerNonces"} /\ query.target = NoId
      BY <2>1, <2>5, <1>2
    <3> QED
      BY Zenon, <3>1, <3>2
  <2> QED
    BY <2>3, <2>4, <2>5
<1>6. QueryForm'
  BY Zenon, <1>8, <1>1, <1>2, <1>3, <1>4, <1>5, AskingFields DEF QueryForm
<1>7. Attesting'
  <2>1. UNCHANGED <<nonces, records, usedPayloads>>
    BY <1>3 DEF registryVars
  <2>2. ValidatePayload(query'.payload)
    BY <1>1, <1>4 DEF Attesting
  <2>3. query'.quiet /\ "issuerNonces" \notin query'.pending => query'.nonce = nonces[query'.issuer]
    BY <1>1, <1>4, <1>5 DEF Attesting
  <2>4. query'.answered =>
          (AttestRefusal(query.issuer, query.payload, query.target)' = "none" <=> ~used)
    BY <1>1, <1>4, <1>5, <2>1, <2>2
       DEF AttestRefusal, ComputeReplayKey, ValidatePayload
  <2> QED
    BY <1>1, <1>4, <1>5, <2>1, <2>2, <2>3, <2>4
       DEF Attesting, Matched, ValidatePayload, ComputeReplayKey
<1> QED
  BY <1>4, <1>6, <1>7 DEF Getting, Revoking, StatusIsNeverAhead, VerifiedIsTheRecord

LEMMA AnswerNoncesKeeps ==
    ASSUME RegistryInv, AnswerIssuerNonces
    PROVE  QueryInv'
<1> USE DEF RegistryInv, QueryInv
<1> DEFINE used == ComputeReplayKey(query.issuer, query.payload) \in usedPayloads
           q == [query EXCEPT !.pending = @ \ {"issuerNonces"}, !.nonce = nonces[query.issuer]]
<1>1. /\ query.kind = "attest" /\ ~query.answered
      /\ query.pending \in {{"usedPayloads", "issuerNonces"}, {"issuerNonces"}}
  BY DEF AnswerIssuerNonces, QueryForm, Getting, Attesting, Revoking
<1>0. CallForm(query)
  BY DEF QueryForm
<1>8. CallForm(q)
  <2> DEFINE p == [query EXCEPT !.pending = @ \ {"issuerNonces"}]
  <2>1. CallForm(p)
    BY <1>0 DEF CallForm
  <2> HIDE DEF p
  <2>2. CallForm([p EXCEPT !.nonce = nonces[query.issuer]])
    BY <2>1 DEF CallForm
  <2> QED
    BY Zenon, <2>2 DEF p
<1>2. /\ q.kind = "attest" /\ q.issuer = query.issuer /\ q.payload = query.payload
      /\ q.target = query.target /\ q.nonce = nonces[query.issuer]
      /\ q.quiet = query.quiet /\ q.answered = query.answered
      /\ q.pending = query.pending \ {"issuerNonces"}
      /\ q.blockers = query.blockers
  BY <1>0, <1>1 DEF CallForm
<1>3. query' = Asking(q) /\ UNCHANGED registryVars
  BY DEF AnswerIssuerNonces
<1> HIDE DEF q
<1>4. /\ query'.kind = "attest" /\ query'.issuer = query.issuer
      /\ query'.payload = query.payload /\ query'.target = query.target
      /\ query'.nonce = nonces[query.issuer] /\ query'.quiet = query.quiet
      /\ query'.blockers = query.blockers
  BY Zenon, <1>8, <1>2, <1>3, AskingFields
<1>5. /\ query.pending = {"usedPayloads", "issuerNonces"} =>
           query'.pending = {"usedPayloads"} /\ ~query'.answered
      /\ query.pending = {"issuerNonces"} /\ query.target # NoId =>
           query'.pending = {"statusOf"} /\ ~query'.answered
      /\ query.pending = {"issuerNonces"} /\ query.target = NoId =>
           query'.pending = {} /\ query'.answered
  <2>1. /\ query.pending = {"usedPayloads", "issuerNonces"} => q.pending = {"usedPayloads"}
        /\ query.pending = {"issuerNonces"} => q.pending = {}
    BY <1>2
  <2>2. q.answered = FALSE
    <3>1. query.answered \in BOOLEAN
      BY DEF QueryForm
    <3> QED
      BY Zenon, <1>1, <1>2, <3>1
  <2>3. CASE q.pending # {}
    <3>1. query'.pending = q.pending /\ query'.answered = q.answered
      BY Zenon, <1>8, <1>2, <1>3, <2>3, AskingFields
    <3> QED
      BY Zenon, <2>1, <2>2, <2>3, <3>1
  <2>4. CASE q.pending = {} /\ q.target # NoId
    <3>1. query'.pending = {"statusOf"} /\ query'.answered = q.answered
      BY Zenon, <1>8, <1>2, <1>3, <2>4, AskingFields
    <3>2. query.pending # {"usedPayloads", "issuerNonces"} /\ query.target # NoId
      BY <2>1, <2>4, <1>2
    <3> QED
      BY Zenon, <2>2, <3>1, <3>2
  <2>5. CASE q.pending = {} /\ q.target = NoId
    <3>1. query'.pending = {} /\ query'.answered = TRUE
      BY Zenon, <1>8, <1>2, <1>3, <2>5, AskingFields
    <3>2. query.pending # {"usedPayloads", "issuerNonces"} /\ query.target = NoId
      BY <2>1, <2>5, <1>2
    <3> QED
      BY Zenon, <3>1, <3>2
  <2> QED
    BY <2>3, <2>4, <2>5
<1>6. QueryForm'
  BY Zenon, <1>8, <1>1, <1>2, <1>3, <1>4, <1>5, AskingFields DEF QueryForm
<1>7. Attesting'
  <2>1. UNCHANGED <<nonces, records, usedPayloads>>
    BY <1>3 DEF registryVars
  <2>2. ValidatePayload(query'.payload)
    BY <1>1, <1>4 DEF Attesting
  <2>3. query.pending = {"issuerNonces"} /\ query.quiet => (query.blockers = {} <=> ~used)
    BY <1>1 DEF Attesting
  <2>4. "usedPayloads" \in query'.pending => query'.blockers = {}
    BY <1>1, <1>4, <1>5 DEF Attesting
  <2>5. query'.answered =>
          (AttestRefusal(query.issuer, query.payload, query.target)' = "none" <=> ~used)
    BY <1>1, <1>4, <1>5, <2>1, <2>2
       DEF AttestRefusal, ComputeReplayKey, ValidatePayload
  <2> QED
    BY <1>1, <1>4, <1>5, <2>1, <2>2, <2>3, <2>4, <2>5
       DEF Attesting, Matched, ValidatePayload, ComputeReplayKey
<1> QED
  BY <1>4, <1>6, <1>7 DEF Getting, Revoking, StatusIsNeverAhead, VerifiedIsTheRecord

LEMMA AnswerStatusKeeps ==
    ASSUME RegistryInv, AnswerStatusOf
    PROVE  QueryInv'
<1> USE DEF RegistryInv, QueryInv
<1> DEFINE status == StatusOf(Target)
           goOn == IF query.kind = "get" THEN status # "missing" ELSE status = "active"
<1>1. /\ query.kind \in {"get", "attest", "revoke"} /\ query.pending = {"statusOf"}
      /\ ~query.answered /\ query.answered \in BOOLEAN /\ query.quiet \in BOOLEAN
      /\ CallForm(query)
  BY DEF AnswerStatusOf, QueryForm, Getting, Attesting, Revoking
<1>2. /\ UNCHANGED <<records, nonces, usedPayloads>> /\ UNCHANGED registryVars
      /\ query' = IF goOn
                  THEN [query EXCEPT !.status = status, !.pending = {"getAttestation"}]
                  ELSE [query EXCEPT !.status = status, !.pending = {}, !.answered = TRUE,
                                     !.blockers = @ \cup Refused(status)]
  BY DEF AnswerStatusOf, registryVars, Target
<1> HIDE DEF status
<1>3. /\ query'.kind = query.kind /\ query'.issuer = query.issuer
      /\ query'.payload = query.payload /\ query'.target = query.target
      /\ query'.nonce = query.nonce /\ query'.quiet = query.quiet
      /\ query'.status = status
      /\ query'.pending = IF goOn THEN {"getAttestation"} ELSE {}
      /\ query'.blockers = IF goOn THEN query.blockers ELSE query.blockers \cup Refused(status)
  BY <1>1, <1>2 DEF CallForm
<1>4. query'.answered = (~goOn) /\ query'.answered \in BOOLEAN
  BY Zenon, <1>1, <1>2 DEF CallForm
<1>5. CallForm(query')
  BY Zenon, <1>1, <1>2 DEF CallForm
<1>6. QueryForm'
  BY <1>1, <1>3, <1>4, <1>5 DEF QueryForm
<1>7. Target' = Target /\ StatusOf(Target)' = status
  <2>1. Target' = Target
    BY <1>2, <1>3 DEF Target, RecordOf
  <2> QED
    BY <2>1 DEF StatusOf, status
<1>8. /\ status \in {"missing", "active", "revoked", "superseded"}
      /\ status = "missing" <=> query.target \notin DOMAIN records
  BY StatusFacts DEF Target, status
<1>9. Getting'
  BY <1>1, <1>3, <1>7, <1>8 DEF Getting
<1>10. StatusIsNeverAhead'
  BY <1>1, <1>3, <1>4 DEF StatusIsNeverAhead
<1>11. Attesting'
  <2> SUFFICES ASSUME query.kind = "attest" PROVE Attesting'
    BY <1>3 DEF Attesting
  <2>1. /\ ValidatePayload(query.payload) /\ query.target # NoId
        /\ query.quiet => query.nonce = nonces[query.issuer]
        /\ query.quiet => (query.blockers = {} <=>
             ComputeReplayKey(query.issuer, query.payload) \notin usedPayloads)
    BY <1>1 DEF Attesting
  <2>2. CASE goOn
    BY <1>2, <1>3, <1>4, <1>7, <1>8, <2>1, <2>2 DEF Attesting, ValidatePayload, ComputeReplayKey
  <2>3. CASE ~goOn
    <3>1. query'.blockers # {} /\ query'.pending = {}
      BY <1>3, <2>3 DEF Refused
    <3>2. AttestRefusal(query.issuer, query.payload, query.target) # "none"
      BY <2>1, <2>3, AttestAdmits DEF status, Target
    <3>3. AttestRefusal(query.issuer, query.payload, query.target)'
            = AttestRefusal(query.issuer, query.payload, query.target)
      BY <1>2, <1>3 DEF AttestRefusal, PriorRefusal, ValidatePayload, ComputeReplayKey,
                        RecordOf, StatusOf
    <3> QED
      BY <1>2, <1>3, <2>1, <3>1, <3>2, <3>3 DEF Attesting, ValidatePayload
  <2> QED
    BY <2>2, <2>3
<1>12. Revoking'
  <2> SUFFICES ASSUME query.kind = "revoke" PROVE Revoking'
    BY <1>3 DEF Revoking
  <2>1. query.blockers = {}
    BY <1>1 DEF Revoking
  <2>2. CASE goOn
    BY <1>2, <1>3, <1>4, <1>7, <1>8, <2>1, <2>2 DEF Revoking
  <2>3. CASE ~goOn
    <3>1. query'.blockers # {} /\ query'.pending = {}
      BY <1>3, <2>3 DEF Refused
    <3>2. RevokeRefusal(query.issuer, query.target) # "none"
      BY <2>3, RevokeAdmits DEF status, Target
    <3>3. RevokeRefusal(query.issuer, query.target)' = RevokeRefusal(query.issuer, query.target)
      BY <1>2, <1>3 DEF RevokeRefusal, RecordOf, StatusOf
    <3> QED
      BY <1>3, <3>1, <3>2, <3>3 DEF Revoking
  <2> QED
    BY <2>2, <2>3
<1> QED
  BY <1>1, <1>3, <1>6, <1>9, <1>10, <1>11, <1>12 DEF VerifiedIsTheRecord

LEMMA AnswerGetKeeps ==
    ASSUME RegistryInv, AnswerGetAttestation
    PROVE  QueryInv'
<1> USE DEF RegistryInv, QueryInv
<1> DEFINE found == IF query.kind = "get" THEN {} ELSE Mismatches(Target)
<1>1. /\ query.kind \in {"get", "attest", "revoke"} /\ query.pending = {"getAttestation"}
      /\ ~query.answered /\ query.quiet \in BOOLEAN /\ CallForm(query)
  BY DEF AnswerGetAttestation, Receive, QueryForm, Getting, Attesting, Revoking
<1>2. /\ UNCHANGED <<records, nonces, usedPayloads>>
      /\ query' = [query EXCEPT !.pending = {}, !.answered = TRUE, !.record = Target,
                       !.blockers = IF query.kind = "get" THEN @ ELSE @ \cup Mismatches(Target)]
  BY DEF AnswerGetAttestation, Receive, registryVars, Target
<1>3. /\ query'.kind = query.kind /\ query'.issuer = query.issuer
      /\ query'.payload = query.payload /\ query'.target = query.target
      /\ query'.nonce = query.nonce /\ query'.quiet = query.quiet
      /\ query'.status = query.status /\ query'.pending = {} /\ query'.record = Target
      /\ query'.blockers = query.blockers \cup found
  BY <1>1, <1>2 DEF CallForm
<1>4. query'.answered = TRUE
  BY <1>1, <1>2 DEF CallForm
<1>5. CallForm(query')
  BY Zenon, <1>1, <1>2 DEF CallForm
<1>6. QueryForm'
  BY Zenon, <1>1, <1>3, <1>4, <1>5 DEF QueryForm
<1>7. Target' = Target
  BY <1>2, <1>3 DEF Target, RecordOf
<1>8. Getting' /\ StatusIsNeverAhead'
  <2>1. query.kind = "get" =>
          /\ query.status # "active" => StatusOf(Target) = query.status
          /\ query.quiet => StatusOf(Target) = query.status
    BY <1>1 DEF Getting
  <2>2. StatusOf(query.record)' = StatusOf(Target)
    BY <1>3 DEF StatusOf
  <2> QED
    BY <1>3, <2>1, <2>2 DEF Getting, StatusIsNeverAhead
<1>9. Attesting'
  <2> SUFFICES ASSUME query.kind = "attest" PROVE Attesting'
    BY SMTT(30), <1>3 DEF Attesting
  <2>1. /\ ValidatePayload(query.payload)
        /\ query.target # NoId /\ query.target \in DOMAIN records
        /\ query.quiet => StatusOf(Target) = "active"
        /\ query.quiet => query.nonce = nonces[query.issuer]
        /\ query.quiet => (query.blockers = {} <=>
             ComputeReplayKey(query.issuer, query.payload) \notin usedPayloads)
    BY <1>1 DEF Attesting
  <2>2. found = {} <=> /\ Target.issuer = query.issuer
                       /\ Target.payload.schema = query.payload.schema
                       /\ Target.payload.subject = query.payload.subject
    BY DEF Mismatches
  <2> HIDE DEF found
  <2>3. query'.blockers = {} <=> query.blockers = {} /\ found = {}
    BY <1>3
  <2>4. query'.blockers = {} => Matched'
    BY <1>2, <1>3, <1>7, <2>1, <2>2, <2>3 DEF Matched
  <2>5. query.quiet =>
          (query'.blockers = {} <=> AttestRefusal(query.issuer, query.payload, query.target) = "none")
    BY <2>1, <2>2, <2>3, AttestAdmits DEF Target
  <2>6. AttestRefusal(query.issuer, query.payload, query.target)'
          = AttestRefusal(query.issuer, query.payload, query.target)
    BY <1>2, <1>3 DEF AttestRefusal, PriorRefusal, ValidatePayload, ComputeReplayKey,
                      RecordOf, StatusOf
  <2> QED
    BY SMTT(30), <1>2, <1>3, <2>1, <2>4, <2>5, <2>6 DEF Attesting, ValidatePayload
<1>10. Revoking'
  <2> SUFFICES ASSUME query.kind = "revoke" PROVE Revoking'
    BY <1>3 DEF Revoking
  <2>1. /\ query.blockers = {} /\ query.target \in DOMAIN records
        /\ query.quiet => StatusOf(Target) = "active"
    BY <1>1 DEF Revoking
  <2>2. found = {} <=> Target.issuer = query.issuer
    BY DEF Mismatches
  <2> HIDE DEF found
  <2>3. query'.blockers = {} <=> found = {}
    BY <1>3, <2>1
  <2>4. query.quiet =>
          (query'.blockers = {} <=> RevokeRefusal(query.issuer, query.target) = "none")
    BY <2>1, <2>2, <2>3, RevokeAdmits DEF Target
  <2>5. RevokeRefusal(query.issuer, query.target)' = RevokeRefusal(query.issuer, query.target)
    BY <1>2, <1>3 DEF RevokeRefusal, RecordOf, StatusOf
  <2> QED
    BY <1>2, <1>3, <1>7, <2>1, <2>2, <2>3, <2>4, <2>5 DEF Revoking
<1> QED
  BY <1>1, <1>3, <1>6, <1>8, <1>9, <1>10 DEF VerifiedIsTheRecord

\* ---------------------------------------------------------------- theorems ---

LEMMA RegistryInitInv == AttestationInit => RegistryInv
<1> SUFFICES ASSUME AttestationInit PROVE RegistryInv
  OBVIOUS
<1>1. DOMAIN records = {} /\ nonces \in [Issuers -> Nat]
  BY DEF AttestationInit
<1>2. query.kind = "none" /\ ~query.answered /\ QueryForm
  BY DEF AttestationInit, NoQuery, QueryForm, CallForm
<1>3. Booked /\ ChainsAreSound
  BY <1>1 DEF Booked, ChainsAreSound
<1> QED
  BY <1>2, <1>3 DEF RegistryInv, QueryInv, Getting, Attesting, Revoking, StatusIsNeverAhead,
                    VerifiedIsTheRecord

LEMMA RegistryStep ==
    ASSUME RegistryInv, [AttestationNext]_attestationVars
    PROVE  RegistryInv' /\ Kept
<1>1. ASSUME UNCHANGED registryVars PROVE Booked' /\ ChainsAreSound' /\ Kept
  <2>1. Booked' /\ ChainsAreSound'
    BY <1>1, ReadsKeep DEF RegistryInv
  <2> QED
    BY <1>1, <2>1 DEF Kept, registryVars, StatusOf
<1>2. ASSUME NEW issuer \in Issuers, NEW payload \in Payloads, NEW s \in KnownIds \cup {NoId},
             \/ Attest(issuer, payload, s) \/ StartAttestPreflight(issuer, payload, s)
             \/ PrepareToriumAttestation(issuer, payload, s)
      PROVE  RegistryInv' /\ Kept
  <2>1. CASE Attest(issuer, payload, s)
    <3>1. Booked' /\ ChainsAreSound' /\ Kept
      BY SMTT(30), <2>1, AttestKeeps DEF RegistryInv
    <3> QED
      BY <2>1, <3>1, MinedKeeps DEF RegistryInv, Attest
  <2>2. CASE StartAttestPreflight(issuer, payload, s)
    BY Zenon, <2>2, <1>1, StartAttestKeeps DEF RegistryInv, StartAttestPreflight
  <2>3. CASE PrepareToriumAttestation(issuer, payload, s)
    BY Zenon, <2>3, <1>1, PrepareAttestKeeps DEF RegistryInv, PrepareToriumAttestation
  <2> QED
    BY <1>2, <2>1, <2>2, <2>3
<1>3. ASSUME NEW issuer \in Issuers, NEW id \in KnownIds,
             \/ Revoke(issuer, id) \/ StartRevokePreflight(issuer, id)
             \/ PrepareToriumAttestationRevocation(issuer, id)
             \/ \E payload \in {RecordOf(id).payload, SomePayload},
                   s \in {RecordOf(id).supersedes, NoId} :
                  VerifyToriumAttestation(id, issuer, payload, s)
      PROVE  RegistryInv' /\ Kept
  <2>1. CASE Revoke(issuer, id)
    <3>1. Booked' /\ ChainsAreSound' /\ Kept
      BY <2>1, RevokeKeeps DEF RegistryInv
    <3> QED
      BY <2>1, <3>1, MinedKeeps DEF RegistryInv, Revoke
  <2>2. CASE StartRevokePreflight(issuer, id)
    BY Zenon, <2>2, <1>1, StartRevokeKeeps DEF RegistryInv, StartRevokePreflight
  <2>3. CASE PrepareToriumAttestationRevocation(issuer, id)
    BY Zenon, <2>3, <1>1, PrepareRevokeKeeps DEF RegistryInv, PrepareToriumAttestationRevocation
  <2>4. ASSUME NEW payload, NEW s, VerifyToriumAttestation(id, issuer, payload, s)
        PROVE  RegistryInv' /\ Kept
    BY Zenon, <2>4, <1>1, VerifyKeeps DEF RegistryInv, VerifyToriumAttestation
  <2> QED
    BY <1>3, <2>1, <2>2, <2>3, <2>4
<1>4. ASSUME NEW id \in KnownIds, StartGetAttestation(id) PROVE RegistryInv' /\ Kept
  BY Zenon, <1>4, <1>1, StartGetKeeps DEF RegistryInv, StartGetAttestation
<1>5. CASE AnswerUsedPayloads
  BY <1>5, <1>1, AnswerUsedKeeps DEF RegistryInv, AnswerUsedPayloads
<1>6. CASE AnswerIssuerNonces
  BY <1>6, <1>1, AnswerNoncesKeeps DEF RegistryInv, AnswerIssuerNonces
<1>7. CASE AnswerStatusOf
  BY <1>7, <1>1, AnswerStatusKeeps DEF RegistryInv, AnswerStatusOf
<1>8. CASE AnswerGetAttestation
  BY <1>8, <1>1, AnswerGetKeeps DEF RegistryInv, AnswerGetAttestation, Receive
<1>9. CASE InvalidContractResponse
  BY <1>9, <1>1, InvalidKeeps DEF RegistryInv, InvalidContractResponse
<1>10. CASE UNCHANGED attestationVars
  <2>1. Booked' /\ ChainsAreSound' /\ Kept
    BY <1>10, <1>1 DEF attestationVars, registryVars
  <2>2. QueryInv'
    BY ZenonT(60), <1>10 DEF attestationVars, RegistryInv, QueryInv, QueryForm, CallForm, Getting, Attesting,
                 Revoking, Matched, Target, StatusIsNeverAhead, VerifiedIsTheRecord, RecordOf,
                 StatusOf, AttestRefusal, PriorRefusal, RevokeRefusal, ValidatePayload,
                 ComputeReplayKey
  <2> QED
    BY <2>1, <2>2 DEF RegistryInv
<1> QED
  BY <1>2, <1>3, <1>4, <1>5, <1>6, <1>7, <1>8, <1>9, <1>10 DEF AttestationNext

\* The invariant gives what the SDK's answers promise.
LEMMA InvAnswers == RegistryInv => RegistryAnswersHold
<1> SUFFICES ASSUME RegistryInv PROVE RegistryAnswersHold
  OBVIOUS
<1>1. YesIsOnlyOvertaken
  <2>1. ASSUME query.answered, query.blockers = {}, query.kind = "attest"
        PROVE  AttestRefusal(query.issuer, query.payload, query.target) \in
                 IF query.quiet THEN {"none"}
                 ELSE {"none", "DuplicatePayload", "InvalidAttestationStatus"}
    <3>1. /\ ValidatePayload(query.payload) /\ Matched
          /\ query.quiet => AttestRefusal(query.issuer, query.payload, query.target) = "none"
      BY <2>1 DEF RegistryInv, QueryInv, Attesting
    <3>2. query.target # NoId =>
            PriorRefusal(Target, query.issuer, query.payload) \in {"none", "InvalidAttestationStatus"}
      BY <3>1, StatusFacts DEF RegistryInv, Matched, Target, PriorRefusal
    <3>3. AttestRefusal(query.issuer, query.payload, query.target)
            \in {"none", "DuplicatePayload", "InvalidAttestationStatus"}
      BY <3>1, <3>2 DEF AttestRefusal, Target
    <3> QED
      BY <3>1, <3>3
  <2>2. ASSUME query.answered, query.blockers = {}, query.kind = "revoke"
        PROVE  RevokeRefusal(query.issuer, query.target) \in
                 IF query.quiet THEN {"none"} ELSE {"none", "InvalidAttestationStatus"}
    <3>1. /\ query.target \in DOMAIN records /\ Target.issuer = query.issuer
          /\ query.quiet => RevokeRefusal(query.issuer, query.target) = "none"
      BY <2>2 DEF RegistryInv, QueryInv, Revoking
    <3>2. RevokeRefusal(query.issuer, query.target) \in {"none", "InvalidAttestationStatus"}
      BY <3>1, StatusFacts DEF RegistryInv, RevokeRefusal, Target
    <3> QED
      BY <3>1, <3>2
  <2> QED
    BY <2>1, <2>2 DEF YesIsOnlyOvertaken
<1>2. QuietPreflightsAgree
  <2>1. ASSUME query.answered, query.quiet, query.kind = "attest"
        PROVE  /\ query.blockers # {} =>
                    AttestRefusal(query.issuer, query.payload, query.target) # "none"
               /\ query.nonce = nonces[query.issuer]
    BY <2>1 DEF RegistryInv, QueryInv, QueryForm, Attesting
  <2>2. ASSUME query.answered, query.quiet, query.kind = "revoke", query.blockers # {}
        PROVE  RevokeRefusal(query.issuer, query.target) # "none"
    BY <2>2 DEF RegistryInv, QueryInv, Revoking
  <2> QED
    BY <2>1, <2>2 DEF QuietPreflightsAgree, NextId
<1> QED
  BY <1>1, <1>2 DEF RegistryInv, QueryInv, RegistryAnswersHold

\* For any issuers, payloads and number of records the chains of the registry are
\* sound, and every answer of the SDK's getter, verification and preflights, whose
\* reads may be separated by any transactions, is true of the contract or was
\* overtaken by a transaction mined since.
THEOREM RegistryAnswersAlwaysHold == AttestationSpec => []RegistryAnswersHold
<1>1. RegistryInv /\ [AttestationNext]_attestationVars => RegistryInv'
  BY RegistryStep
<1> QED
  BY <1>1, RegistryInitInv, InvAnswers, PTL DEF AttestationSpec

\* No transaction gives a revoked or superseded record another status.
THEOREM EndedIsForever == AttestationSpec => EndedStaysEnded
<1>1. RegistryInv /\ [AttestationNext]_attestationVars => RegistryInv'
  BY RegistryStep
<1>2. RegistryInv /\ [AttestationNext]_attestationVars =>
        [\A id \in DOMAIN records :
            StatusOf(records[id]) \in {"revoked", "superseded"} =>
                StatusOf(records'[id]) = StatusOf(records[id])]_attestationVars
  BY RegistryStep DEF Kept
<1> QED
  BY <1>1, <1>2, RegistryInitInv, PTL DEF AttestationSpec, EndedStaysEnded
\* ============================================================ the deployment ===

Codes == {"empty", "pinned", "other"}
RecordEntries == {"none", "planned", "reused", "deployed"}
Steps == Working \cup {"failed", "done"}
AtContract == {"plan", "code", "nonce", "simulate", "send", "wait", "check"}

\* The factory's address has the pinned code only after nonce 0 was used: nobody can
\* put other code there later.
DeploymentTypes ==
    /\ code \in [Contracts -> Codes]
    /\ deployerNonce \in Nat
    /\ code["factory"] = "pinned" => deployerNonce # 0
    /\ recordOf \in [Runs -> [Contracts -> RecordEntries]]
    /\ sent \in [Runs -> SUBSET Contracts]
    /\ runAt \in [Runs -> [contract : Contracts \cup {"record"}, step : Steps]]
    /\ \A r \in Runs : runAt[r].step \in AtContract => runAt[r].contract \in Contracts

\* Where a run may be that must not send anything.
PlanIsObeyed ==
    \A r \in Runs :
        /\ plan[r] \in {"wrong-chain", "wrong-key", "artifact-differs"} =>
                runAt[r].step \in {"start", "failed"}
        /\ plan[r] = "dry-run" => runAt[r].step \notin {"simulate", "send"}

DeploymentInv == DeploymentTypes /\ PlanIsObeyed /\ DeploymentIsTrue

\* One step of a run, before it sends anything: it goes to a place its plan allows,
\* and may write down one contract.
RunMoves(r, c, to) ==
    /\ runAt' = [runAt EXCEPT ![r] = At(c, to)]
    /\ c \in Contracts \cup {"record"} /\ to \in Steps
    /\ to \in AtContract => c \in Contracts
    /\ plan[r] \in {"wrong-chain", "wrong-key", "artifact-differs"} => to = "failed"
    /\ plan[r] = "dry-run" => to \notin {"simulate", "send"}
    /\ \/ recordOf' = recordOf
       \/ \E k \in Contracts, entry \in RecordEntries :
            /\ recordOf' = [recordOf EXCEPT ![r][k] = entry]
            /\ entry \in {"deployed", "reused"} => code[k] = "pinned"

LEMMA RunKeeps ==
    ASSUME DeploymentInv, NEW r \in Runs, NEW c, NEW to, RunMoves(r, c, to),
           code' = code, deployerNonce' = deployerNonce, plan' = plan, sent' = sent,
           verifiedAs' = verifiedAs, resolved' = resolved
    PROVE  DeploymentInv'
<1>1. /\ code \in [Contracts -> Codes] /\ deployerNonce \in Nat
      /\ code["factory"] = "pinned" => deployerNonce # 0
      /\ recordOf \in [Runs -> [Contracts -> RecordEntries]]
      /\ sent \in [Runs -> SUBSET Contracts]
      /\ runAt \in [Runs -> [contract : Contracts \cup {"record"}, step : Steps]]
      /\ \A q \in Runs : runAt[q].step \in AtContract => runAt[q].contract \in Contracts
  BY Zenon DEF DeploymentInv, DeploymentTypes
<1>2. At(c, to) \in [contract : Contracts \cup {"record"}, step : Steps]
      /\ At(c, to).contract = c /\ At(c, to).step = to
  BY DEF RunMoves, At, Steps, Working
<1>3. /\ runAt' \in [Runs -> [contract : Contracts \cup {"record"}, step : Steps]]
      /\ runAt'[r] = At(c, to) /\ \A q \in Runs \ {r} : runAt'[q] = runAt[q]
  BY Zenon, <1>1, <1>2 DEF RunMoves, Steps, Working
<1>4. recordOf' \in [Runs -> [Contracts -> RecordEntries]] /\ RecordIsTrue'
  <2>1. CASE recordOf' = recordOf
    BY Zenon, <1>1, <2>1 DEF DeploymentInv, DeploymentIsTrue, RecordIsTrue
  <2>2. ASSUME NEW k \in Contracts, NEW entry \in RecordEntries,
               recordOf' = [recordOf EXCEPT ![r][k] = entry],
               entry \in {"deployed", "reused"} => code[k] = "pinned"
        PROVE  recordOf' \in [Runs -> [Contracts -> RecordEntries]] /\ RecordIsTrue'
    <3>1. recordOf' \in [Runs -> [Contracts -> RecordEntries]]
      BY <1>1, <2>2
    <3>2. \A q \in Runs, j \in Contracts :
            recordOf'[q][j] = IF q = r /\ j = k THEN entry ELSE recordOf[q][j]
      BY <1>1, <2>2
    <3> QED
      BY Zenon, <2>2, <3>1, <3>2 DEF DeploymentInv, DeploymentIsTrue, RecordIsTrue
  <2> QED
    BY Zenon, <2>1, <2>2 DEF RunMoves, Steps, Working
<1>5. \A q \in Runs : runAt'[q].step \in AtContract => runAt'[q].contract \in Contracts
  BY Zenon, <1>1, <1>2, <1>3 DEF RunMoves, Steps, Working
<1>6. PlanIsObeyed'
  BY <1>2, <1>3 DEF RunMoves, DeploymentInv, PlanIsObeyed
<1>7. NothingSentUnchecked' /\ VerifiedIsPinned'
  BY Zenon DEF DeploymentInv, DeploymentIsTrue, NothingSentUnchecked, VerifiedIsPinned
<1> QED
  BY Zenon, <1>1, <1>3, <1>4, <1>5, <1>6, <1>7
  DEF DeploymentInv, DeploymentTypes, DeploymentIsTrue

\* Every step of the script but sendTransaction is such a move.
LEMMA ScriptMoves ==
    ASSUME DeploymentInv, NEW r \in Runs,
           \/ Start(r) \/ CheckPlan(r) \/ ReadCode(r) \/ ReadNonce(r) \/ Simulate(r)
           \/ ReceiveReceipt(r) \/ AssertRuntimeCode(r) \/ WriteRecord(r) \/ RunEnds(r)
    PROVE  DeploymentInv'
<1> DEFINE k == runAt[r].contract
           at == runAt[r].step
           Stays == /\ code' = code /\ deployerNonce' = deployerNonce /\ plan' = plan
                    /\ sent' = sent /\ verifiedAs' = verifiedAs /\ resolved' = resolved
<1>1. /\ k \in Contracts \cup {"record"} /\ at \in Steps
      /\ at \in AtContract => k \in Contracts
      /\ plan[r] \in {"wrong-chain", "wrong-key", "artifact-differs"} => at \in {"start", "failed"}
      /\ plan[r] = "dry-run" => at \notin {"simulate", "send"}
  BY DEF DeploymentInv, DeploymentTypes, PlanIsObeyed
<1> HIDE DEF k, at
<1>2. ASSUME Stays, Fail(r) PROVE DeploymentInv'
  <2>1. RunMoves(r, k, "failed")
    BY <1>1, <1>2 DEF RunMoves, Fail, GoTo, AtContract, k, Steps, Working
  <2> QED
    BY Zenon, <1>2, <2>1, RunKeeps
<1>3. ASSUME Stays, NEW to \in {"code", "send", "check", "nonce", "simulate"}, GoTo(r, k, to),
             recordOf' = recordOf, k \in Contracts,
             plan[r] \notin {"wrong-chain", "wrong-key", "artifact-differs"},
             plan[r] = "dry-run" => to \notin {"simulate", "send"}
      PROVE  DeploymentInv'
  <2>1. RunMoves(r, k, to)
    BY <1>1, <1>3 DEF RunMoves, GoTo, Steps, Working
  <2> QED
    BY Zenon, <1>3, <2>1, RunKeeps
<1>4. ASSUME Stays, NEW status \in RecordEntries, Finished(r, k, status), k \in Contracts,
             plan[r] \notin {"wrong-chain", "wrong-key", "artifact-differs"},
             status \in {"deployed", "reused"} => code[k] = "pinned"
      PROVE  DeploymentInv'
  <2>1. PICK to \in {"write", "plan"} :
          /\ runAt' = [runAt EXCEPT ![r] = At(After(k), to)]
          /\ to = "plan" => After(k) \in Contracts
          /\ After(k) \in Contracts \cup {"record"}
    BY Zenon, <1>4 DEF Finished, GoTo, After, Contracts
  <2>2. RunMoves(r, After(k), to)
    BY Zenon, <1>4, <2>1 DEF RunMoves, Finished, AtContract, Steps, Working
  <2> QED
    BY Zenon, <1>4, <2>2, RunKeeps
<1>5. CASE Start(r)
  <2>1. Stays
    BY Zenon, <1>5 DEF Start, Waits, Untouched
  <2>2. CASE plan[r] \in {"wrong-chain", "wrong-key", "artifact-differs"}
    BY Zenon, <1>5, <2>1, <2>2, <1>2 DEF Start
  <2>3. CASE plan[r] \notin {"wrong-chain", "wrong-key", "artifact-differs"}
    <3>1. GoTo(r, "factory", "code") /\ recordOf' = recordOf
      BY Zenon, <1>5, <2>3 DEF Start
    <3>2. RunMoves(r, "factory", "code")
      BY <3>1, <2>3 DEF RunMoves, GoTo, AtContract, Contracts, Steps, Working
    <3> QED
      BY Zenon, <2>1, <3>2, RunKeeps
  <2> QED
    BY Zenon, <2>2, <2>3
<1>6. CASE CheckPlan(r)
  <2>1. Stays /\ at = "plan"
    BY Zenon, <1>6 DEF CheckPlan, Waits, Untouched, at
  <2>2. k \in Contracts /\ plan[r] \notin {"wrong-chain", "wrong-key", "artifact-differs"}
    BY <1>1, <2>1 DEF AtContract
  <2>3. Fail(r) \/ (GoTo(r, k, "code") /\ recordOf' = recordOf)
    BY Zenon, <1>6 DEF CheckPlan, k
  <2> QED
    BY <2>1, <2>2, <2>3, <1>2, <1>3
<1>7. CASE ReadCode(r)
  <2>1. Stays /\ at = "code"
    BY Zenon, <1>7 DEF ReadCode, Waits, Untouched, at
  <2>2. k \in Contracts /\ plan[r] \notin {"wrong-chain", "wrong-key", "artifact-differs"}
    BY <1>1, <2>1 DEF AtContract
  <2>3. code[k] \in Codes
    BY Zenon, <2>2 DEF DeploymentInv, DeploymentTypes
  <2>4. \/ Fail(r)
        \/ code[k] = "pinned" /\ Finished(r, k, "reused")
        \/ GoTo(r, k, "nonce") /\ recordOf' = recordOf
        \/ Finished(r, k, "planned")
        \/ plan[r] # "dry-run" /\ GoTo(r, k, "simulate") /\ recordOf' = recordOf
    BY Zenon, <1>7, <2>3 DEF ReadCode, Codes, k
  <2> QED
    BY <2>1, <2>2, <2>4, <1>2, <1>3, <1>4 DEF RecordEntries
<1>8. CASE ReadNonce(r) \/ Simulate(r)
  <2>1. Stays /\ at \in {"nonce", "simulate"}
    BY <1>8 DEF ReadNonce, Simulate, Waits, Untouched, at
  <2>2. k \in Contracts /\ plan[r] \notin {"wrong-chain", "wrong-key", "artifact-differs"}
    BY <1>1, <2>1 DEF AtContract
  <2>3. CASE ReadNonce(r)
    <3>1. \/ Fail(r)
          \/ Finished(r, "factory", "planned")
          \/ plan[r] # "dry-run" /\ GoTo(r, "factory", "send") /\ recordOf' = recordOf
      BY Zenon, <2>3 DEF ReadNonce
    <3>2. ASSUME Finished(r, "factory", "planned") PROVE RunMoves(r, "attestations", "plan")
      BY <2>2, <3>2 DEF RunMoves, Finished, GoTo, After, Contracts, AtContract, RecordEntries, Steps, Working
    <3>3. ASSUME plan[r] # "dry-run", GoTo(r, "factory", "send"), recordOf' = recordOf
          PROVE  RunMoves(r, "factory", "send")
      BY <2>2, <3>3 DEF RunMoves, GoTo, Contracts, AtContract, Steps, Working
    <3> QED
      BY Zenon, <2>1, <3>1, <3>2, <3>3, <1>2, RunKeeps
  <2>4. CASE Simulate(r)
    <3>1. Fail(r) \/ (GoTo(r, k, "send") /\ recordOf' = recordOf)
      BY Zenon, <2>4 DEF Simulate, k
    <3>2. at = "simulate"
      BY Zenon, <2>4 DEF Simulate, Waits, at
    <3>3. plan[r] # "dry-run"
      BY <1>1, <3>2
    <3> QED
      BY <2>1, <2>2, <3>1, <3>3, <1>2, <1>3
  <2> QED
    BY Zenon, <1>8, <2>3, <2>4
<1>9. CASE ReceiveReceipt(r) \/ AssertRuntimeCode(r)
  <2>1. Stays /\ at \in {"wait", "check"}
    BY Zenon, <1>9 DEF ReceiveReceipt, AssertRuntimeCode, Waits, Untouched, at
  <2>2. k \in Contracts /\ plan[r] \notin {"wrong-chain", "wrong-key", "artifact-differs"}
    BY <1>1, <2>1 DEF AtContract
  <2>3. \/ Fail(r)
        \/ GoTo(r, k, "check") /\ recordOf' = recordOf
        \/ code[k] = "pinned" /\ Finished(r, k, "deployed")
    BY Zenon, <1>9 DEF ReceiveReceipt, AssertRuntimeCode, k
  <2> QED
    BY SMTT(30), <2>1, <2>2, <2>3, <1>2, <1>3, <1>4 DEF RecordEntries
<1>10. CASE WriteRecord(r)
  <2>1. Stays /\ at = "write" /\ GoTo(r, "record", "done") /\ recordOf' = recordOf
    BY Zenon, <1>10 DEF WriteRecord, Waits, Untouched, at
  <2>2. RunMoves(r, "record", "done")
    BY <1>1, <2>1 DEF RunMoves, GoTo, AtContract, Steps, Working
  <2> QED
    BY Zenon, <2>1, <2>2, RunKeeps
<1>11. CASE RunEnds(r)
  BY Zenon, <1>11, <1>2 DEF RunEnds, Untouched
<1> QED
  BY Zenon, <1>5, <1>6, <1>7, <1>8, <1>9, <1>10, <1>11

LEMMA SendKeeps ==
    ASSUME DeploymentInv, NEW r \in Runs, Send(r)
    PROVE  DeploymentInv'
<1> DEFINE k == runAt[r].contract
<1>1. /\ runAt[r].step = "send" /\ sent' = [sent EXCEPT ![r] = @ \cup {k}]
      /\ runAt' = [runAt EXCEPT ![r] = At(k, "wait")]
      /\ code' = code /\ deployerNonce' = deployerNonce /\ plan' = plan
      /\ recordOf' = recordOf /\ verifiedAs' = verifiedAs /\ resolved' = resolved
  BY Zenon DEF Send, Waits, GoTo
<1>2. /\ runAt \in [Runs -> [contract : Contracts \cup {"record"}, step : Steps]]
      /\ sent \in [Runs -> SUBSET Contracts] /\ k \in Contracts
      /\ \A q \in Runs : runAt[q].step \in AtContract => runAt[q].contract \in Contracts
  BY <1>1 DEF DeploymentInv, DeploymentTypes, AtContract
<1>3. plan[r] \notin {"wrong-chain", "wrong-key", "artifact-differs", "dry-run"}
  BY <1>1 DEF DeploymentInv, PlanIsObeyed
<1> HIDE DEF k
<1>4. /\ At(k, "wait") \in [contract : Contracts \cup {"record"}, step : Steps]
      /\ At(k, "wait").contract = k /\ At(k, "wait").step = "wait"
  BY <1>2 DEF At, Steps, Working
<1>5. /\ runAt' \in [Runs -> [contract : Contracts \cup {"record"}, step : Steps]]
      /\ runAt'[r] = At(k, "wait") /\ \A q \in Runs \ {r} : runAt'[q] = runAt[q]
  BY Zenon, <1>1, <1>2, <1>4
<1>6. sent' \in [Runs -> SUBSET Contracts] /\ \A q \in Runs \ {r} : sent'[q] = sent[q]
  BY <1>1, <1>2
<1>7. \A q \in Runs : runAt'[q].step \in AtContract => runAt'[q].contract \in Contracts
  BY Zenon, <1>2, <1>4, <1>5
<1>8. DeploymentTypes'
  BY Zenon, <1>1, <1>5, <1>6, <1>7 DEF DeploymentInv, DeploymentTypes
<1>9. PlanIsObeyed'
  BY <1>1, <1>3, <1>5 DEF DeploymentInv, PlanIsObeyed
<1>10. NothingSentUnchecked'
  BY Zenon, <1>1, <1>3, <1>6 DEF DeploymentInv, DeploymentIsTrue, NothingSentUnchecked
<1>11. RecordIsTrue' /\ VerifiedIsPinned'
  BY Zenon, <1>1 DEF DeploymentInv, DeploymentIsTrue, RecordIsTrue, VerifiedIsPinned
<1> QED
  BY Zenon, <1>8, <1>9, <1>10, <1>11 DEF DeploymentInv, DeploymentIsTrue

\* The chain: pinned code stays, and no run or answer is touched.
LEMMA ChainKeeps ==
    ASSUME DeploymentInv, code' \in [Contracts -> Codes], deployerNonce' \in Nat,
           code'["factory"] = "pinned" => deployerNonce' # 0,
           \A c \in Contracts : code[c] = "pinned" => code'[c] = "pinned",
           plan' = plan, runAt' = runAt, sent' = sent, recordOf' = recordOf,
           verifiedAs = "none", verifiedAs' = verifiedAs
    PROVE  DeploymentInv'
<1>1. DeploymentTypes' /\ PlanIsObeyed'
  BY Zenon DEF DeploymentInv, DeploymentTypes, PlanIsObeyed
<1>2. RecordIsTrue' /\ NothingSentUnchecked'
  BY Zenon DEF DeploymentInv, DeploymentIsTrue, RecordIsTrue, NothingSentUnchecked
<1>3. VerifiedIsPinned'
  BY DEF VerifiedIsPinned
<1> QED
  BY Zenon, <1>1, <1>2, <1>3 DEF DeploymentInv, DeploymentIsTrue

LEMMA BlocksKeep ==
    ASSUME DeploymentInv, verifiedAs = "none", Mine \/ SomebodyDeploys \/ KeyUsedElsewhere
    PROVE  DeploymentInv'
<1>1. /\ code \in [Contracts -> Codes] /\ deployerNonce \in Nat
      /\ code["factory"] = "pinned" => deployerNonce # 0
  BY Zenon DEF DeploymentInv, DeploymentTypes
<1>2. ASSUME NEW c PROVE /\ FactoryDeploy(c) \in [Contracts -> Codes]
                         /\ \A j \in Contracts : code[j] = "pinned" => FactoryDeploy(c)[j] = "pinned"
                         /\ c # "factory" => FactoryDeploy(c)["factory"] = code["factory"]
  BY Zenon, <1>1 DEF FactoryDeploy, Codes, Contracts
<1>3. CASE Mine
  <2>1. /\ plan' = plan /\ runAt' = runAt /\ sent' = sent /\ recordOf' = recordOf
        /\ verifiedAs' = verifiedAs /\ deployerNonce' = deployerNonce + 1
    BY Zenon, <1>3 DEF Mine
  <2>2. deployerNonce' \in Nat /\ deployerNonce' # 0
    BY <1>1, <2>1
  <2>3. PICK c : \/ code' = [code EXCEPT !["factory"] = "pinned"]
                 \/ code' = code
                 \/ code' = FactoryDeploy(c)
    BY Zenon, <1>3 DEF Mine
  <2>4. /\ code' \in [Contracts -> Codes]
        /\ \A j \in Contracts : code[j] = "pinned" => code'[j] = "pinned"
    <3>1. CASE code' = [code EXCEPT !["factory"] = "pinned"]
      BY <1>1, <3>1 DEF Codes, Contracts
    <3> QED
      BY Zenon, <1>1, <1>2, <2>3, <3>1
  <2> QED
    BY Zenon, <2>1, <2>2, <2>4, ChainKeeps
<1>4. CASE SomebodyDeploys
  <2>1. /\ plan' = plan /\ runAt' = runAt /\ sent' = sent /\ recordOf' = recordOf
        /\ verifiedAs' = verifiedAs /\ deployerNonce' = deployerNonce
    BY Zenon, <1>4 DEF SomebodyDeploys
  <2>2. PICK c \in Contracts \ {"factory"} : code' = FactoryDeploy(c)
    BY Zenon, <1>4 DEF SomebodyDeploys
  <2>3. c # "factory"
    BY <2>2
  <2> QED
    BY Zenon, <1>1, <1>2, <2>1, <2>2, <2>3, ChainKeeps
<1>5. CASE KeyUsedElsewhere
  <2>1. /\ plan' = plan /\ runAt' = runAt /\ sent' = sent /\ recordOf' = recordOf
        /\ verifiedAs' = verifiedAs /\ deployerNonce = 0 /\ deployerNonce' = 1
        /\ code' = code \/ code' = [code EXCEPT !["factory"] = "other"]
    BY Zenon, <1>5 DEF KeyUsedElsewhere
  <2>2. /\ code' \in [Contracts -> Codes]
        /\ \A j \in Contracts : code[j] = "pinned" => code'[j] = "pinned"
    BY <1>1, <2>1 DEF Codes, Contracts
  <2>3. deployerNonce' \in Nat /\ deployerNonce' # 0
    BY <2>1
  <2> QED
    BY Zenon, <2>1, <2>2, <2>3, ChainKeeps
<1> QED
  BY Zenon, <1>3, <1>4, <1>5

LEMMA VerifyKeepsDeployment ==
    ASSUME DeploymentInv, NEW c \in Contracts, NEW o \in Overrides, VerifyDeployment(c, o)
    PROVE  DeploymentInv'
<1>1. /\ code' = code /\ deployerNonce' = deployerNonce /\ plan' = plan /\ runAt' = runAt
      /\ sent' = sent /\ recordOf' = recordOf /\ resolved' = [contract |-> c, override |-> o]
      /\ verifiedAs' = IF PinnedHash(o) = "none" THEN "CONFIG_INVALID"
                       ELSE IF code[c] = "empty" THEN "CODE_MISSING"
                       ELSE IF code[c] # PinnedHash(o) THEN "CODE_MISMATCH" ELSE "verified"
  BY Zenon DEF VerifyDeployment, scriptVars
<1>2. DeploymentTypes' /\ PlanIsObeyed'
  BY Zenon, <1>1 DEF DeploymentInv, DeploymentTypes, PlanIsObeyed
<1>3. RecordIsTrue' /\ NothingSentUnchecked'
  BY Zenon, <1>1 DEF DeploymentInv, DeploymentIsTrue, RecordIsTrue, NothingSentUnchecked
<1>4. o.version \in {"registry", "another"} /\ o.hash \in {"none", "pinned", "foreign"}
  BY DEF Overrides
<1>5. code[c] \in Codes
  BY Zenon DEF DeploymentInv, DeploymentTypes
<1>6. verifiedAs' = "verified" =>
        code[c] = "pinned" /\ (o.version = "another" => o.hash # "none")
  BY <1>1, <1>4, <1>5 DEF PinnedHash, Codes
<1>7. resolved'.contract = c /\ resolved'.override = o
  BY <1>1
<1>8. VerifiedIsPinned'
  BY Zenon, <1>1, <1>6, <1>7 DEF VerifiedIsPinned
<1> QED
  BY Zenon, <1>2, <1>3, <1>8 DEF DeploymentInv, DeploymentIsTrue

LEMMA DeploymentStarts == DeploymentInit => DeploymentInv
<1> SUFFICES ASSUME DeploymentInit PROVE DeploymentInv
  OBVIOUS
<1>1. \A r \in Runs : runAt[r].contract = "factory" /\ runAt[r].step = "start"
  BY DEF DeploymentInit, At
<1>2. DeploymentTypes
  BY <1>1 DEF DeploymentInit, DeploymentTypes, Codes, RecordEntries, NoRecordYet, At, Steps,
              Working, Contracts, AtContract
<1>3. PlanIsObeyed
  BY <1>1 DEF PlanIsObeyed
<1>4. DeploymentIsTrue
  BY DEF DeploymentInit, DeploymentIsTrue, RecordIsTrue, NothingSentUnchecked,
         VerifiedIsPinned, NoRecordYet
<1> QED
  BY Zenon, <1>2, <1>3, <1>4 DEF DeploymentInv

\* What the script records is deployed, what the SDK verifies is the pinned code, and a
\* run that failed its checks or was a dry run sends nothing, whatever runs overlap or
\* end half-way, whoever calls the factory and whatever the deployer's key did before
\* (deploy-testnet.mjs, ToriumCreate2Factory.deploy, verifyToriumContractDeployment).
THEOREM DeploymentIsAlwaysTrue == DeploymentSpec => []DeploymentIsTrue
<1>1. DeploymentInv /\ [DeploymentNext]_deploymentVars => DeploymentInv'
  <2> SUFFICES ASSUME DeploymentInv, [DeploymentNext]_deploymentVars PROVE DeploymentInv'
    OBVIOUS
  <2>1. CASE UNCHANGED deploymentVars
    BY Zenon, <2>1
    DEF deploymentVars, scriptVars, DeploymentInv, DeploymentTypes, PlanIsObeyed,
        DeploymentIsTrue, RecordIsTrue, NothingSentUnchecked, VerifiedIsPinned
  <2> QED
    BY Zenon, <2>1, ScriptMoves, SendKeeps, BlocksKeep, VerifyKeepsDeployment
    DEF DeploymentNext
<1>2. DeploymentInv => DeploymentIsTrue
  BY Zenon DEF DeploymentInv
<1> QED
  BY <1>1, <1>2, DeploymentStarts, PTL DEF DeploymentSpec

=============================================================================
