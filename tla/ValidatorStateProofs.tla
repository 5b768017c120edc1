------------------------- MODULE ValidatorStateProofs -------------------------
(* The state a validator must not lose or repeat, for every value of the constants.

   SignerGuard: no key signs two things at one position.  The invariant says that the
   current home is never behind a signature that was released.  A restore keeps it
   because the guard compares the candidate with the current home, and "not behind"
   is transitive.

   RecoveryArchive: a restore ends in the snapshot its manifest names or in the homes
   as they were.  The invariant says, for every stage, which homes are activated,
   which are in the backup and which have not been touched: what is done and what is
   left to do are disjoint and make up the scope.  For a capture it says that, as
   long as nothing has run, what was read is what was inspected. *)
EXTENDS SignerGuard, RecoveryArchive, TLAPS

\* A candidate that is not behind a state is not behind anything that state is not
\* behind: the order of comparePosition, with equal positions holding equal bytes.
LEMMA NotBehindTransitive ==
    ASSUME NEW a \in SignerStates, NEW b \in SignerStates,
           NEW k \in Keys, NEW p \in Positions, NEW c \in Contents,
           NotBehind(a, b.key, b.position, b.bytes), NotBehind(b, k, p, c)
    PROVE  NotBehind(a, k, p, c)
  <1>1. a.position \in Positions /\ b.position \in Positions
    BY DEF SignerStates
  <1>2. ~Behind(a.position, p)
    BY <1>1, SignerAssumption, SMT DEF NotBehind, Behind, Positions
  <1>3. a.position = p => a.bytes = c
    <2>1. SUFFICES ASSUME a.position = p PROVE a.bytes = c
      OBVIOUS
    <2>2. b.position = p
      BY <1>1, <2>1, SignerAssumption, SMT DEF NotBehind, Behind, Positions
    <2>3. QED
      BY <2>1, <2>2 DEF NotBehind
  <1>4. QED
    BY <1>2, <1>3 DEF NotBehind

\* A state is not behind itself.
LEMMA NotBehindReflexive ==
    ASSUME NEW a \in SignerStates
    PROVE  NotBehind(a, a.key, a.position, a.bytes)
  <1>1. a.position \in Positions
    BY DEF SignerStates
  <1>2. QED
    BY <1>1, SignerAssumption, SMT DEF NotBehind, Behind, Positions

\* What validateSignerRestore accepts is not behind the current home.
LEMMA AcceptedNotBehind ==
    ASSUME NEW a \in SignerStates, NEW b \in SignerStates, NEW ceiling \in Nat,
           SignerRestoreValid(b, a, ceiling)
    PROVE  NotBehind(a, b.key, b.position, b.bytes)
  <1>1. a.position \in Positions /\ b.position \in Positions
    BY DEF SignerStates
  <1>2. ComparePosition(a.position, b.position) >= 0
    BY DEF SignerRestoreValid
  <1>3. ~Behind(a.position, b.position)
    BY <1>2, SMT DEF ComparePosition
  <1>4. a.position = b.position => ComparePosition(a.position, b.position) = 0
    BY <1>1, SignerAssumption, SMT DEF ComparePosition, Behind, Positions
  <1>5. QED
    BY <1>3, <1>4 DEF NotBehind, SignerRestoreValid

LEMMA SignerInitInv == SignerInit => SignerInv
  BY Zenon, SignerAssumption DEF SignerInit, SignerInv, SignerTypeOK, NoDoubleSign, NothingRead

LEMMA SignerStepInv == SignerInv /\ [SignerNext]_guardVars => SignerInv'
  <1> SUFFICES ASSUME SignerInv, [SignerNext]_guardVars PROVE SignerInv'
    OBVIOUS
  <1> USE SignerAssumption
  <1>t. SignerTypeOK
    BY DEF SignerInv
  <1>1. CASE SaveState
    <2>1. PICK position \in Positions, bytes \in Contents :
            /\ position.height > 0 /\ position.step \in 1..3
            /\ Behind(homes[running].position, position)
            /\ homes' = [homes EXCEPT ![running].position = position, ![running].bytes = bytes]
      BY Zenon, <1>1 DEF SaveState
    <2>2. running = lastHome /\ running # NoHome
      BY <1>1, <1>t DEF SaveState, SignerTypeOK
    <2>3. /\ homes[lastHome] \in SignerStates
          /\ homes'[lastHome] = [homes[lastHome] EXCEPT !.position = position, !.bytes = bytes]
      BY <1>t, <2>1, <2>2 DEF SignerTypeOK
    <2>4. /\ homes'[lastHome] \in SignerStates
          /\ homes'[lastHome].key = homes[lastHome].key
          /\ homes'[lastHome].position = position
          /\ homes'[lastHome].bytes = bytes
      BY Zenon, <2>3 DEF SignerStates
    <2>5. homes' \in [Homes -> SignerStates]
      BY ZenonT(30), <1>t, <2>1, <2>2 DEF SignerTypeOK, SignerStates
    <2>6. cleared = NoHome /\ reading = NothingRead
      BY <2>2 DEF SignerInv
    <2>7. SignerTypeOK'
      BY <1>1, <1>t, <2>5, <2>6 DEF SaveState, SignerTypeOK, NothingRead
    <2>8. ASSUME NEW s \in released
          PROVE  NotBehind(homes'[lastHome], s.key, s.position, s.bytes)
      <3>1. NotBehind(homes[lastHome], s.key, s.position, s.bytes)
        BY DEF SignerInv
      <3>2. s.position \in Positions /\ homes[lastHome].position \in Positions
        BY <1>t, <2>3 DEF SignerTypeOK, SignerStates
      <3>3. Behind(homes[lastHome].position, position)
        BY <2>1, <2>2
      <3>4. ~Behind(position, s.position) /\ position # s.position
        BY <3>1, <3>2, <3>3, SMT DEF NotBehind, Behind, Positions
      <3>5. QED
        BY <3>1, <3>4, <2>4 DEF NotBehind
    <2>9. QED
      BY Zenon, <1>1, <2>6, <2>7, <2>8 DEF SaveState, SignerInv, NoDoubleSign
  <1>2. CASE ReleaseSignature
    <2>1. running = lastHome /\ cleared = NoHome /\ reading = NothingRead
      BY <1>2, <1>t DEF ReleaseSignature, SignerTypeOK, SignerInv
    <2> DEFINE h == homes[lastHome]
               new == [key |-> h.key, position |-> h.position, bytes |-> h.bytes]
    <2>2. h \in SignerStates /\ h.bytes \in Contents
      BY <1>2, <1>t, <2>1 DEF ReleaseSignature, SignerTypeOK, SignerStates
    <2>3. released' = released \cup {new} /\ homes' = homes /\ lastHome' = lastHome
      BY <1>2, <2>1 DEF ReleaseSignature
    <2>4. new \in [key : Keys, position : Positions, bytes : Contents]
      BY <2>2 DEF SignerStates
    <2>5. SignerTypeOK'
      BY Zenon, <1>2, <1>t, <2>1, <2>3, <2>4 DEF ReleaseSignature, SignerTypeOK, NothingRead
    <2>6. \A s \in released' : NotBehind(h, s.key, s.position, s.bytes)
      <3>1. NotBehind(h, new.key, new.position, new.bytes)
        BY <2>2, NotBehindReflexive
      <3>2. QED
        BY <2>3, <3>1 DEF SignerInv
    <2>7. NoDoubleSign'
      <3>1. ASSUME NEW a \in released, a.position = h.position
            PROVE  a.bytes = h.bytes
        BY <3>1 DEF SignerInv, NotBehind
      <3>2. QED
        BY <2>3, <3>1 DEF SignerInv, NoDoubleSign
    <2>8. QED
      BY <1>2, <2>1, <2>3, <2>5, <2>6, <2>7 DEF ReleaseSignature, SignerInv
  <1>3. CASE StopValidator
    BY Zenon, <1>3 DEF StopValidator, SignerInv, SignerTypeOK, NoDoubleSign
  <1>4. CASE RestartValidator
    BY <1>4 DEF RestartValidator, SignerInv, SignerTypeOK, NoDoubleSign
  <1>5. CASE ReadCurrent
    BY <1>5 DEF ReadCurrent, SignerInv, SignerTypeOK, NoDoubleSign
  <1>6. CASE StartAdmitted
    <2>1. cleared \in Homes /\ homes[cleared] \in SignerStates /\ homes[lastHome] \in SignerStates
      BY <1>6, <1>t DEF StartAdmitted, SignerTypeOK
    <2>2. NotBehind(homes[cleared], homes[lastHome].key, homes[lastHome].position, homes[lastHome].bytes)
      BY <1>6 DEF StartAdmitted, SignerInv
    <2>3. SignerTypeOK'
      BY <1>6, <1>t, <2>1 DEF StartAdmitted, SignerTypeOK
    <2>4. ASSUME NEW s \in released
          PROVE  NotBehind(homes[cleared], s.key, s.position, s.bytes)
      <3>1. s.key \in Keys /\ s.position \in Positions /\ s.bytes \in Contents
        BY <1>t DEF SignerTypeOK
      <3>2. NotBehind(homes[lastHome], s.key, s.position, s.bytes)
        BY DEF SignerInv
      <3>3. QED
        BY <2>1, <2>2, <3>1, <3>2, NotBehindTransitive
    <2>5. QED
      BY <1>6, <2>3, <2>4 DEF StartAdmitted, SignerInv, NoDoubleSign
  <1>7. ASSUME NEW h \in Homes, BackUpHome(h) PROVE SignerInv'
    <2>1. homes' \in [Homes -> SignerStates] /\ homes'[lastHome] = homes[lastHome]
      BY <1>7, <1>t DEF BackUpHome, SignerTypeOK
    <2>2. SignerTypeOK'
      BY <1>7, <1>t, <2>1 DEF BackUpHome, SignerTypeOK
    <2>3. \A s \in released : NotBehind(homes'[lastHome], s.key, s.position, s.bytes)
      BY <2>1 DEF SignerInv
    <2>4. ASSUME cleared # NoHome
          PROVE  NotBehind(homes'[cleared], homes[lastHome].key, homes[lastHome].position, homes[lastHome].bytes)
      <3>1. cleared \in Homes /\ homes[lastHome] \in SignerStates
        BY <1>t, <2>4 DEF SignerTypeOK
      <3>2. CASE cleared = h
        <4>1. homes'[cleared] = homes[lastHome]
          BY <1>7, <1>t, <3>1, <3>2 DEF BackUpHome, SignerTypeOK
        <4>2. QED
          BY <3>1, <4>1, NotBehindReflexive
      <3>3. CASE cleared # h
        <4>1. homes'[cleared] = homes[cleared]
          BY <1>7, <1>t, <3>1, <3>3 DEF BackUpHome, SignerTypeOK
        <4>2. QED
          BY <2>4, <4>1 DEF SignerInv
      <3>4. QED
        BY <3>2, <3>3
    <2>5. QED
      BY <1>7, <2>1, <2>2, <2>3, <2>4 DEF BackUpHome, SignerInv, NoDoubleSign
  <1>8. ASSUME NEW h \in Homes, ReadCandidate(h) PROVE SignerInv'
    <2>1. reading # NothingRead /\ reading.current = homes[lastHome] /\ running = NoHome
      BY <1>8, <1>t DEF ReadCandidate, SignerTypeOK, NothingRead, SignerInv
    <2>2. homes[h] \in SignerStates /\ homes[lastHome] \in SignerStates
      BY <1>t DEF SignerTypeOK
    <2>3. PICK ceiling \in 0..MaxSignHeight :
            cleared' = IF ReadSignerHome(homes[h]) /\ SignerRestoreValid(reading.current, homes[h], ceiling)
                        THEN h ELSE NoHome
      BY <1>8 DEF ReadCandidate
    <2>4. cleared' # NoHome =>
            /\ cleared' = h
            /\ NotBehind(homes[h], homes[lastHome].key, homes[lastHome].position, homes[lastHome].bytes)
      BY <2>1, <2>2, <2>3, AcceptedNotBehind
    <2>5. SignerTypeOK'
      BY <1>8, <1>t, <2>4 DEF ReadCandidate, SignerTypeOK
    <2>6. QED
      BY <1>8, <2>1, <2>4, <2>5 DEF ReadCandidate, SignerInv, NoDoubleSign
  <1>9. CASE UNCHANGED guardVars
    BY <1>9 DEF guardVars, SignerInv, SignerTypeOK, NoDoubleSign
  <1>10. QED
    BY <1>1, <1>2, <1>3, <1>4, <1>5, <1>6, <1>7, <1>8, <1>9 DEF SignerNext

\* Whatever backups are taken and restored, in whatever order, no key that the guard
\* watches over releases two signatures for one height, round and step
\* (validateSignerRestore, comparePosition).
THEOREM NeverSignsTwice == SignerSpec => []NoDoubleSign
  <1>1. SignerInv => NoDoubleSign
    BY DEF SignerInv
  <1>2. QED
    BY <1>1, SignerInitInv, SignerStepInv, PTL DEF SignerSpec
-----------------------------------------------------------------------------
\* Snapshots and their restoration: RecoveryArchive.

Staging == {"verify", "inspect", "verifyAgain", "extract", "validate"}
Swapping == {"preserve", "activate"}
Undoing == {"undo", "moveBack"}

\* A sequence of different names.
Distinct(s) ==
    /\ s \in Seq(Everybody)
    /\ \A i, j \in 1 .. Len(s) : s[i] = s[j] => i = j

IsHomes(h) == h = [n \in Everybody |-> h[n]]

\* A record with these fields.
HasFields(r, fields) == r = [f \in fields |-> r[f]]

\* An archive that was published was made for a scope.
FileForm(file) ==
    /\ HasFields(file, {"manifest", "payload"})
    /\ file.manifest.scope \in Scopes

VaultInv ==
    /\ HasFields(vault, Archives)
    /\ \A a \in Archives : /\ HasFields(vault[a], {"file", "sidecar"})
                           /\ vault[a].file = Absent \/ FileForm(vault[a].file)

CaptureFields == {"at", "name", "scope", "todo", "quiet", "seen", "files", "binary"}
RestoreFields == {"at", "name", "manifest", "staged", "before", "backup", "todo", "done", "undone"}

\* A capture that nothing disturbed has read homes that still are what was inspected.
Undisturbed ==
    LET names == Range(capture.scope)
    IN  /\ ~Restoring
        /\ Agree(nodeDirs, names)
        /\ capture.seen = Inspected(nodeDirs, names)
        /\ \A n \in names : \/ capture.at = "collect" /\ n \in Range(capture.todo)
                            \/ capture.files[n] = nodeDirs[n]

CaptureInv ==
    \/ capture = NoCapture
    \/ /\ HasFields(capture, CaptureFields)
       /\ capture.at \in {"collect", "write", "publish", "sidecar", "captured"}
       /\ capture.scope \in Scopes /\ capture.name \in Archives
       /\ IsHomes(capture.files)
       /\ capture.at \in {"collect", "write"} =>
            /\ Distinct(capture.todo) /\ capture.todo # <<>>
            /\ Range(capture.todo) \subseteq Range(capture.scope)
       /\ capture.quiet =>
            IF capture.at = "captured" THEN StagedMatches(Manifest.files, Manifest)
            ELSE Undisturbed

RestoreForm(q) ==
    /\ HasFields(q, RestoreFields)
    /\ q.at \in Staging \cup Swapping \cup Undoing \cup Ends
    /\ IsHomes(q.before) /\ IsHomes(q.backup)

\* Before the swap nothing has been touched.
Staged(q, dirs) ==
    /\ q.name \in Archives
    /\ dirs = q.before /\ q.backup = NoHomes /\ q.done = <<>> /\ q.undone = TRUE
    /\ q.at \in {"verifyAgain", "extract", "validate"} => q.manifest.scope \in Scopes
    /\ q.at = "validate" => q.staged = q.manifest.files

\* What is moved into place is what the manifest names.
Validated(q) ==
    /\ q.manifest.scope \in Scopes
    /\ q.staged = q.manifest.files
    /\ StagedMatches(q.staged, q.manifest)

\* Each home during the swap: activated, being swapped, or as it was.
Swapped(q, dirs) ==
    /\ Distinct(q.todo) /\ Distinct(q.done) /\ q.todo # <<>>
    /\ Range(q.todo) \cap Range(q.done) = {}
    /\ Range(q.todo) \cup Range(q.done) = Range(q.manifest.scope)
    /\ q.undone = TRUE
    /\ \A n \in Range(q.done) : dirs[n] = q.staged[n] /\ q.backup[n] = q.before[n]
    /\ \A n \in Everybody \ Range(q.done) :
            IF q.at = "activate" /\ n = Head(q.todo) THEN q.backup[n] = q.before[n]
            ELSE dirs[n] = q.before[n]

NoneLost(q, dirs) == \A n \in Everybody : q.before[n] \in {dirs[n], q.backup[n]}

\* Each home during the rollback: still to be moved back, or as it was.
Undone(q, dirs) ==
    /\ Distinct(q.done)
    /\ q.at = "moveBack" => q.done # <<>>
    /\ \A n \in Range(q.done) : q.backup[n] = q.before[n]
    /\ q.undone => \A n \in Everybody \ Range(q.done) : dirs[n] = q.before[n]
    /\ NoneLost(q, dirs)

Activated(q, dirs) ==
    LET names == Range(q.manifest.scope)
    IN  /\ \A n \in names : dirs[n] = q.staged[n]
        /\ \A n \in Everybody \ names : dirs[n] = q.before[n]

RestoreOK(q, dirs) ==
    \/ q = NoRestore
    \/ /\ RestoreForm(q)
       /\ q.at \in Staging => Staged(q, dirs)
       /\ q.at \in Swapping => Validated(q) /\ Swapped(q, dirs)
       /\ q.at \in Undoing => Undone(q, dirs)
       /\ q.at = "restored" => Validated(q) /\ Activated(q, dirs)
       /\ q.at = "failed" => (q.undone => dirs = q.before)
       /\ q.at = "crashed" => NoneLost(q, dirs)

RestoreInv == RestoreOK(restore, nodeDirs)

RecoveryInv == IsHomes(nodeDirs) /\ VaultInv /\ CaptureInv /\ RestoreInv

\* What is left of a sequence of different names, and what is taken from it.
LEMMA HeadIsIn ==
    ASSUME NEW s, Distinct(s), s # <<>>
    PROVE  Head(s) \in Range(s) /\ Range(s) \subseteq Everybody /\ Len(s) \in Nat \ {0}
  <1>1. s \in Seq(Everybody) /\ Len(s) \in Nat \ {0} /\ DOMAIN s = 1 .. Len(s) /\ Head(s) = s[1]
    BY SMT DEF Distinct
  <1>2. 1 \in DOMAIN s /\ \A i \in DOMAIN s : s[i] \in Everybody
    BY <1>1, SMT
  <1>3. QED
    BY <1>1, <1>2, Zenon DEF Range

LEMMA NamesAreKnown ==
    ASSUME NEW s, Distinct(s)
    PROVE  Range(s) \subseteq Everybody
  <1>1. \A i \in DOMAIN s : s[i] \in Everybody
    BY SMT DEF Distinct
  <1>2. QED
    BY <1>1, Zenon DEF Range

LEMMA TailDrops ==
    ASSUME NEW s, Distinct(s), s # <<>>
    PROVE  Distinct(Tail(s)) /\ Range(Tail(s)) = Range(s) \ {Head(s)}
  <1> DEFINE t == Tail(s)
  <1>1. /\ s \in Seq(Everybody) /\ Len(s) \in Nat \ {0} /\ DOMAIN s = 1 .. Len(s)
        /\ Head(s) = s[1]
    BY SMT DEF Distinct
  <1>2. /\ t \in Seq(Everybody) /\ Len(t) = Len(s) - 1 /\ DOMAIN t = 1 .. Len(s) - 1
        /\ \A i \in 1 .. Len(s) - 1 : t[i] = s[i + 1]
    BY <1>1, SMT
  <1> HIDE DEF t
  <1>3. Distinct(t)
    <2>1. \A i, j \in 1 .. Len(t) : s[i + 1] = s[j + 1] => i + 1 = j + 1
      BY <1>1, <1>2, SMT DEF Distinct
    <2>2. QED
      BY <1>1, <1>2, <2>1, SMT DEF Distinct
  <1>4. \A x \in Range(t) : x \in Range(s) /\ x # Head(s)
    <2> SUFFICES ASSUME NEW i \in DOMAIN t PROVE t[i] \in Range(s) /\ t[i] # Head(s)
      BY Zenon DEF Range
    <2>1. i + 1 \in DOMAIN s /\ 1 \in DOMAIN s /\ i + 1 # 1 /\ t[i] = s[i + 1]
      BY <1>1, <1>2, SMT
    <2>2. s[i + 1] # s[1]
      BY <1>1, <2>1, SMT DEF Distinct
    <2>3. QED
      BY <1>1, <2>1, <2>2, Zenon DEF Range
  <1>5. \A x \in Range(s) : x = Head(s) \/ x \in Range(t)
    <2> SUFFICES ASSUME NEW i \in DOMAIN s PROVE s[i] = Head(s) \/ s[i] \in Range(t)
      BY Zenon DEF Range
    <2>1. i = 1 \/ (i - 1 \in DOMAIN t /\ t[i - 1] = s[i])
      BY <1>1, <1>2, SMT
    <2>2. QED
      BY <1>1, <2>1, Zenon DEF Range
  <1>6. QED
    BY <1>3, <1>4, <1>5, Zenon DEF t

LEMMA TailOfOne ==
    ASSUME NEW s, Distinct(s), s # <<>>
    PROVE  Tail(s) = <<>> <=> Len(s) = 1
  <1>1. s \in Seq(Everybody) /\ Len(s) \in Nat \ {0}
    BY SMT DEF Distinct
  <1>2. Tail(s) \in Seq(Everybody) /\ Len(Tail(s)) = Len(s) - 1
    BY <1>1, SMT
  <1>3. ASSUME NEW t \in Seq(Everybody) PROVE t = <<>> <=> Len(t) = 0
    BY SMT
  <1>4. QED
    BY <1>1, <1>2, <1>3, SMT

LEMMA AppendAdds ==
    ASSUME NEW s, Distinct(s), NEW x \in Everybody, x \notin Range(s)
    PROVE  Distinct(Append(s, x)) /\ Range(Append(s, x)) = Range(s) \cup {x}
  <1> DEFINE t == Append(s, x)
  <1>1. s \in Seq(Everybody) /\ Len(s) \in Nat /\ DOMAIN s = 1 .. Len(s)
    BY SMT DEF Distinct
  <1>2. /\ t \in Seq(Everybody) /\ Len(t) = Len(s) + 1 /\ DOMAIN t = 1 .. Len(s) + 1
        /\ t[Len(s) + 1] = x /\ \A i \in 1 .. Len(s) : t[i] = s[i]
    BY <1>1, SMT
  <1> HIDE DEF t
  <1>3. \A i \in 1 .. Len(s) : s[i] # x
    BY <1>1, Zenon DEF Range
  <1>4. \A i, j \in 1 .. Len(t) : t[i] = t[j] => i = j
    <2> SUFFICES ASSUME NEW i \in 1 .. Len(t), NEW j \in 1 .. Len(t), t[i] = t[j] PROVE i = j
      OBVIOUS
    <2>1. (i \in 1 .. Len(s) \/ i = Len(s) + 1) /\ (j \in 1 .. Len(s) \/ j = Len(s) + 1)
      BY <1>1, <1>2, SMT
    <2>2. \A k, l \in 1 .. Len(s) : s[k] = s[l] => k = l
      BY DEF Distinct
    <2>3. QED
      BY <1>2, <1>3, <2>1, <2>2, Zenon
  <1>5. \A i \in DOMAIN t : i \in DOMAIN s \/ i = Len(s) + 1
    BY <1>1, <1>2, SMT
  <1>6. Len(s) + 1 \in DOMAIN t /\ \A i \in DOMAIN s : i \in DOMAIN t
    BY <1>1, <1>2, SMT
  <1>7. \A y : y \in Range(t) <=> y \in Range(s) \/ y = x
    BY <1>1, <1>2, <1>5, <1>6, Zenon DEF Range
  <1>8. Distinct(t)
    BY <1>2, <1>4 DEF Distinct
  <1>9. QED
    BY <1>7, <1>8, Zenon DEF t

LEMMA FrontDrops ==
    ASSUME NEW s, Distinct(s), s # <<>>
    PROVE  /\ Distinct(SubSeq(s, 1, Len(s) - 1))
           /\ Range(SubSeq(s, 1, Len(s) - 1)) = Range(s) \ {s[Len(s)]}
           /\ s[Len(s)] \in Range(s) /\ s[Len(s)] \in Everybody
  <1> DEFINE t == SubSeq(s, 1, Len(s) - 1)
  <1>1. /\ s \in Seq(Everybody) /\ Len(s) \in Nat \ {0} /\ DOMAIN s = 1 .. Len(s)
    BY SMT DEF Distinct
  <1>2. /\ t \in Seq(Everybody) /\ Len(t) = Len(s) - 1 /\ DOMAIN t = 1 .. Len(s) - 1
        /\ \A i \in 1 .. Len(s) - 1 : t[i] = s[i]
    BY <1>1, SMT
  <1> HIDE DEF t
  <1>3. Distinct(t)
    BY <1>1, <1>2, SMT DEF Distinct
  <1>4. \A x \in Range(t) : x \in Range(s) /\ x # s[Len(s)]
    <2> SUFFICES ASSUME NEW i \in DOMAIN t PROVE t[i] \in Range(s) /\ t[i] # s[Len(s)]
      BY Zenon DEF Range
    <2>1. i \in DOMAIN s /\ Len(s) \in DOMAIN s /\ i # Len(s) /\ t[i] = s[i]
      BY <1>1, <1>2, SMT
    <2>2. s[i] # s[Len(s)]
      BY <1>1, <2>1, SMT DEF Distinct
    <2>3. QED
      BY <1>1, <2>1, <2>2, Zenon DEF Range
  <1>5. \A x \in Range(s) : x = s[Len(s)] \/ x \in Range(t)
    <2> SUFFICES ASSUME NEW i \in DOMAIN s PROVE s[i] = s[Len(s)] \/ s[i] \in Range(t)
      BY Zenon DEF Range
    <2>1. i = Len(s) \/ (i \in DOMAIN t /\ t[i] = s[i])
      BY <1>1, <1>2, SMT
    <2>2. QED
      BY <1>1, <2>1, Zenon DEF Range
  <1>6. Len(s) \in DOMAIN s /\ s[Len(s)] \in Everybody
    BY <1>1, SMT
  <1>7. s[Len(s)] \in Range(s)
    BY <1>1, <1>6, Zenon DEF Range
  <1>8. QED
    BY <1>1, <1>3, <1>4, <1>5, <1>6, <1>7, Zenon DEF t

\* The scope of an archive: every validator, or one.
LEMMA ScopeIsDistinct ==
    ASSUME NEW scope \in Scopes
    PROVE  Distinct(scope) /\ scope # <<>>
  <1>1. CASE scope = Validators
    BY <1>1, RecoveryAssumption, SMT DEF Distinct, IsInjective, Everybody
  <1>2. CASE \E n \in Everybody : scope = <<n>>
    BY <1>2, SMT DEF Distinct
  <1>3. QED
    BY <1>1, <1>2 DEF Scopes

\* One home is put into its place, and the others stay.
Put(new, old, n, dir) ==
    IsHomes(new) /\ new[n] = dir /\ \A m \in Everybody \ {n} : new[m] = old[m]

LEMMA HomesPut ==
    ASSUME NEW h, IsHomes(h), NEW n \in Everybody, NEW v
    PROVE  Put([h EXCEPT ![n] = v], h, n, v)
  <1> DEFINE g == [h EXCEPT ![n] = v]
  <1>1. DOMAIN h = Everybody
    BY Zenon DEF IsHomes
  <1>2. g = [m \in Everybody |-> IF m = n THEN v ELSE h[m]]
    BY <1>1, Zenon
  <1> HIDE DEF g
  <1>3. Put(g, h, n, v)
    BY <1>2, Zenon DEF IsHomes, Put
  <1>4. QED
    BY <1>3 DEF g

LEMMA SameHomesAreEqual ==
    ASSUME NEW h, NEW g, IsHomes(h), IsHomes(g), \A n \in Everybody : h[n] = g[n]
    PROVE  h = g
  <1>1. [n \in Everybody |-> h[n]] = [n \in Everybody |-> g[n]]
    BY Zenon
  <1>2. QED
    BY <1>1, Zenon DEF IsHomes

LEMMA NoHomesAreHomes == IsHomes(NoHomes)
  BY Zenon DEF IsHomes, NoHomes

\* What is inspected depends on the homes of the scope only.
LEMMA SameInspection ==
    ASSUME NEW names, NEW h, NEW g, names # {}, \A n \in names : h[n] = g[n], Agree(h, names)
    PROVE  Agree(g, names) /\ Inspected(g, names) = Inspected(h, names)
  <1>1. AnchorHeight(g, names) = AnchorHeight(h, names)
    <2>1. {Len(h[n]) : n \in names} = {Len(g[n]) : n \in names}
      BY Zenon
    <2>2. QED
      BY <2>1, Zenon DEF AnchorHeight
  <1> DEFINE anchor == AnchorHeight(h, names)
             first == CHOOSE n \in names : TRUE
  <1>2. Agree(g, names)
    BY <1>1, Zenon DEF Agree
  <1>3. first \in names
    BY Zenon
  <1>4. [n \in names |-> <<Len(g[n]), g[n][Len(g[n])]>>] = [n \in names |-> <<Len(h[n]), h[n][Len(h[n])]>>]
    BY Zenon
  <1>5. g[first][anchor] = h[first][anchor]
    BY <1>3, Zenon
  <1>6. QED
    BY <1>1, <1>2, <1>4, <1>5, Zenon DEF Inspected

\* A restore in each of its stages.
LEMMA StagedIsOK ==
    ASSUME NEW q, NEW h, RestoreForm(q), q.at \in Staging, Staged(q, h)
    PROVE  RestoreOK(q, h)
  BY DEF RestoreOK, Staging, Swapping, Undoing

LEMMA SwappedIsOK ==
    ASSUME NEW q, NEW h, RestoreForm(q), q.at \in Swapping, Validated(q), Swapped(q, h)
    PROVE  RestoreOK(q, h)
  BY DEF RestoreOK, Staging, Swapping, Undoing

LEMMA UndoneIsOK ==
    ASSUME NEW q, NEW h, RestoreForm(q), q.at \in Undoing, Undone(q, h)
    PROVE  RestoreOK(q, h)
  BY DEF RestoreOK, Staging, Swapping, Undoing

LEMMA RestoredIsOK ==
    ASSUME NEW q, NEW h, RestoreForm(q), q.at = "restored", Validated(q), Activated(q, h)
    PROVE  RestoreOK(q, h)
  BY DEF RestoreOK, Staging, Swapping, Undoing

LEMMA FailedIsOK ==
    ASSUME NEW q, NEW h, RestoreForm(q), q.at = "failed", q.undone => h = q.before
    PROVE  RestoreOK(q, h)
  BY DEF RestoreOK, Staging, Swapping, Undoing

LEMMA CrashedIsOK ==
    ASSUME NEW q, NEW h, RestoreForm(q), q.at = "crashed", NoneLost(q, h)
    PROVE  RestoreOK(q, h)
  BY DEF RestoreOK, Staging, Swapping, Undoing

LEMMA StageIsKnown ==
    ASSUME NEW q, NEW h, RestoreOK(q, h), q.at # "none"
    PROVE  /\ RestoreForm(q)
           /\ q.at \in Staging => Staged(q, h)
           /\ q.at \in Swapping => Validated(q) /\ Swapped(q, h)
           /\ q.at \in Undoing => Undone(q, h)
           /\ q.at = "restored" => Validated(q) /\ Activated(q, h)
           /\ q.at = "failed" => (q.undone => h = q.before)
           /\ q.at = "crashed" => NoneLost(q, h)
  BY DEF RestoreOK, NoRestore

\* Until it has ended, a restore has lost nothing.
LEMMA RestoringLosesNothing ==
    ASSUME NEW q, NEW h, RestoreOK(q, h), q.at \notin Ends \cup {"none"}
    PROVE  NoneLost(q, h)
  <1>1. q.at \in Staging \cup Swapping \cup Undoing
    BY StageIsKnown DEF RestoreForm
  <1>2. CASE q.at \in Staging
    <2>1. Staged(q, h)
      BY <1>2, StageIsKnown
    <2>2. QED
      BY <2>1, Zenon DEF Staged, NoneLost
  <1>3. CASE q.at \in Swapping
    <2>1. Swapped(q, h)
      BY <1>3, StageIsKnown
    <2>2. QED
      BY <2>1, Zenon DEF Swapped, NoneLost
  <1>4. CASE q.at \in Undoing
    <2>1. Undone(q, h)
      BY <1>4, StageIsKnown
    <2>2. QED
      BY <2>1, Zenon DEF Undone
  <1>5. QED
    BY <1>1, <1>2, <1>3, <1>4, Zenon

\* The end of a restore keeps what the homes were and whether the rollback succeeded.
LEMMA EndKeeps ==
    ASSUME RestoreForm(restore), NEW at \in {"failed", "crashed"}, NEW b, IsHomes(b),
           RestoreEnds(at, b)
    PROVE  /\ RestoreForm(restore') /\ restore'.at = at /\ restore'.backup = b
           /\ restore'.before = restore.before /\ restore'.undone = restore.undone
  <1>1. DOMAIN restore = RestoreFields
    BY Zenon DEF RestoreForm, HasFields
  <1>2. HasFields(restore', RestoreFields)
    BY Zenon DEF RestoreForm, HasFields, RestoreEnds
  <1>3. /\ restore'.at = at /\ restore'.backup = b
        /\ restore'.before = restore.before /\ restore'.undone = restore.undone
    BY <1>1, SMT DEF RestoreEnds, RestoreFields
  <1>4. restore'.at \in Ends
    BY <1>3 DEF Ends
  <1>5. QED
    BY <1>2, <1>3, <1>4, Zenon DEF RestoreForm

LEMMA FailKeeps ==
    ASSUME RestoreInv, restore.at \in Staging, RestoreFails, nodeDirs' = nodeDirs
    PROVE  RestoreInv'
  <1>1. RestoreForm(restore) /\ Staged(restore, nodeDirs)
    BY StageIsKnown DEF RestoreInv, Staging
  <1>2. RestoreEnds("failed", NoHomes)
    BY DEF RestoreFails
  <1>3. /\ RestoreForm(restore') /\ restore'.at = "failed" /\ restore'.before = restore.before
        /\ restore'.undone = restore.undone
    BY <1>1, <1>2, NoHomesAreHomes, EndKeeps, Zenon
  <1>4. nodeDirs' = restore'.before
    BY <1>1, <1>3 DEF Staged
  <1>5. RestoreOK(restore', nodeDirs')
    BY <1>3, <1>4, FailedIsOK
  <1>6. QED
    BY <1>5 DEF RestoreInv

LEMMA RolledBackKeeps ==
    ASSUME IsHomes(nodeDirs), RestoreInv, RolledBack
    PROVE  RestoreInv'
  <1>0. restore.at = "undo" /\ restore.done = <<>> /\ RestoreFails /\ nodeDirs' = nodeDirs
    BY DEF RolledBack, restoreOnly
  <1>1. RestoreForm(restore) /\ Undone(restore, nodeDirs)
    BY <1>0, StageIsKnown DEF RestoreInv, Undoing
  <1>2. RestoreEnds("failed", NoHomes)
    BY <1>0 DEF RestoreFails
  <1>3. /\ RestoreForm(restore') /\ restore'.at = "failed" /\ restore'.before = restore.before
        /\ restore'.undone = restore.undone
    BY <1>1, <1>2, NoHomesAreHomes, EndKeeps, Zenon
  <1>4. ASSUME restore'.undone PROVE nodeDirs' = restore'.before
    <2>1. Range(restore.done) = {}
      BY <1>0 DEF Range
    <2>2. \A n \in Everybody : nodeDirs[n] = restore.before[n]
      BY <1>1, <1>3, <1>4, <2>1, Zenon DEF Undone
    <2>3. IsHomes(restore.before)
      BY <1>1 DEF RestoreForm
    <2>4. nodeDirs = restore.before
      BY <2>2, <2>3, SameHomesAreEqual
    <2>5. QED
      BY <1>0, <1>3, <2>4
  <1>5. RestoreOK(restore', nodeDirs')
    BY <1>3, <1>4, FailedIsOK
  <1>6. QED
    BY <1>5 DEF RestoreInv

LEMMA KillKeeps ==
    ASSUME RestoreInv, KillRestore
    PROVE  RestoreInv'
  <1>0. Restoring /\ RestoreEnds("crashed", restore.backup) /\ nodeDirs' = nodeDirs
    BY DEF KillRestore, restoreOnly
  <1>1. RestoreForm(restore) /\ NoneLost(restore, nodeDirs)
    BY <1>0, StageIsKnown, RestoringLosesNothing DEF RestoreInv, Restoring
  <1>2. RestoreEnds("crashed", restore.backup)
    BY <1>0
  <1>3. IsHomes(restore.backup)
    BY <1>1 DEF RestoreForm
  <1>4. /\ RestoreForm(restore') /\ restore'.at = "crashed" /\ restore'.before = restore.before
        /\ restore'.backup = restore.backup
    BY <1>1, <1>2, <1>3, EndKeeps, Zenon
  <1>5. NoneLost(restore', nodeDirs')
    BY <1>0, <1>1, <1>4, Zenon DEF NoneLost
  <1>6. RestoreOK(restore', nodeDirs')
    BY <1>4, <1>5, CrashedIsOK
  <1>7. QED
    BY <1>6 DEF RestoreInv

\* A step to another stage that leaves the other fields alone.
LEMMA MoveKeeps ==
    ASSUME RestoreForm(restore), NEW at \in Staging \cup Swapping \cup Undoing, RestoreTo(at)
    PROVE  /\ RestoreForm(restore')
           /\ restore'.at = at /\ restore'.name = restore.name
           /\ restore'.manifest = restore.manifest /\ restore'.staged = restore.staged
           /\ restore'.before = restore.before /\ restore'.backup = restore.backup
           /\ restore'.todo = restore.todo /\ restore'.done = restore.done
           /\ restore'.undone = restore.undone
  <1>1. DOMAIN restore = RestoreFields
    BY Zenon DEF RestoreForm, HasFields
  <1>2. HasFields(restore', RestoreFields)
    BY Zenon DEF RestoreForm, HasFields, RestoreTo
  <1>3. /\ restore'.at = at /\ restore'.name = restore.name
        /\ restore'.manifest = restore.manifest /\ restore'.staged = restore.staged
        /\ restore'.before = restore.before /\ restore'.backup = restore.backup
        /\ restore'.todo = restore.todo /\ restore'.done = restore.done
        /\ restore'.undone = restore.undone
    BY <1>1, SMT DEF RestoreTo, RestoreFields
  <1>4. QED
    BY <1>2, <1>3, Zenon DEF RestoreForm

\* Verification, inspection, extraction and validation touch no home, and what they
\* accept is what the manifest names.
LEMMA VerifyKeeps ==
    ASSUME RestoreInv, VerifyRecoverySidecar
    PROVE  RestoreInv'
  <1>1. restore.at \in {"verify", "verifyAgain"} /\ nodeDirs' = nodeDirs
    BY DEF VerifyRecoverySidecar, restoreOnly
  <1>2. restore.at \in Staging
    BY <1>1 DEF Staging
  <1>3. RestoreForm(restore) /\ Staged(restore, nodeDirs)
    BY <1>2, StageIsKnown DEF RestoreInv, Staging
  <1>4. CASE RestoreFails
    BY <1>1, <1>2, <1>4, FailKeeps
  <1>5. ASSUME NEW at, at = IF restore.at = "verify" THEN "inspect" ELSE "extract", RestoreTo(at)
        PROVE  RestoreInv'
    <2>1. at \in Staging /\ (at = "extract" => restore.at = "verifyAgain") /\ at \in {"inspect", "extract"}
      BY <1>1, <1>5 DEF Staging
    <2>2. /\ RestoreForm(restore')
          /\ restore'.at = at /\ restore'.name = restore.name
          /\ restore'.manifest = restore.manifest
          /\ restore'.before = restore.before /\ restore'.backup = restore.backup
          /\ restore'.done = restore.done /\ restore'.undone = restore.undone
      BY <1>3, <1>5, <2>1, MoveKeeps, Zenon
    <2>3. restore'.at # "validate" /\ restore'.at # "verifyAgain"
      BY <2>1, <2>2
    <2>4. Staged(restore', nodeDirs')
      BY <1>1, <1>3, <2>1, <2>2, <2>3 DEF Staged
    <2>5. RestoreOK(restore', nodeDirs')
      BY <2>1, <2>2, <2>4, StagedIsOK
    <2>6. QED
      BY <2>5 DEF RestoreInv
  <1>6. QED
    BY <1>4, <1>5, Zenon DEF VerifyRecoverySidecar

LEMMA InspectKeeps ==
    ASSUME VaultInv, RestoreInv, InspectRecoveryArchive
    PROVE  RestoreInv'
  <1> DEFINE file == vault[restore.name].file
  <1>1. restore.at = "inspect" /\ nodeDirs' = nodeDirs
    BY DEF InspectRecoveryArchive, restoreOnly
  <1>2. restore.at \in Staging
    BY <1>1 DEF Staging
  <1>3. RestoreForm(restore) /\ Staged(restore, nodeDirs)
    BY <1>2, StageIsKnown DEF RestoreInv, Staging
  <1>4. CASE RestoreFails
    BY <1>1, <1>2, <1>4, FailKeeps
  <1>5. ASSUME Reads(file), restore' = [restore EXCEPT !.at = "verifyAgain", !.manifest = file.manifest]
        PROVE  RestoreInv'
    <2>1. file.manifest.scope \in Scopes
      BY <1>3, <1>5, Zenon DEF Reads, VaultInv, FileForm, Staged
    <2> HIDE DEF file
    <2>2. DOMAIN restore = RestoreFields
      BY <1>3, Zenon DEF RestoreForm, HasFields
    <2>3. HasFields(restore', RestoreFields)
      BY <1>3, <1>5, Zenon DEF RestoreForm, HasFields
    <2>4. /\ restore'.at = "verifyAgain" /\ restore'.name = restore.name
          /\ restore'.manifest = file.manifest
          /\ restore'.before = restore.before /\ restore'.backup = restore.backup
          /\ restore'.done = restore.done /\ restore'.undone = restore.undone
      BY <1>5, <2>2, SMT DEF RestoreFields
    <2>5. restore'.at \in Staging /\ restore'.at # "validate"
      BY <2>4 DEF Staging
    <2>6. RestoreForm(restore')
      BY <1>3, <2>3, <2>4, <2>5, Zenon DEF RestoreForm
    <2>7. Staged(restore', nodeDirs')
      BY <1>1, <1>3, <2>1, <2>4, <2>5, Zenon DEF Staged
    <2>8. RestoreOK(restore', nodeDirs')
      BY <2>5, <2>6, <2>7, StagedIsOK
    <2>9. QED
      BY <2>8 DEF RestoreInv
  <1>6. QED
    BY <1>4, <1>5, Zenon DEF InspectRecoveryArchive

LEMMA ExtractKeeps ==
    ASSUME RestoreInv, Extract
    PROVE  RestoreInv'
  <1> DEFINE file == vault[restore.name].file
  <1>1. restore.at = "extract" /\ nodeDirs' = nodeDirs
    BY DEF Extract, restoreOnly
  <1>2. restore.at \in Staging
    BY <1>1 DEF Staging
  <1>3. RestoreForm(restore) /\ Staged(restore, nodeDirs)
    BY <1>2, StageIsKnown DEF RestoreInv, Staging
  <1>4. CASE RestoreFails
    BY <1>1, <1>2, <1>4, FailKeeps
  <1>5. ASSUME Reads(file), file.manifest = restore.manifest,
               restore' = [restore EXCEPT !.at = "validate", !.staged = file.payload]
        PROVE  RestoreInv'
    <2>1. file.payload = restore.manifest.files /\ restore.manifest.scope \in Scopes
      BY <1>1, <1>3, <1>5 DEF Reads, Staged
    <2> HIDE DEF file
    <2>2. DOMAIN restore = RestoreFields
      BY <1>3, Zenon DEF RestoreForm, HasFields
    <2>3. HasFields(restore', RestoreFields)
      BY <1>3, <1>5, Zenon DEF RestoreForm, HasFields
    <2>4. /\ restore'.at = "validate" /\ restore'.name = restore.name
          /\ restore'.manifest = restore.manifest /\ restore'.staged = file.payload
          /\ restore'.before = restore.before /\ restore'.backup = restore.backup
          /\ restore'.done = restore.done /\ restore'.undone = restore.undone
      BY <1>5, <2>2, SMT DEF RestoreFields
    <2>5. restore'.at \in Staging
      BY <2>4 DEF Staging
    <2>6. RestoreForm(restore')
      BY <1>3, <2>3, <2>4, <2>5, Zenon DEF RestoreForm
    <2>7. Staged(restore', nodeDirs')
      BY <1>1, <1>3, <2>1, <2>4, <2>5, Zenon DEF Staged
    <2>8. RestoreOK(restore', nodeDirs')
      BY <2>5, <2>6, <2>7, StagedIsOK
    <2>9. QED
      BY <2>8 DEF RestoreInv
  <1>6. QED
    BY <1>4, <1>5, Zenon DEF Extract

LEMMA ValidateKeeps ==
    ASSUME RestoreInv, ValidateStagedRecovery
    PROVE  RestoreInv'
  <1>1. restore.at = "validate" /\ nodeDirs' = nodeDirs
    BY DEF ValidateStagedRecovery, restoreOnly
  <1>2. restore.at \in Staging
    BY <1>1 DEF Staging
  <1>3. RestoreForm(restore) /\ Staged(restore, nodeDirs)
    BY <1>2, StageIsKnown DEF RestoreInv, Staging
  <1>4. CASE RestoreFails
    BY <1>1, <1>2, <1>4, FailKeeps
  <1>5. ASSUME StagedMatches(restore.staged, restore.manifest),
               restore' = [restore EXCEPT !.at = "preserve", !.todo = restore.manifest.scope]
        PROVE  RestoreInv'
    <2> DEFINE scope == restore.manifest.scope
    <2>1. scope \in Scopes /\ restore.staged = restore.manifest.files
      BY <1>1, <1>3 DEF Staged
    <2>2. DOMAIN restore = RestoreFields
      BY <1>3, Zenon DEF RestoreForm, HasFields
    <2>3. HasFields(restore', RestoreFields)
      BY <1>3, <1>5, Zenon DEF RestoreForm, HasFields
    <2>4. /\ restore'.at = "preserve" /\ restore'.manifest = restore.manifest
          /\ restore'.staged = restore.staged /\ restore'.todo = scope
          /\ restore'.before = restore.before /\ restore'.backup = restore.backup
          /\ restore'.done = restore.done /\ restore'.undone = restore.undone
      BY <1>5, <2>2, SMT DEF RestoreFields
    <2>5. restore'.at \in Swapping /\ restore'.at # "activate"
      BY <2>4 DEF Swapping
    <2>6. RestoreForm(restore')
      BY <1>3, <2>3, <2>4, <2>5, Zenon DEF RestoreForm
    <2>7. Validated(restore')
      BY <1>5, <2>1, <2>4, Zenon DEF Validated
    <2>8. Swapped(restore', nodeDirs')
      <3>1. Distinct(scope) /\ scope # <<>>
        BY <2>1, ScopeIsDistinct
      <3>2. restore'.done = <<>> /\ Range(restore'.done) = {} /\ restore'.undone = TRUE
        BY <1>3, <2>4 DEF Staged, Range
      <3>3. Distinct(restore'.done)
        BY <3>2, SMT DEF Distinct
      <3>4. nodeDirs' = restore'.before
        BY <1>1, <1>3, <2>4 DEF Staged
      <3>5. QED
        BY <2>4, <2>5, <3>1, <3>2, <3>3, <3>4, Zenon DEF Swapped
    <2>9. RestoreOK(restore', nodeDirs')
      BY <2>5, <2>6, <2>7, <2>8, SwappedIsOK
    <2>10. QED
      BY <2>9 DEF RestoreInv
  <1>6. QED
    BY <1>4, <1>5, Zenon DEF ValidateStagedRecovery

\* activateRecoveryNodes: the next validator is one that has not been swapped.
LEMMA TargetIsNext ==
    ASSUME RestoreInv, restore.at \in Swapping
    PROVE  /\ RestoreForm(restore) /\ Validated(restore) /\ Swapped(restore, nodeDirs)
           /\ SwapTarget \in Everybody /\ SwapTarget \in Range(restore.todo)
           /\ SwapTarget \notin Range(restore.done)
  <1>1. RestoreForm(restore) /\ Validated(restore) /\ Swapped(restore, nodeDirs)
    BY StageIsKnown DEF RestoreInv, Swapping
  <1>2. Head(restore.todo) \in Range(restore.todo) /\ Range(restore.todo) \subseteq Everybody
    BY <1>1, HeadIsIn, Zenon DEF Swapped
  <1>3. Range(restore.todo) \cap Range(restore.done) = {}
    BY <1>1, Zenon DEF Swapped
  <1>4. QED
    BY <1>1, <1>2, <1>3, Zenon DEF SwapTarget

LEMMA PreserveKeeps ==
    ASSUME IsHomes(nodeDirs), RestoreInv, Preserve
    PROVE  IsHomes(nodeDirs') /\ RestoreInv'
  <1> DEFINE n == SwapTarget
             b == [restore.backup EXCEPT ![n] = nodeDirs[n]]
  <1>1. /\ restore.at = "preserve"
        /\ nodeDirs' = [nodeDirs EXCEPT ![n] = Absent]
        /\ restore' = [restore EXCEPT !.at = "activate", !.backup[n] = nodeDirs[n]]
    BY DEF Preserve
  <1>2. /\ RestoreForm(restore) /\ Validated(restore) /\ Swapped(restore, nodeDirs)
        /\ n \in Everybody /\ n \in Range(restore.todo) /\ n \notin Range(restore.done)
    BY <1>1, TargetIsNext DEF Swapping
  <1>n. n = Head(restore.todo)
    BY DEF SwapTarget
  <1> HIDE DEF n
  <1>3. DOMAIN restore = RestoreFields
    BY <1>2, Zenon DEF RestoreForm, HasFields
  <1>4. HasFields(restore', RestoreFields)
    BY <1>1, <1>2, Zenon DEF RestoreForm, HasFields
  <1>5. /\ restore'.at = "activate" /\ restore'.manifest = restore.manifest
        /\ restore'.staged = restore.staged /\ restore'.todo = restore.todo
        /\ restore'.before = restore.before /\ restore'.backup = b
        /\ restore'.done = restore.done /\ restore'.undone = restore.undone
    BY <1>1, <1>3, SMT DEF RestoreFields
  <1>6. restore'.at \in Swapping
    BY <1>5 DEF Swapping
  <1>7. Put(nodeDirs', nodeDirs, n, Absent)
    <2>1. Put([nodeDirs EXCEPT ![n] = Absent], nodeDirs, n, Absent)
      BY <1>2, HomesPut, Zenon
    <2>2. QED
      BY <1>1, <2>1
  <1>8. Put(b, restore.backup, n, nodeDirs[n])
    <2>1. IsHomes(restore.backup)
      BY <1>2 DEF RestoreForm
    <2>2. QED
      BY <1>2, <2>1, HomesPut, Zenon
  <1> HIDE DEF b
  <1>9. RestoreForm(restore')
    BY <1>2, <1>4, <1>5, <1>6, <1>8, Zenon DEF RestoreForm, Put
  <1>10. Validated(restore')
    BY <1>2, <1>5, Zenon DEF Validated
  <1>11. Swapped(restore', nodeDirs')
    <2>1. Range(restore.done) \subseteq Everybody
      BY <1>2, NamesAreKnown, Zenon DEF Swapped
    <2>2. nodeDirs[n] = restore.before[n]
      BY <1>1, <1>2 DEF Swapped
    <2>3. \A m \in Range(restore.done) : nodeDirs'[m] = restore.staged[m] /\ b[m] = restore.before[m]
      BY <1>2, <1>7, <1>8, <2>1, Zenon DEF Swapped, Put
    <2>4. \A m \in Everybody \ Range(restore.done) : m # n => nodeDirs'[m] = restore.before[m]
      <3> SUFFICES ASSUME NEW m \in Everybody \ Range(restore.done), m # n
                   PROVE  nodeDirs'[m] = restore.before[m]
        OBVIOUS
      <3>1. nodeDirs[m] = restore.before[m]
        BY <1>2, <1>n, Zenon DEF Swapped
      <3>2. QED
        BY <1>7, <3>1, Zenon DEF Put
    <2>5. b[n] = restore.before[n]
      BY <1>8, <2>2 DEF Put
    <2>6. \A m \in Everybody \ Range(restore'.done) :
              IF restore'.at = "activate" /\ m = Head(restore'.todo)
              THEN restore'.backup[m] = restore'.before[m]
              ELSE nodeDirs'[m] = restore'.before[m]
      BY <1>n, <1>5, <2>4, <2>5, Zenon
    <2>7. \A m \in Range(restore'.done) :
              nodeDirs'[m] = restore'.staged[m] /\ restore'.backup[m] = restore'.before[m]
      BY <1>5, <2>3, Zenon
    <2>8. QED
      BY <1>2, <1>5, <2>6, <2>7, Zenon DEF Swapped
  <1>12. RestoreOK(restore', nodeDirs')
    BY <1>6, <1>9, <1>10, <1>11, SwappedIsOK
  <1>13. QED
    BY <1>7, <1>12 DEF RestoreInv, Put

LEMMA ActivateKeeps ==
    ASSUME IsHomes(nodeDirs), RestoreInv, Activate
    PROVE  IsHomes(nodeDirs') /\ RestoreInv'
  <1> DEFINE n == SwapTarget
  <1>1. /\ restore.at = "activate"
        /\ nodeDirs' = [nodeDirs EXCEPT ![n] = restore.staged[n]]
        /\ restore' = IF Len(restore.todo) = 1
                      THEN [restore EXCEPT !.at = "restored", !.backup = NoHomes]
                      ELSE [restore EXCEPT !.at = "preserve", !.todo = Tail(@), !.done = Append(@, n)]
    BY DEF Activate
  <1>2. /\ RestoreForm(restore) /\ Validated(restore) /\ Swapped(restore, nodeDirs)
        /\ n \in Everybody /\ n \in Range(restore.todo) /\ n \notin Range(restore.done)
    BY <1>1, TargetIsNext DEF Swapping
  <1>3. n = Head(restore.todo)
    BY DEF SwapTarget
  <1> HIDE DEF n
  <1>4. Put(nodeDirs', nodeDirs, n, restore.staged[n])
    <2>1. Put([nodeDirs EXCEPT ![n] = restore.staged[n]], nodeDirs, n, restore.staged[n])
      BY <1>2, HomesPut, Zenon
    <2>2. QED
      BY <1>1, <2>1
  <1>5. DOMAIN restore = RestoreFields
    BY <1>2, Zenon DEF RestoreForm, HasFields
  <1>6. /\ Distinct(restore.todo) /\ restore.todo # <<>> /\ Distinct(restore.done)
        /\ Range(restore.todo) \cup Range(restore.done) = Range(restore.manifest.scope)
        /\ Range(restore.todo) \cap Range(restore.done) = {}
        /\ \A m \in Range(restore.done) :
                nodeDirs[m] = restore.staged[m] /\ restore.backup[m] = restore.before[m]
    BY <1>2, Zenon DEF Swapped
  <1>7. /\ Range(restore.done) \subseteq Everybody
        /\ Distinct(Tail(restore.todo)) /\ Range(Tail(restore.todo)) = Range(restore.todo) \ {n}
    BY <1>3, <1>6, NamesAreKnown, TailDrops, Zenon
  <1>8. \A m \in Range(restore.done) : nodeDirs'[m] = restore.staged[m]
    BY <1>2, <1>4, <1>6, <1>7, Zenon DEF Put
  <1>9. \A m \in Everybody \ (Range(restore.done) \cup {n}) : nodeDirs'[m] = restore.before[m]
    <2> SUFFICES ASSUME NEW m \in Everybody, m \notin Range(restore.done), m # n
                 PROVE  nodeDirs'[m] = restore.before[m]
      BY Zenon
    <2>1. nodeDirs[m] = restore.before[m]
      BY <1>2, <1>3, Zenon DEF Swapped
    <2>2. QED
      BY <1>4, <2>1, Zenon DEF Put
  <1>10. nodeDirs'[n] = restore.staged[n] /\ restore.backup[n] = restore.before[n]
    <2>1. restore.backup[n] = restore.before[n]
      BY <1>1, <1>2, <1>3, Zenon DEF Swapped
    <2>2. QED
      BY <1>4, <2>1, Zenon DEF Put
  <1>11. ASSUME Len(restore.todo) = 1 PROVE RestoreInv'
    <2>1. restore' = [restore EXCEPT !.at = "restored", !.backup = NoHomes]
      BY <1>1, <1>11
    <2>2. HasFields(restore', RestoreFields)
      BY <1>2, <2>1, Zenon DEF RestoreForm, HasFields
    <2>3. /\ restore'.at = "restored" /\ restore'.manifest = restore.manifest
          /\ restore'.staged = restore.staged /\ restore'.backup = NoHomes
          /\ restore'.before = restore.before
      BY <1>5, <2>1, SMT DEF RestoreFields
    <2>4. restore'.at \in Ends
      BY <2>3 DEF Ends
    <2>5. RestoreForm(restore')
      BY <1>2, <2>2, <2>3, <2>4, NoHomesAreHomes, Zenon DEF RestoreForm
    <2>6. Validated(restore')
      BY <1>2, <2>3, Zenon DEF Validated
    <2>7. Range(restore.todo) = {n}
      <3>1. Tail(restore.todo) = <<>>
        BY <1>6, <1>11, TailOfOne, Zenon
      <3>2. Range(Tail(restore.todo)) = {}
        BY <3>1 DEF Range
      <3>3. QED
        BY <1>2, <1>7, <3>2, Zenon
    <2>8. Range(restore.manifest.scope) = Range(restore.done) \cup {n}
      BY <1>6, <2>7, Zenon
    <2>9. Activated(restore', nodeDirs')
      BY <1>8, <1>9, <1>10, <2>3, <2>8, Zenon DEF Activated
    <2>10. RestoreOK(restore', nodeDirs')
      BY <2>3, <2>5, <2>6, <2>9, RestoredIsOK
    <2>11. QED
      BY <2>10 DEF RestoreInv
  <1>12. ASSUME Len(restore.todo) # 1 PROVE RestoreInv'
    <2> DEFINE t == Tail(restore.todo)
               d == Append(restore.done, n)
    <2>1. restore' = [restore EXCEPT !.at = "preserve", !.todo = t, !.done = d]
      BY <1>1, <1>12
    <2>2. Distinct(d) /\ Range(d) = Range(restore.done) \cup {n}
      BY <1>2, <1>6, AppendAdds, Zenon
    <2>3. Distinct(t) /\ Range(t) = Range(restore.todo) \ {n}
      BY <1>7
    <2>4. t # <<>>
      BY <1>6, <1>12, TailOfOne, Zenon
    <2> HIDE DEF t, d
    <2>5. HasFields(restore', RestoreFields)
      BY <1>2, <2>1, Zenon DEF RestoreForm, HasFields
    <2>6. /\ restore'.at = "preserve" /\ restore'.manifest = restore.manifest
          /\ restore'.staged = restore.staged /\ restore'.backup = restore.backup
          /\ restore'.before = restore.before /\ restore'.todo = t /\ restore'.done = d
          /\ restore'.undone = restore.undone
      BY <1>5, <2>1, SMT DEF RestoreFields
    <2>7. restore'.at \in Swapping /\ restore'.at # "activate"
      BY <2>6 DEF Swapping
    <2>8. RestoreForm(restore')
      BY <1>2, <2>5, <2>6, <2>7, Zenon DEF RestoreForm
    <2>9. Validated(restore')
      BY <1>2, <2>6, Zenon DEF Validated
    <2>10. Range(t) \cap Range(d) = {} /\ Range(t) \cup Range(d) = Range(restore.manifest.scope)
      BY <1>2, <1>6, <2>2, <2>3, Zenon
    <2>11. \A m \in Range(d) :
               nodeDirs'[m] = restore.staged[m] /\ restore.backup[m] = restore.before[m]
      BY <1>6, <1>8, <1>10, <2>2, Zenon
    <2>12. restore.undone = TRUE
      BY <1>2 DEF Swapped
    <2>13. Swapped(restore', nodeDirs')
      <3>1. \A m \in Everybody \ Range(restore'.done) :
                IF restore'.at = "activate" /\ m = Head(restore'.todo)
                THEN restore'.backup[m] = restore'.before[m]
                ELSE nodeDirs'[m] = restore'.before[m]
        BY <1>9, <2>2, <2>6, <2>7, Zenon
      <3>2. \A m \in Range(restore'.done) :
                nodeDirs'[m] = restore'.staged[m] /\ restore'.backup[m] = restore'.before[m]
        BY <2>6, <2>11, Zenon
      <3>3. QED
        BY <2>2, <2>3, <2>4, <2>6, <2>10, <2>12, <3>1, <3>2, Zenon DEF Swapped
    <2>14. RestoreOK(restore', nodeDirs')
      BY <2>7, <2>8, <2>9, <2>13, SwappedIsOK
    <2>15. QED
      BY <2>14 DEF RestoreInv
  <1>13. QED
    BY <1>4, <1>11, <1>12, Zenon DEF Put

\* A swap that fails goes to the rollback: what is done has a backup.
LEMMA SwapIsUndone ==
    ASSUME RestoreForm(restore), Swapped(restore, nodeDirs), NEW r, NEW h, RestoreForm(r),
           r.at = "undo", r.done = restore.done, r.backup = restore.backup,
           r.before = restore.before,
           \A m \in Range(restore.done) : h[m] = nodeDirs[m],
           r.undone => \A m \in Everybody \ Range(restore.done) : h[m] = restore.before[m],
           NoneLost(r, h)
    PROVE  RestoreOK(r, h)
  <1>1. r.at \in Undoing /\ r.at # "moveBack"
    BY DEF Undoing
  <1>2. Undone(r, h)
    BY <1>1, Zenon DEF Undone, Swapped
  <1>3. QED
    BY <1>1, <1>2, UndoneIsOK

LEMMA PreserveFailsKeeps ==
    ASSUME RestoreInv, PreserveFails
    PROVE  RestoreInv'
  <1>1. restore.at = "preserve" /\ RestoreTo("undo") /\ nodeDirs' = nodeDirs
    BY DEF PreserveFails
  <1>2. RestoreForm(restore) /\ Swapped(restore, nodeDirs)
    BY <1>1, TargetIsNext DEF Swapping
  <1>3. /\ RestoreForm(restore') /\ restore'.at = "undo" /\ restore'.done = restore.done
        /\ restore'.backup = restore.backup /\ restore'.before = restore.before
    <2>1. "undo" \in Staging \cup Swapping \cup Undoing
      BY DEF Undoing
    <2>2. QED
      BY <1>1, <1>2, <2>1, MoveKeeps, Zenon
  <1>4. restore.at # "activate"
    BY <1>1
  <1>5. \A m \in Everybody \ Range(restore.done) : nodeDirs[m] = restore.before[m]
    BY <1>2, <1>4, Zenon DEF Swapped
  <1>6. restore.at \notin Ends \cup {"none"}
    BY <1>1 DEF Ends
  <1>7. NoneLost(restore, nodeDirs)
    BY <1>6, RestoringLosesNothing DEF RestoreInv
  <1>8. NoneLost(restore', nodeDirs')
    BY <1>1, <1>3, <1>7, Zenon DEF NoneLost
  <1>9. RestoreOK(restore', nodeDirs')
    BY <1>1, <1>2, <1>3, <1>5, <1>8, SwapIsUndone, Zenon
  <1>10. QED
    BY <1>9 DEF RestoreInv

LEMMA ActivateFailsKeeps ==
    ASSUME IsHomes(nodeDirs), RestoreInv, ActivateFails
    PROVE  IsHomes(nodeDirs') /\ RestoreInv'
  <1> DEFINE n == SwapTarget
  <1>1. restore.at = "activate"
    BY DEF ActivateFails
  <1>2. /\ RestoreForm(restore) /\ Swapped(restore, nodeDirs)
        /\ n \in Everybody /\ n \notin Range(restore.done)
    BY <1>1, TargetIsNext DEF Swapping
  <1>3. n = Head(restore.todo)
    BY DEF SwapTarget
  <1>4. restore.at \notin Ends \cup {"none"}
    BY <1>1 DEF Ends
  <1>5. NoneLost(restore, nodeDirs)
    BY <1>4, RestoringLosesNothing DEF RestoreInv
  <1>6. restore.backup[n] = restore.before[n]
    BY <1>1, <1>2, <1>3, Zenon DEF Swapped
  <1>7. Range(restore.done) \subseteq Everybody
    BY <1>2, NamesAreKnown, Zenon DEF Swapped
  <1>8. CASE /\ nodeDirs' = [nodeDirs EXCEPT ![n] = restore.backup[n]]
             /\ RestoreTo("undo")
    <2> HIDE DEF n
    <2>1. Put(nodeDirs', nodeDirs, n, restore.backup[n])
      <3>1. Put([nodeDirs EXCEPT ![n] = restore.backup[n]], nodeDirs, n, restore.backup[n])
        BY <1>2, HomesPut, Zenon
      <3>2. QED
        BY <1>8, <3>1
    <2>2. /\ RestoreForm(restore') /\ restore'.at = "undo" /\ restore'.done = restore.done
          /\ restore'.backup = restore.backup /\ restore'.before = restore.before
      <3>1. "undo" \in Staging \cup Swapping \cup Undoing
        BY DEF Undoing
      <3>2. QED
        BY <1>2, <1>8, <3>1, MoveKeeps, Zenon
    <2>3. \A m \in Range(restore.done) : nodeDirs'[m] = nodeDirs[m]
      BY <1>2, <1>7, <2>1, Zenon DEF Put
    <2>4. ASSUME NEW m \in Everybody \ Range(restore.done)
          PROVE  nodeDirs'[m] = restore.before[m]
      <3>1. CASE m = n
        BY <1>6, <2>1, <3>1, Zenon DEF Put
      <3>2. CASE m # n
        <4>1. nodeDirs[m] = restore.before[m]
          BY <1>2, <1>3, <3>2, Zenon DEF Swapped
        <4>2. QED
          BY <2>1, <3>2, <4>1, Zenon DEF Put
      <3>3. QED
        BY <3>1, <3>2
    <2>5. NoneLost(restore', nodeDirs')
      <3>1. \A m \in Range(restore.done) : restore.before[m] = restore.backup[m]
        BY <1>2, Zenon DEF Swapped
      <3>2. QED
        BY <2>2, <2>4, <3>1, Zenon DEF NoneLost
    <2>6. RestoreOK(restore', nodeDirs')
      BY <1>2, <2>2, <2>3, <2>4, <2>5, SwapIsUndone, Zenon
    <2>7. QED
      BY <2>1, <2>6 DEF RestoreInv, Put
  <1>9. CASE /\ restore' = [restore EXCEPT !.at = "undo", !.undone = FALSE]
             /\ nodeDirs' = nodeDirs
    <2>1. DOMAIN restore = RestoreFields
      BY <1>2, Zenon DEF RestoreForm, HasFields
    <2>2. HasFields(restore', RestoreFields)
      BY <1>2, <1>9, Zenon DEF RestoreForm, HasFields
    <2>3. /\ restore'.at = "undo" /\ restore'.done = restore.done /\ restore'.undone = FALSE
          /\ restore'.backup = restore.backup /\ restore'.before = restore.before
      BY <1>9, <2>1, SMT DEF RestoreFields
    <2>4. restore'.at \in Undoing
      BY <2>3 DEF Undoing
    <2>5. RestoreForm(restore')
      BY <1>2, <2>2, <2>3, <2>4, Zenon DEF RestoreForm
    <2>6. NoneLost(restore', nodeDirs')
      BY <1>5, <1>9, <2>3, Zenon DEF NoneLost
    <2>7. RestoreOK(restore', nodeDirs')
      BY <1>2, <1>9, <2>3, <2>5, <2>6, SwapIsUndone, Zenon
    <2>8. QED
      BY <1>9, <2>7 DEF RestoreInv
  <1>10. QED
    BY <1>8, <1>9, Zenon DEF ActivateFails

\* rollback: the home that is removed and the one that is moved back is the last of
\* those that were activated.
LEMMA LastIsActivated ==
    ASSUME RestoreInv, restore.at \in Undoing, restore.done # <<>>
    PROVE  /\ RestoreForm(restore) /\ Undone(restore, nodeDirs)
           /\ LastActivated \in Everybody /\ LastActivated \in Range(restore.done)
           /\ restore.backup[LastActivated] = restore.before[LastActivated]
           /\ Distinct(SubSeq(restore.done, 1, Len(restore.done) - 1))
           /\ Range(SubSeq(restore.done, 1, Len(restore.done) - 1)) = Range(restore.done) \ {LastActivated}
  <1>1. RestoreForm(restore) /\ Undone(restore, nodeDirs)
    BY StageIsKnown DEF RestoreInv, Undoing
  <1>2. Distinct(restore.done) /\ \A m \in Range(restore.done) : restore.backup[m] = restore.before[m]
    BY <1>1, Zenon DEF Undone
  <1>3. QED
    BY <1>1, <1>2, FrontDrops, Zenon DEF LastActivated

LEMMA RemoveKeeps ==
    ASSUME IsHomes(nodeDirs), RestoreInv, RemoveActivated
    PROVE  IsHomes(nodeDirs') /\ RestoreInv'
  <1> DEFINE n == LastActivated
  <1>1. /\ restore.at = "undo" /\ restore.done # <<>> /\ RestoreTo("moveBack")
        /\ nodeDirs' = [nodeDirs EXCEPT ![n] = Absent]
    BY DEF RemoveActivated
  <1>2. /\ RestoreForm(restore) /\ Undone(restore, nodeDirs)
        /\ n \in Everybody /\ n \in Range(restore.done)
        /\ restore.backup[n] = restore.before[n]
    BY <1>1, LastIsActivated DEF Undoing
  <1> HIDE DEF n
  <1>3. Put(nodeDirs', nodeDirs, n, Absent)
    <2>1. Put([nodeDirs EXCEPT ![n] = Absent], nodeDirs, n, Absent)
      BY <1>2, HomesPut, Zenon
    <2>2. QED
      BY <1>1, <2>1
  <1>4. "moveBack" \in Undoing
    BY DEF Undoing
  <1>5. /\ RestoreForm(restore') /\ restore'.at = "moveBack" /\ restore'.done = restore.done
        /\ restore'.backup = restore.backup /\ restore'.before = restore.before
        /\ restore'.undone = restore.undone
    BY <1>1, <1>2, <1>4, MoveKeeps, Zenon
  <1>6. NoneLost(restore', nodeDirs')
    <2>1. \A m \in Everybody : m # n => restore.before[m] \in {nodeDirs'[m], restore.backup[m]}
      BY <1>2, <1>3, Zenon DEF Undone, NoneLost, Put
    <2>2. QED
      BY <1>2, <1>5, <2>1, Zenon DEF NoneLost
  <1>7. restore'.undone =>
            \A m \in Everybody \ Range(restore'.done) : nodeDirs'[m] = restore'.before[m]
    BY <1>2, <1>3, <1>5, Zenon DEF Undone, Put
  <1>8. Undone(restore', nodeDirs')
    BY <1>1, <1>2, <1>5, <1>6, <1>7, Zenon DEF Undone
  <1>9. RestoreOK(restore', nodeDirs')
    BY <1>4, <1>5, <1>8, UndoneIsOK, Zenon
  <1>10. QED
    BY <1>3, <1>9 DEF RestoreInv, Put

LEMMA MoveBackKeeps ==
    ASSUME IsHomes(nodeDirs), RestoreInv, MoveBack
    PROVE  IsHomes(nodeDirs') /\ RestoreInv'
  <1> DEFINE n == LastActivated
             d == SubSeq(restore.done, 1, Len(restore.done) - 1)
  <1>1. restore.at = "moveBack"
    BY DEF MoveBack
  <1>2. restore.at \in Undoing
    BY <1>1 DEF Undoing
  <1>3. RestoreForm(restore) /\ Undone(restore, nodeDirs) /\ restore.done # <<>>
    <2>1. RestoreForm(restore) /\ Undone(restore, nodeDirs)
      BY <1>2, StageIsKnown DEF RestoreInv, Undoing
    <2>2. QED
      BY <1>1, <2>1, Zenon DEF Undone
  <1>4. /\ n \in Everybody /\ n \in Range(restore.done) /\ restore.backup[n] = restore.before[n]
        /\ Distinct(d) /\ Range(d) = Range(restore.done) \ {n}
    BY <1>2, <1>3, LastIsActivated, Zenon
  <1>5. \/ /\ nodeDirs' = [nodeDirs EXCEPT ![n] = restore.backup[n]]
           /\ restore' = [restore EXCEPT !.at = "undo", !.done = d]
        \/ /\ nodeDirs' = nodeDirs
           /\ restore' = [restore EXCEPT !.at = "undo", !.done = d, !.undone = FALSE]
    BY Zenon DEF MoveBack
  <1> HIDE DEF n, d
  <1>6. DOMAIN restore = RestoreFields
    BY <1>3, Zenon DEF RestoreForm, HasFields
  <1>7. HasFields(restore', RestoreFields)
    BY <1>3, <1>5, Zenon DEF RestoreForm, HasFields
  <1>8. /\ restore'.at = "undo" /\ restore'.done = d
        /\ restore'.backup = restore.backup /\ restore'.before = restore.before
    <2>1. CASE restore' = [restore EXCEPT !.at = "undo", !.done = d]
      BY <1>6, <2>1, SMT DEF RestoreFields
    <2>2. CASE restore' = [restore EXCEPT !.at = "undo", !.done = d, !.undone = FALSE]
      BY <1>6, <2>2, SMT DEF RestoreFields
    <2>3. QED
      BY <1>5, <2>1, <2>2
  <1>9. restore'.at \in Undoing /\ restore'.at # "moveBack"
    BY <1>8 DEF Undoing
  <1>10. RestoreForm(restore')
    BY <1>3, <1>7, <1>8, <1>9, Zenon DEF RestoreForm
  <1>11. \A m \in Range(d) : restore.backup[m] = restore.before[m]
    BY <1>3, <1>4, Zenon DEF Undone
  <1>12. CASE /\ nodeDirs' = [nodeDirs EXCEPT ![n] = restore.backup[n]]
              /\ restore' = [restore EXCEPT !.at = "undo", !.done = d]
    <2>1. Put(nodeDirs', nodeDirs, n, restore.backup[n])
      <3>1. Put([nodeDirs EXCEPT ![n] = restore.backup[n]], nodeDirs, n, restore.backup[n])
        BY <1>4, HomesPut, Zenon
      <3>2. QED
        BY <1>12, <3>1
    <2>2. restore'.undone = restore.undone
      BY <1>6, <1>12, SMT DEF RestoreFields
    <2>3. nodeDirs'[n] = restore.before[n]
      BY <1>4, <2>1, Zenon DEF Put
    <2>4. NoneLost(restore', nodeDirs')
      <3>1. \A m \in Everybody : m # n => restore.before[m] \in {nodeDirs'[m], restore.backup[m]}
        BY <1>3, <2>1, Zenon DEF Undone, NoneLost, Put
      <3>2. QED
        BY <1>8, <2>3, <3>1, Zenon DEF NoneLost
    <2>5. ASSUME restore'.undone, NEW m \in Everybody \ Range(d)
          PROVE  nodeDirs'[m] = restore.before[m]
      <3>1. CASE m = n
        BY <2>3, <3>1
      <3>2. CASE m # n
        <4>1. m \notin Range(restore.done)
          BY <1>4, <2>5, <3>2, Zenon
        <4>2. nodeDirs[m] = restore.before[m]
          BY <1>3, <2>2, <2>5, <4>1, Zenon DEF Undone
        <4>3. QED
          BY <2>1, <3>2, <4>2, Zenon DEF Put
      <3>3. QED
        BY <3>1, <3>2
    <2>6. Undone(restore', nodeDirs')
      BY <1>4, <1>8, <1>9, <1>11, <2>4, <2>5, Zenon DEF Undone
    <2>7. RestoreOK(restore', nodeDirs')
      BY <1>9, <1>10, <2>6, UndoneIsOK
    <2>8. QED
      BY <2>1, <2>7 DEF RestoreInv, Put
  <1>13. CASE /\ nodeDirs' = nodeDirs
              /\ restore' = [restore EXCEPT !.at = "undo", !.done = d, !.undone = FALSE]
    <2>1. restore'.undone = FALSE
      BY <1>6, <1>13, SMT DEF RestoreFields
    <2>2. NoneLost(restore', nodeDirs')
      BY <1>3, <1>8, <1>13, Zenon DEF Undone, NoneLost
    <2>3. Undone(restore', nodeDirs')
      BY <1>4, <1>8, <1>9, <1>11, <2>1, <2>2, Zenon DEF Undone
    <2>4. RestoreOK(restore', nodeDirs')
      BY <1>9, <1>10, <2>3, UndoneIsOK
    <2>5. QED
      BY <1>13, <2>4 DEF RestoreInv
  <1>14. QED
    BY <1>5, <1>12, <1>13

\* RestoreRecoveryArchive: the homes are remembered as they are.
LEMMA RestoreBegins ==
    ASSUME IsHomes(nodeDirs), NEW a \in Archives, RestoreRecoveryArchive(a)
    PROVE  RestoreInv'
  <1>1. /\ restore' = [at |-> "verify", name |-> a, manifest |-> Absent, staged |-> Absent,
                       before |-> nodeDirs, backup |-> NoHomes, todo |-> <<>>, done |-> <<>>,
                       undone |-> TRUE]
        /\ nodeDirs' = nodeDirs
    BY DEF RestoreRecoveryArchive
  <1>2. HasFields(restore', RestoreFields)
    BY <1>1, SMT DEF HasFields, RestoreFields
  <1>3. /\ restore'.at = "verify" /\ restore'.name = a /\ restore'.before = nodeDirs
        /\ restore'.backup = NoHomes /\ restore'.done = <<>> /\ restore'.undone = TRUE
    BY <1>1, SMT
  <1>4. restore'.at \in Staging /\ restore'.at \notin {"verifyAgain", "extract", "validate"}
    BY <1>3 DEF Staging
  <1>5. RestoreForm(restore')
    BY <1>2, <1>3, <1>4, NoHomesAreHomes, Zenon DEF RestoreForm
  <1>6. Staged(restore', nodeDirs')
    BY <1>1, <1>3, <1>4 DEF Staged
  <1>7. RestoreOK(restore', nodeDirs')
    BY <1>4, <1>5, <1>6, StagedIsOK
  <1>8. QED
    BY <1>7 DEF RestoreInv

\* A capture that is disturbed promises nothing any more.
LEMMA DisturbedKeeps ==
    ASSUME CaptureInv,
           capture' = IF Capturing THEN [capture EXCEPT !.quiet = FALSE] ELSE NoCapture
    PROVE  CaptureInv'
  <1>1. CASE ~Capturing
    BY <1>1 DEF CaptureInv
  <1>2. CASE Capturing
    <2>1. capture' = [capture EXCEPT !.quiet = FALSE] /\ capture # NoCapture
      BY <1>2 DEF Capturing, NoCapture
    <2>2. HasFields(capture, CaptureFields)
      BY <2>1, Zenon DEF CaptureInv
    <2>3. DOMAIN capture = CaptureFields
      BY <2>2, Zenon DEF HasFields
    <2>4. HasFields(capture', CaptureFields)
      BY <2>1, <2>2, Zenon DEF HasFields
    <2>5. /\ capture'.at = capture.at /\ capture'.name = capture.name
          /\ capture'.scope = capture.scope /\ capture'.todo = capture.todo
          /\ capture'.files = capture.files /\ capture'.quiet = FALSE
      BY <2>1, <2>3, SMT DEF CaptureFields
    <2>6. QED
      BY <2>1, <2>4, <2>5, Zenon DEF CaptureInv
  <1>3. QED
    BY <1>1, <1>2

\* A capture during which a restore runs promises nothing, and one that is complete
\* keeps what it promises.
LEMMA OtherRestoreKeeps ==
    ASSUME CaptureInv, Restoring, capture' = capture
    PROVE  CaptureInv'
  <1>1. CASE capture = NoCapture
    BY <1>1 DEF CaptureInv
  <1>2. CASE capture # NoCapture
    <2>1. capture.quiet => capture.at = "captured" /\ StagedMatches(Manifest.files, Manifest)
      BY <1>2, Zenon DEF CaptureInv, Undisturbed
    <2>2. Manifest' = Manifest
      BY Zenon DEF Manifest
    <2>3. capture.quiet => StagedMatches(Manifest.files, Manifest)'
      BY <2>1, <2>2, Zenon
    <2>4. QED
      BY <1>2, <2>1, <2>3, Zenon DEF CaptureInv
  <1>3. QED
    BY <1>1, <1>2

\* Where neither the homes nor the commands change, their invariants stay.
LEMMA CaptureStays ==
    ASSUME CaptureInv, capture' = capture, nodeDirs' = nodeDirs, restore' = restore
    PROVE  CaptureInv'
  <1>1. Manifest' = Manifest
    BY Zenon DEF Manifest
  <1>2. StagedMatches(Manifest.files, Manifest)' = StagedMatches(Manifest.files, Manifest)
    BY <1>1, Zenon
  <1>3. Undisturbed' = Undisturbed
    BY Zenon DEF Undisturbed, Restoring
  <1>4. QED
    BY <1>2, <1>3, Zenon DEF CaptureInv

\* The vault holds an archive of a scope, or none, whoever writes to it.
LEMMA EntryPut ==
    ASSUME VaultInv, NEW a \in Archives, NEW e, HasFields(e, {"file", "sidecar"}),
           e.file = Absent \/ FileForm(e.file), vault' = [vault EXCEPT ![a] = e]
    PROVE  VaultInv'
  <1>1. HasFields(vault, Archives)
    BY Zenon DEF VaultInv
  <1>2. HasFields(vault', Archives)
    BY <1>1, Zenon DEF HasFields
  <1>3. vault'[a] = e /\ \A x \in Archives \ {a} : vault'[x] = vault[x]
    <2>1. DOMAIN vault = Archives
      BY <1>1, Zenon DEF HasFields
    <2>2. QED
      BY <2>1, Zenon
  <1>4. ASSUME NEW x \in Archives
        PROVE  /\ HasFields(vault'[x], {"file", "sidecar"})
               /\ vault'[x].file = Absent \/ FileForm(vault'[x].file)
    <2>1. CASE x = a
      BY <1>3, <2>1, Zenon
    <2>2. CASE x # a
      BY <1>3, <2>2, Zenon DEF VaultInv
    <2>3. QED
      BY <2>1, <2>2
  <1>5. QED
    BY <1>2, <1>4, Zenon DEF VaultInv

LEMMA FilePut ==
    ASSUME VaultInv, NEW a \in Archives, NEW f, f = Absent \/ FileForm(f),
           vault' = [vault EXCEPT ![a].file = f]
    PROVE  VaultInv'
  <1> DEFINE e == [vault[a] EXCEPT !.file = f]
  <1>1. HasFields(vault[a], {"file", "sidecar"})
    BY Zenon DEF VaultInv
  <1>2. DOMAIN vault[a] = {"file", "sidecar"}
    BY <1>1, Zenon DEF HasFields
  <1>3. HasFields(e, {"file", "sidecar"})
    BY <1>1, Zenon DEF HasFields
  <1>4. e.file = f
    BY <1>2, SMT
  <1>5. vault' = [vault EXCEPT ![a] = e]
    OBVIOUS
  <1> HIDE DEF e
  <1>6. QED
    BY <1>3, <1>4, <1>5, EntryPut, Zenon

LEMMA SidecarPut ==
    ASSUME VaultInv, NEW a \in Archives, NEW f, vault' = [vault EXCEPT ![a].sidecar = f]
    PROVE  VaultInv'
  <1> DEFINE e == [vault[a] EXCEPT !.sidecar = f]
  <1>1. HasFields(vault[a], {"file", "sidecar"}) /\ (vault[a].file = Absent \/ FileForm(vault[a].file))
    BY Zenon DEF VaultInv
  <1>2. DOMAIN vault[a] = {"file", "sidecar"}
    BY <1>1, Zenon DEF HasFields
  <1>3. HasFields(e, {"file", "sidecar"})
    BY <1>1, Zenon DEF HasFields
  <1>4. e.file = vault[a].file
    BY <1>2, SMT
  <1>5. vault' = [vault EXCEPT ![a] = e]
    OBVIOUS
  <1> HIDE DEF e
  <1>6. QED
    BY <1>1, <1>3, <1>4, <1>5, EntryPut, Zenon

LEMMA DeleteKeepsVault ==
    ASSUME VaultInv, NEW a \in Archives, Delete(a)
    PROVE  VaultInv'
  <1> DEFINE e == [file |-> Absent, sidecar |-> Absent]
  <1>1. HasFields(e, {"file", "sidecar"}) /\ e.file = Absent
    BY SMT DEF HasFields
  <1>2. vault' = [vault EXCEPT ![a] = e]
    BY DEF Delete
  <1> HIDE DEF e
  <1>3. QED
    BY <1>1, <1>2, EntryPut, Zenon

LEMMA RotKeepsVault ==
    ASSUME VaultInv, NEW a \in Archives, Rot(a)
    PROVE  VaultInv'
  <1> DEFINE rotten == [n \in DOMAIN vault[a].file.payload |-> <<0>>]
             f == [vault[a].file EXCEPT !.payload = rotten]
  <1>1. FileForm(vault[a].file)
    BY Zenon DEF VaultInv, Rot
  <1>2. HasFields(vault[a].file, {"manifest", "payload"}) /\ vault[a].file.manifest.scope \in Scopes
    BY <1>1, Zenon DEF FileForm
  <1>3. vault' = [vault EXCEPT ![a].file = f]
    BY DEF Rot
  <1> HIDE DEF rotten
  <1>4. HasFields(f, {"manifest", "payload"})
    BY <1>2, Zenon DEF HasFields
  <1>5. DOMAIN vault[a].file = {"manifest", "payload"}
    BY <1>2, Zenon DEF HasFields
  <1>6. f.manifest = vault[a].file.manifest
    BY <1>5, SMT
  <1> HIDE DEF f
  <1>7. FileForm(f)
    BY <1>2, <1>4, <1>6, Zenon DEF FileForm
  <1>8. QED
    BY <1>3, <1>7, FilePut, Zenon

\* What the capture publishes is made for its scope.
LEMMA PublishKeepsVault ==
    ASSUME VaultInv, CaptureInv, PublishArchive
    PROVE  VaultInv'
  <1> DEFINE f == [manifest |-> Manifest, payload |-> Manifest.files]
  <1>1. capture.scope \in Scopes /\ capture.name \in Archives
    <2>1. capture # NoCapture
      BY DEF PublishArchive, NoCapture
    <2>2. QED
      BY <2>1, Zenon DEF CaptureInv
  <1>2. Manifest.scope = capture.scope
    BY SMT DEF Manifest
  <1>3. HasFields(f, {"manifest", "payload"}) /\ f.manifest = Manifest
    BY SMT DEF HasFields
  <1>4. FileForm(f)
    BY <1>1, <1>2, <1>3, Zenon DEF FileForm
  <1>5. vault' = [vault EXCEPT ![capture.name].file = f]
    BY DEF PublishArchive
  <1> HIDE DEF f
  <1>6. QED
    BY <1>1, <1>4, <1>5, FilePut, Zenon

\* A capture that is under way is one of a scope, and what it has left to do is part
\* of it.
LEMMA CaptureIsKnown ==
    ASSUME CaptureInv, capture.at # "none"
    PROVE  /\ HasFields(capture, CaptureFields)
           /\ capture.at \in {"collect", "write", "publish", "sidecar", "captured"}
           /\ capture.scope \in Scopes /\ capture.name \in Archives
           /\ IsHomes(capture.files)
           /\ capture.at \in {"collect", "write"} =>
                /\ Distinct(capture.todo) /\ capture.todo # <<>>
                /\ Range(capture.todo) \subseteq Range(capture.scope)
           /\ capture.quiet =>
                IF capture.at = "captured" THEN StagedMatches(Manifest.files, Manifest)
                ELSE Undisturbed
  <1>1. capture # NoCapture
    BY DEF NoCapture
  <1>2. QED
    BY <1>1, Zenon DEF CaptureInv

\* CreateRecoveryArchive: what is inspected is what the homes are.
LEMMA CreateKeeps ==
    ASSUME NEW a \in Archives, NEW scope \in Scopes, CreateRecoveryArchive(a, scope)
    PROVE  CaptureInv'
  <1>1. /\ capture' = [at |-> "collect", name |-> a, scope |-> scope, todo |-> scope,
                       quiet |-> ~Restoring, seen |-> Inspected(nodeDirs, Range(scope)),
                       files |-> NoHomes, binary |-> build]
        /\ nodeDirs' = nodeDirs /\ restore' = restore /\ Agree(nodeDirs, Range(scope))
    BY DEF CreateRecoveryArchive
  <1>2. HasFields(capture', CaptureFields)
    <2>1. PICK quiet, seen :
              capture' = [at |-> "collect", name |-> a, scope |-> scope, todo |-> scope,
                          quiet |-> quiet, seen |-> seen, files |-> NoHomes, binary |-> build]
      BY <1>1, ZenonT(30)
    <2>2. DOMAIN capture' = CaptureFields
      BY <2>1, SMT DEF CaptureFields
    <2>3. capture' = [f \in DOMAIN capture' |-> capture'[f]]
      BY <2>1, Zenon
    <2>4. QED
      BY <2>2, <2>3, Zenon DEF HasFields
  <1>3. /\ capture'.at = "collect" /\ capture'.name = a /\ capture'.scope = scope
        /\ capture'.todo = scope /\ capture'.seen = Inspected(nodeDirs, Range(scope))
        /\ capture'.files = NoHomes
    BY <1>1, SMT
  <1>4. capture'.quiet = ~Restoring
    BY <1>1, Zenon
  <1>5. Distinct(scope) /\ scope # <<>>
    BY ScopeIsDistinct
  <1>6. capture'.quiet => Undisturbed'
    <2>1. Restoring' = Restoring
      BY <1>1, Zenon DEF Restoring
    <2>2. QED
      BY <1>1, <1>3, <1>4, <2>1, Zenon DEF Undisturbed
  <1>7. capture'.at # "captured"
    BY <1>3
  <1>8. QED
    BY <1>2, <1>3, <1>5, <1>6, <1>7, NoHomesAreHomes, Zenon DEF CaptureInv

LEMMA CollectKeeps ==
    ASSUME CaptureInv, CollectRecoveryPayload
    PROVE  CaptureInv'
  <1> DEFINE n == Head(capture.todo)
             one == Len(capture.todo) = 1
  <1>1. capture.at = "collect" /\ nodeDirs' = nodeDirs /\ restore' = restore
    BY DEF CollectRecoveryPayload, captureOnly
  <1>2. /\ HasFields(capture, CaptureFields)
        /\ capture.scope \in Scopes /\ capture.name \in Archives /\ IsHomes(capture.files)
        /\ Distinct(capture.todo) /\ capture.todo # <<>>
        /\ Range(capture.todo) \subseteq Range(capture.scope)
        /\ capture.quiet => Undisturbed
    BY <1>1, CaptureIsKnown
  <1>3. CASE CaptureFails
    BY <1>3 DEF CaptureFails, CaptureInv
  <1>4. ASSUME capture' = [capture EXCEPT !.files[n] = nodeDirs[n],
                               !.todo = IF Len(@) = 1 THEN capture.scope ELSE Tail(@),
                               !.at = IF Len(capture.todo) = 1 THEN "write" ELSE "collect"]
        PROVE  CaptureInv'
    <2> DEFINE files == [capture.files EXCEPT ![n] = nodeDirs[n]]
               todo == IF one THEN capture.scope ELSE Tail(capture.todo)
               at == IF one THEN "write" ELSE "collect"
    <2>1. n \in Everybody /\ n \in Range(capture.todo)
      BY <1>2, HeadIsIn, Zenon
    <2>2. Put(files, capture.files, n, nodeDirs[n])
      BY <1>2, <2>1, HomesPut, Zenon
    <2>3. Distinct(capture.scope) /\ capture.scope # <<>>
      BY <1>2, ScopeIsDistinct
    <2>4. /\ Distinct(Tail(capture.todo)) /\ Range(Tail(capture.todo)) = Range(capture.todo) \ {n}
          /\ (Tail(capture.todo) = <<>> <=> one)
      BY <1>2, TailDrops, TailOfOne, Zenon
    <2>5. /\ Distinct(todo) /\ todo # <<>> /\ Range(todo) \subseteq Range(capture.scope)
      BY <1>2, <2>3, <2>4, Zenon
    <2>6. one => Range(capture.todo) = {n}
      <3>1. one => Range(Tail(capture.todo)) = {}
        BY <2>4 DEF Range
      <3>2. QED
        BY <2>1, <2>4, <3>1, Zenon
    <2>7. at \in {"collect", "write"} /\ (at = "collect" <=> ~one)
      OBVIOUS
    <2>8. todo = Tail(capture.todo) \/ one
      BY Zenon
    <2>9. DOMAIN capture = CaptureFields
      BY <1>2, Zenon DEF HasFields
    <2>10. HasFields(capture', CaptureFields)
      BY <1>2, <1>4, Zenon DEF HasFields
    <2>11. capture' = [capture EXCEPT !.files = files, !.todo = todo, !.at = at]
      BY <1>4, Zenon
    <2> HIDE DEF files, todo, at, n, one
    <2>12. /\ capture'.at = at /\ capture'.name = capture.name /\ capture'.scope = capture.scope
           /\ capture'.todo = todo /\ capture'.seen = capture.seen /\ capture'.files = files
           /\ capture'.quiet = capture.quiet
      BY <2>9, <2>11, SMT DEF CaptureFields
    <2>13. at \in {"collect", "write", "publish", "sidecar", "captured"} /\ at # "captured"
      BY <2>7
    <2>14. ASSUME capture.quiet PROVE Undisturbed'
      <3> DEFINE names == Range(capture.scope)
      <3>1. /\ ~Restoring /\ Agree(nodeDirs, names) /\ capture.seen = Inspected(nodeDirs, names)
            /\ \A m \in names : m \in Range(capture.todo) \/ capture.files[m] = nodeDirs[m]
        BY <1>2, <2>14, Zenon DEF Undisturbed
      <3>2. ~Restoring'
        BY <1>1, <3>1, Zenon DEF Restoring
      <3>3. names \subseteq Everybody
        BY <2>3, NamesAreKnown, Zenon
      <3>4. ASSUME NEW m \in names
            PROVE  (at = "collect" /\ m \in Range(todo)) \/ files[m] = nodeDirs[m]
        <4>1. CASE m = n
          BY <2>2, <4>1, Zenon DEF Put
        <4>2. CASE m # n
          <5>1. files[m] = capture.files[m]
            BY <2>2, <3>3, <4>2, Zenon DEF Put
          <5>2. m \in Range(capture.todo) => at = "collect" /\ m \in Range(todo)
            BY <2>4, <2>6, <2>7, <2>8, <4>2, Zenon
          <5>3. QED
            BY <3>1, <5>1, <5>2, Zenon
        <4>3. QED
          BY <4>1, <4>2
      <3>5. QED
        BY <1>1, <2>12, <3>1, <3>2, <3>4, Zenon DEF Undisturbed
    <2>15. QED
      BY <1>2, <2>2, <2>5, <2>7, <2>10, <2>12, <2>13, <2>14, Zenon DEF CaptureInv, Put
  <1>5. QED
    BY <1>3, <1>4, Zenon DEF CollectRecoveryPayload

\* A capture that has read every file goes on with what it has read.
LEMMA NextStageKeeps ==
    ASSUME CaptureInv, capture.at \in {"write", "publish"},
           NEW at \in {"write", "publish", "sidecar"}, NEW todo,
           capture' = [capture EXCEPT !.todo = todo, !.at = at],
           at = "write" => /\ Distinct(todo) /\ todo # <<>>
                           /\ Range(todo) \subseteq Range(capture.scope),
           nodeDirs' = nodeDirs, restore' = restore
    PROVE  CaptureInv'
  <1>1. capture.at # "none" /\ capture.at # "captured" /\ capture.at # "collect"
    OBVIOUS
  <1>2. /\ HasFields(capture, CaptureFields)
        /\ capture.scope \in Scopes /\ capture.name \in Archives /\ IsHomes(capture.files)
        /\ capture.quiet => Undisturbed
    BY <1>1, CaptureIsKnown
  <1>3. DOMAIN capture = CaptureFields
    BY <1>2, Zenon DEF HasFields
  <1>4. HasFields(capture', CaptureFields)
    BY <1>2, Zenon DEF HasFields
  <1>5. /\ capture'.at = at /\ capture'.name = capture.name /\ capture'.scope = capture.scope
        /\ capture'.todo = todo /\ capture'.seen = capture.seen
        /\ capture'.files = capture.files /\ capture'.quiet = capture.quiet
    BY <1>3, SMT DEF CaptureFields
  <1>6. /\ at \in {"collect", "write", "publish", "sidecar", "captured"} /\ at # "captured"
        /\ at \in {"collect", "write"} => at = "write"
    OBVIOUS
  <1>7. ASSUME capture.quiet PROVE Undisturbed'
    <2>1. ~Restoring'
      BY <1>2, <1>7, Zenon DEF Undisturbed, Restoring
    <2>2. \A m \in Range(capture.scope) : capture.files[m] = nodeDirs[m]
      BY <1>1, <1>2, <1>7, Zenon DEF Undisturbed
    <2>3. Agree(nodeDirs, Range(capture.scope)) /\ capture.seen = Inspected(nodeDirs, Range(capture.scope))
      BY <1>2, <1>7, Zenon DEF Undisturbed
    <2>4. QED
      BY <1>5, <2>1, <2>2, <2>3, Zenon DEF Undisturbed
  <1>8. QED
    BY <1>2, <1>4, <1>5, <1>6, <1>7, Zenon DEF CaptureInv

LEMMA WriteKeeps ==
    ASSUME CaptureInv, WriteRecoveryFile
    PROVE  CaptureInv'
  <1>1. capture.at = "write" /\ nodeDirs' = nodeDirs /\ restore' = restore
    BY DEF WriteRecoveryFile, captureOnly
  <1>2. CASE CaptureFails
    BY <1>2 DEF CaptureFails, CaptureInv
  <1>3. ASSUME capture' = [capture EXCEPT !.todo = Tail(@),
                               !.at = IF Len(capture.todo) = 1 THEN "publish" ELSE "write"]
        PROVE  CaptureInv'
    <2> DEFINE todo == Tail(capture.todo)
               at == IF Len(capture.todo) = 1 THEN "publish" ELSE "write"
    <2>1. /\ Distinct(capture.todo) /\ capture.todo # <<>>
          /\ Range(capture.todo) \subseteq Range(capture.scope)
      BY <1>1, CaptureIsKnown
    <2>2. /\ Distinct(todo) /\ Range(todo) \subseteq Range(capture.scope)
          /\ (Len(capture.todo) # 1 => todo # <<>>)
      BY <2>1, TailDrops, TailOfOne, Zenon
    <2>3. at \in {"write", "publish", "sidecar"} /\ (at = "write" => Len(capture.todo) # 1)
      OBVIOUS
    <2>4. capture' = [capture EXCEPT !.todo = todo, !.at = at]
      BY <1>3, Zenon
    <2> HIDE DEF todo, at
    <2>5. capture.at \in {"write", "publish"}
      BY <1>1
    <2>6. QED
      BY <1>1, <2>2, <2>3, <2>4, <2>5, NextStageKeeps, Zenon
  <1>4. QED
    BY <1>2, <1>3, Zenon DEF WriteRecoveryFile

LEMMA PublishKeeps ==
    ASSUME CaptureInv, PublishArchive
    PROVE  CaptureInv'
  <1>1. /\ capture.at = "publish" /\ capture' = [capture EXCEPT !.at = "sidecar"]
        /\ nodeDirs' = nodeDirs /\ restore' = restore
    BY DEF PublishArchive, captureOnly
  <1>2. HasFields(capture, CaptureFields)
    BY <1>1, CaptureIsKnown
  <1>3. capture' = [capture EXCEPT !.todo = capture.todo, !.at = "sidecar"]
    BY <1>1, <1>2, Zenon DEF HasFields
  <1>4. capture.at \in {"write", "publish"} /\ "sidecar" \in {"write", "publish", "sidecar"}
    BY <1>1
  <1>5. QED
    BY <1>1, <1>3, <1>4, NextStageKeeps, Zenon

\* The sidecar completes the snapshot: what an undisturbed capture has read matches
\* what it inspected.
LEMMA SidecarKeeps ==
    ASSUME CaptureInv, WriteRecoverySidecar
    PROVE  CaptureInv'
  <1>1. /\ capture.at = "sidecar" /\ capture' = [capture EXCEPT !.at = "captured"]
        /\ nodeDirs' = nodeDirs /\ restore' = restore
    BY DEF WriteRecoverySidecar, captureOnly
  <1>2. /\ HasFields(capture, CaptureFields)
        /\ capture.scope \in Scopes /\ capture.name \in Archives /\ IsHomes(capture.files)
        /\ capture.quiet => Undisturbed
    BY <1>1, CaptureIsKnown
  <1>3. DOMAIN capture = CaptureFields
    BY <1>2, Zenon DEF HasFields
  <1>4. HasFields(capture', CaptureFields)
    BY <1>1, <1>2, Zenon DEF HasFields
  <1>5. /\ capture'.at = "captured" /\ capture'.name = capture.name
        /\ capture'.scope = capture.scope /\ capture'.seen = capture.seen
        /\ capture'.files = capture.files /\ capture'.quiet = capture.quiet
        /\ capture'.binary = capture.binary
    BY <1>1, <1>3, SMT DEF CaptureFields
  <1>6. ASSUME capture.quiet PROVE StagedMatches(Manifest.files, Manifest)'
    <2> DEFINE names == Range(capture.scope)
               files == [n \in names |-> capture.files[n]]
    <2>1. Manifest' = Manifest
      BY <1>5, Zenon DEF Manifest
    <2>2. /\ Manifest.scope = capture.scope /\ Manifest.nodes = capture.seen.nodes
          /\ Manifest.chain = capture.seen.chain /\ Manifest.files = files
      BY SMT DEF Manifest
    <2>3. capture.at # "collect"
      BY <1>1
    <2>4. /\ Agree(nodeDirs, names) /\ capture.seen = Inspected(nodeDirs, names)
          /\ \A m \in names : capture.files[m] = nodeDirs[m]
      BY <1>2, <1>6, <2>3, Zenon DEF Undisturbed
    <2>5. \A m \in names : nodeDirs[m] = files[m]
      BY <2>4, Zenon
    <2>6. names # {}
      <3>1. Distinct(capture.scope) /\ capture.scope # <<>>
        BY <1>2, ScopeIsDistinct
      <3>2. QED
        BY <3>1, HeadIsIn, Zenon
    <2> HIDE DEF files, names
    <2>7. Agree(files, names) /\ Inspected(files, names) = capture.seen
      BY <2>4, <2>5, <2>6, SameInspection, Zenon
    <2>8. capture.seen = [nodes |-> capture.seen.nodes, chain |-> capture.seen.chain]
      <3>1. PICK nodes, chain : capture.seen = [nodes |-> nodes, chain |-> chain]
        BY <2>4, Zenon DEF Inspected
      <3>2. capture.seen.nodes = nodes /\ capture.seen.chain = chain
        BY <3>1, SMT
      <3>3. QED
        BY <3>1, <3>2, Zenon
    <2>9. names = Range(Manifest.scope)
      BY <2>2 DEF names
    <2>10. StagedMatches(Manifest.files, Manifest)
      BY <2>2, <2>7, <2>8, <2>9, Zenon DEF StagedMatches
    <2>11. QED
      BY <2>1, <2>10, Zenon
  <1>7. "captured" \in {"collect", "write", "publish", "sidecar", "captured"} /\ "captured" \notin {"collect", "write"}
    OBVIOUS
  <1>8. QED
    BY <1>2, <1>4, <1>5, <1>6, <1>7, Zenon DEF CaptureInv

LEMMA RecoveryStarts ==
    ASSUME RecoveryInit
    PROVE  RecoveryInv
  <1>1. IsHomes(nodeDirs)
    BY Zenon DEF RecoveryInit, IsHomes
  <1>2. VaultInv
    <2> DEFINE e == [file |-> Absent, sidecar |-> Absent]
    <2>1. HasFields(e, {"file", "sidecar"}) /\ e.file = Absent
      BY SMT DEF HasFields
    <2>2. vault = [a \in Archives |-> e]
      BY SMTT(30) DEF RecoveryInit
    <2> HIDE DEF e
    <2>3. QED
      BY <2>1, <2>2, Zenon DEF VaultInv, HasFields
  <1>3. CaptureInv /\ RestoreInv
    BY DEF RecoveryInit, CaptureInv, RestoreInv, RestoreOK
  <1>4. QED
    BY <1>1, <1>2, <1>3 DEF RecoveryInv

\* A node that commits: nothing is being restored, and a capture is disturbed.
LEMMA CommitKeeps ==
    ASSUME RecoveryInv, NEW n \in Everybody, CommitHome(n)
    PROVE  RecoveryInv'
  <1>1. /\ IsHomes(nodeDirs) /\ VaultInv /\ CaptureInv
        /\ capture' = IF Capturing THEN [capture EXCEPT !.quiet = FALSE] ELSE NoCapture
        /\ restore' = NoRestore /\ vault' = vault
    BY DEF RecoveryInv, CommitHome
  <1>2. PICK block \in 1 .. minted + 1 : nodeDirs' = [nodeDirs EXCEPT ![n] = Append(nodeDirs[n], block)]
    BY Zenon DEF CommitHome
  <1> DEFINE v == Append(nodeDirs[n], block)
  <1> HIDE DEF v
  <1>3. IsHomes(nodeDirs')
    <2>1. Put([nodeDirs EXCEPT ![n] = v], nodeDirs, n, v)
      BY <1>1, HomesPut, Zenon
    <2>2. QED
      BY <1>2, <2>1 DEF Put, v
  <1>4. CaptureInv'
    BY <1>1, DisturbedKeeps
  <1>5. VaultInv'
    BY <1>1 DEF VaultInv
  <1>6. RestoreInv'
    BY <1>1 DEF RestoreInv, RestoreOK, NoRestore
  <1>7. QED
    BY <1>3, <1>4, <1>5, <1>6 DEF RecoveryInv

\* The steps of a restore.
RestoreStep ==
    \/ VerifyRecoverySidecar \/ InspectRecoveryArchive \/ Extract \/ ValidateStagedRecovery
    \/ RestoreErrs \/ Preserve \/ Activate \/ PreserveFails \/ ActivateFails
    \/ RemoveActivated \/ MoveBack \/ RolledBack \/ KillRestore

LEMMA RestoreStepKeeps ==
    ASSUME RecoveryInv, RestoreStep
    PROVE  RecoveryInv'
  <1>1. IsHomes(nodeDirs) /\ VaultInv /\ CaptureInv /\ RestoreInv
    BY DEF RecoveryInv
  <1>2. vault' = vault /\ capture' = capture
    BY Zenon DEF RestoreStep, VerifyRecoverySidecar, InspectRecoveryArchive, Extract,
       ValidateStagedRecovery, RestoreErrs, Preserve, Activate, PreserveFails, ActivateFails,
       RemoveActivated, MoveBack, RolledBack, KillRestore, restoreOnly, swapOnly
  <1>3. Restoring
    <2>1. CASE KillRestore
      BY <2>1 DEF KillRestore
    <2>2. CASE ~KillRestore
      <3>1. restore.at \in {"verify", "verifyAgain", "inspect", "extract", "validate", "preserve",
                            "activate", "undo", "moveBack"}
        BY <2>2, SMT DEF RestoreStep, VerifyRecoverySidecar, InspectRecoveryArchive, Extract,
           ValidateStagedRecovery, RestoreErrs, Preserve, Activate, PreserveFails,
           ActivateFails, RemoveActivated, MoveBack, RolledBack
      <3>2. QED
        BY <3>1 DEF Restoring, Ends
    <2>3. QED
      BY <2>1, <2>2
  <1>4. CaptureInv'
    BY <1>1, <1>2, <1>3, OtherRestoreKeeps
  <1>5. VaultInv'
    BY <1>1, <1>2 DEF VaultInv
  <1>6. IsHomes(nodeDirs') /\ RestoreInv'
    <2>1. CASE VerifyRecoverySidecar
      BY <1>1, <2>1, VerifyKeeps DEF VerifyRecoverySidecar, restoreOnly
    <2>2. CASE InspectRecoveryArchive
      BY <1>1, <2>2, InspectKeeps DEF InspectRecoveryArchive, restoreOnly
    <2>3. CASE Extract
      BY <1>1, <2>3, ExtractKeeps DEF Extract, restoreOnly
    <2>4. CASE ValidateStagedRecovery
      BY <1>1, <2>4, ValidateKeeps DEF ValidateStagedRecovery, restoreOnly
    <2>5. CASE RestoreErrs
      BY <1>1, <2>5, FailKeeps DEF RestoreErrs, restoreOnly, Staging
    <2>6. CASE Preserve
      BY <1>1, <2>6, PreserveKeeps
    <2>7. CASE Activate
      BY <1>1, <2>7, ActivateKeeps
    <2>8. CASE PreserveFails
      BY <1>1, <2>8, PreserveFailsKeeps DEF PreserveFails
    <2>9. CASE ActivateFails
      BY <1>1, <2>9, ActivateFailsKeeps
    <2>10. CASE RemoveActivated
      BY <1>1, <2>10, RemoveKeeps
    <2>11. CASE MoveBack
      BY <1>1, <2>11, MoveBackKeeps
    <2>12. CASE RolledBack
      BY <1>1, <2>12, RolledBackKeeps DEF RolledBack, restoreOnly
    <2>13. CASE KillRestore
      BY <1>1, <2>13, KillKeeps DEF KillRestore, restoreOnly
    <2>14. QED
      BY <2>1, <2>2, <2>3, <2>4, <2>5, <2>6, <2>7, <2>8, <2>9, <2>10, <2>11, <2>12, <2>13,
         Zenon DEF RestoreStep
  <1>7. QED
    BY <1>4, <1>5, <1>6 DEF RecoveryInv

\* The steps of a capture, and what happens to an archive or the binary meanwhile.
CaptureStep ==
    \/ UpgradeBinary
    \/ \E a \in Archives : \/ Rot(a) \/ Delete(a)
                           \/ \E scope \in Scopes : CreateRecoveryArchive(a, scope)
    \/ CollectRecoveryPayload \/ WriteRecoveryFile \/ PublishArchive
    \/ WriteRecoverySidecar \/ SidecarFails \/ KillCapture

LEMMA CaptureStepKeeps ==
    ASSUME RecoveryInv, CaptureStep
    PROVE  RecoveryInv'
  <1>1. IsHomes(nodeDirs) /\ VaultInv /\ CaptureInv /\ RestoreInv
    BY DEF RecoveryInv
  <1>2. nodeDirs' = nodeDirs /\ restore' = restore
    BY Zenon DEF CaptureStep, UpgradeBinary, Rot, Delete, CreateRecoveryArchive,
       CollectRecoveryPayload, WriteRecoveryFile, PublishArchive, WriteRecoverySidecar,
       SidecarFails, KillCapture, captureOnly
  <1>3. IsHomes(nodeDirs') /\ RestoreInv'
    BY <1>1, <1>2 DEF RestoreInv
  <1>4. VaultInv' /\ CaptureInv'
    <2>1. CASE UpgradeBinary
      <3>1. vault' = vault /\ capture' = capture
        BY <2>1 DEF UpgradeBinary
      <3>2. QED
        BY <1>1, <1>2, <3>1, CaptureStays DEF VaultInv
    <2>2. ASSUME NEW a \in Archives, Rot(a) PROVE VaultInv' /\ CaptureInv'
      <3>1. capture' = capture
        BY <2>2 DEF Rot
      <3>2. QED
        BY <1>1, <1>2, <2>2, <3>1, CaptureStays, RotKeepsVault
    <2>3. ASSUME NEW a \in Archives, Delete(a) PROVE VaultInv' /\ CaptureInv'
      <3>1. capture' = capture
        BY <2>3 DEF Delete
      <3>2. QED
        BY <1>1, <1>2, <2>3, <3>1, CaptureStays, DeleteKeepsVault
    <2>4. ASSUME NEW a \in Archives, NEW scope \in Scopes, CreateRecoveryArchive(a, scope)
          PROVE  VaultInv' /\ CaptureInv'
      <3>1. vault' = vault
        BY <2>4 DEF CreateRecoveryArchive
      <3>2. CaptureInv'
        BY <2>4, CreateKeeps
      <3>3. QED
        BY SMTT(30), <1>1, <3>1, <3>2 DEF VaultInv
    <2>5. CASE CollectRecoveryPayload
      <3>1. vault' = vault
        BY <2>5 DEF CollectRecoveryPayload
      <3>2. QED
        BY <1>1, <2>5, <3>1, CollectKeeps DEF VaultInv
    <2>6. CASE WriteRecoveryFile
      <3>1. vault' = vault
        BY <2>6 DEF WriteRecoveryFile
      <3>2. QED
        BY <1>1, <2>6, <3>1, WriteKeeps DEF VaultInv
    <2>7. CASE PublishArchive
      BY <1>1, <2>7, PublishKeepsVault, PublishKeeps
    <2>8. CASE WriteRecoverySidecar
      <3> DEFINE f == [manifest |-> Manifest, payload |-> Manifest.files]
      <3>1. vault' = [vault EXCEPT ![capture.name].sidecar = f] /\ capture.at = "sidecar"
        BY <2>8 DEF WriteRecoverySidecar
      <3> HIDE DEF f
      <3>2. capture.name \in Archives
        BY <1>1, <3>1, CaptureIsKnown
      <3>3. VaultInv'
        BY <1>1, <3>1, <3>2, SidecarPut, Zenon
      <3>4. QED
        BY <1>1, <2>8, <3>3, SidecarKeeps
    <2>9. CASE SidecarFails
      <3>1. /\ vault' = [vault EXCEPT ![capture.name].file = Absent] /\ capture.at = "sidecar"
            /\ capture' = NoCapture
        BY <2>9 DEF SidecarFails, CaptureFails
      <3>2. capture.name \in Archives
        BY <1>1, <3>1, CaptureIsKnown
      <3>3. VaultInv'
        BY <1>1, <3>1, <3>2, FilePut, Zenon
      <3>4. QED
        BY <3>1, <3>3 DEF CaptureInv, NoCapture
    <2>10. CASE KillCapture
      <3>1. vault' = vault /\ capture' = NoCapture
        BY <2>10 DEF KillCapture, CaptureFails
      <3>2. QED
        BY <1>1, <3>1 DEF VaultInv, CaptureInv, NoCapture
    <2>11. QED
      BY <2>1, <2>2, <2>3, <2>4, <2>5, <2>6, <2>7, <2>8, <2>9, <2>10, Zenon DEF CaptureStep
  <1>5. QED
    BY <1>3, <1>4 DEF RecoveryInv

LEMMA RecoveryStepKeeps ==
    ASSUME RecoveryInv, [RecoveryNext]_recoveryVars
    PROVE  RecoveryInv'
  <1>1. CASE UNCHANGED recoveryVars
    <2>1. /\ nodeDirs' = nodeDirs /\ vault' = vault /\ capture' = capture /\ restore' = restore
      BY <1>1 DEF recoveryVars
    <2>2. IsHomes(nodeDirs) /\ VaultInv /\ CaptureInv /\ RestoreInv
      BY DEF RecoveryInv
    <2>3. CaptureInv'
      BY <2>1, <2>2, CaptureStays
    <2>4. QED
      BY <2>1, <2>2, <2>3 DEF RecoveryInv, VaultInv, RestoreInv
  <1>2. ASSUME NEW a \in Archives, RestoreRecoveryArchive(a) PROVE RecoveryInv'
    <2>1. /\ IsHomes(nodeDirs) /\ VaultInv /\ CaptureInv
      BY DEF RecoveryInv
    <2>2. /\ nodeDirs' = nodeDirs /\ vault' = vault
          /\ capture' = IF Capturing THEN [capture EXCEPT !.quiet = FALSE] ELSE NoCapture
      BY <1>2 DEF RestoreRecoveryArchive
    <2>3. RestoreInv'
      BY <1>2, <2>1, RestoreBegins
    <2>4. CaptureInv'
      BY <2>1, <2>2, DisturbedKeeps
    <2>5. QED
      BY <2>1, <2>2, <2>3, <2>4 DEF RecoveryInv, VaultInv
  <1>3. CASE \E n \in Everybody : CommitHome(n)
    BY <1>3, CommitKeeps
  <1>4. CASE CaptureStep
    BY <1>4, CaptureStepKeeps
  <1>5. CASE RestoreStep
    BY <1>5, RestoreStepKeeps
  <1>6. QED
    BY <1>1, <1>2, <1>3, <1>4, <1>5, Zenon DEF RecoveryNext, CaptureStep, RestoreStep

\* The invariant is what the commands promise.
LEMMA RecoveryIsHeld ==
    ASSUME RecoveryInv
    PROVE  RecoveryHolds
  <1>1. RestoreOK(restore, nodeDirs) /\ CaptureInv
    BY DEF RecoveryInv, RestoreInv
  <1>2. RestoredIsTheSnapshot
    <2> SUFFICES ASSUME restore.at = "restored" PROVE RestoredIsTheSnapshot
      BY DEF RestoredIsTheSnapshot
    <2> DEFINE names == Range(restore.manifest.scope)
    <2>1. Validated(restore) /\ Activated(restore, nodeDirs)
      BY <1>1, StageIsKnown
    <2>2. /\ \A n \in names : nodeDirs[n] = restore.staged[n]
          /\ \A n \in Everybody \ names : nodeDirs[n] = restore.before[n]
          /\ restore.staged = restore.manifest.files
          /\ Agree(restore.staged, names)
          /\ Inspected(restore.staged, names) =
                [nodes |-> restore.manifest.nodes, chain |-> restore.manifest.chain]
      BY <2>1, Zenon DEF Validated, Activated, StagedMatches
    <2>3. names # {}
      <3>1. Distinct(restore.manifest.scope) /\ restore.manifest.scope # <<>>
        BY <2>1, ScopeIsDistinct DEF Validated
      <3>2. QED
        BY <3>1, HeadIsIn, Zenon
    <2>4. \A n \in names : restore.staged[n] = nodeDirs[n]
      BY <2>2, Zenon
    <2>5. Agree(nodeDirs, names) /\ Inspected(nodeDirs, names) = Inspected(restore.staged, names)
      <3> HIDE DEF names
      <3>1. QED
        BY <2>2, <2>3, <2>4, SameInspection, Zenon
    <2>6. QED
      BY <2>2, <2>5, Zenon DEF RestoredIsTheSnapshot
  <1>3. FailedIsUntouched
    BY <1>1, StageIsKnown DEF FailedIsUntouched
  <1>4. NothingIsLost
    <2> SUFFICES ASSUME restore.at \notin {"none", "restored"},
                        restore.undone \/ restore.at # "failed"
                 PROVE  NoneLost(restore, nodeDirs)
      BY Zenon DEF NothingIsLost, NoneLost
    <2>1. CASE restore.at = "failed"
      <3>1. nodeDirs = restore.before
        BY <1>1, <2>1, StageIsKnown
      <3>2. QED
        BY <3>1, Zenon DEF NoneLost
    <2>2. CASE restore.at = "crashed"
      BY <1>1, <2>2, StageIsKnown
    <2>3. CASE restore.at \notin Ends \cup {"none"}
      BY <1>1, <2>3, RestoringLosesNothing
    <2>4. QED
      BY <2>1, <2>2, <2>3 DEF Ends
  <1>5. QuietCaptureIsRestorable
    BY <1>1, CaptureIsKnown DEF QuietCaptureIsRestorable
  <1>6. QED
    BY <1>2, <1>3, <1>4, <1>5 DEF RecoveryHolds

\* torium-localnet-state: a restore puts back the snapshot its manifest names, or fails
\* and leaves the homes as they were unless a rename fails while it is undone; when it
\* is killed every home is in its place or in the backup; and a snapshot taken while
\* nothing ran can be restored.  For any validators, archives and bounds.
THEOREM RecoveryIsSafe == RecoverySpec => []RecoveryHolds
  <1>1. RecoveryInit => RecoveryInv
    BY RecoveryStarts
  <1>2. RecoveryInv /\ [RecoveryNext]_recoveryVars => RecoveryInv'
    BY RecoveryStepKeeps
  <1>3. RecoveryInv => RecoveryHolds
    BY RecoveryIsHeld
  <1>4. QED
    BY <1>1, <1>2, <1>3, PTL DEF RecoverySpec
=============================================================================
