--------------------------- MODULE FaucetJournal ---------------------------
(***************************************************************************)
(* The hash-chained journal file, publicfaucet/journal.go, on a disk that  *)
(* can fail a write part-way, fail a sync, and lose what was not synced    *)
(* when the machine stops.                                                 *)
(*                                                                         *)
(* The file is a sequence of pieces: a whole encoded entry, a fragment of  *)
(* one, a newline.  SHA-256 is taken to be injective, so the hash of an    *)
(* entry is the entry's content, its own prevHash included.                *)
(***************************************************************************)
EXTENDS Integers, Sequences

CONSTANTS Payloads,    \* what an entry says: type, time and payload
          MaxAppends,  \* bound: calls of Append
          MaxErrors,   \* bound: failed writes and syncs
          MaxCrashes   \* bound: crashes

ASSUME JournalAssumption ==
    /\ MaxAppends \in Nat
    /\ MaxErrors \in Nat
    /\ MaxCrashes \in Nat

VARIABLES file,      \* the pieces the process sees in the file
          synced,    \* how many of them the disk is known to hold
          status,    \* "down", "open", "syncing" or "refused"
          sequence,  \* journal.sequence
          lastHash,  \* journal.lastHash
          entries,   \* the entries replayed, then those Append returned
          appends, errors, crashes

counters == <<appends, errors, crashes>>
journalVars == <<file, synced, status, sequence, lastHash, entries, counters>>

GenesisHash == <<>>

\* entryHash: everything but the hash itself.
EntryHash(seq, payload, prev) == <<seq, payload, prev>>

Encoded(seq, payload, prev) ==
    [piece |-> "entry", seq |-> seq, payload |-> payload, prev |-> prev]

Newline == [piece |-> "newline"]

Fragment == [piece |-> "fragment"]

HashOf(e) == EntryHash(e.seq, e.payload, e.prev)
-----------------------------------------------------------------------------
(* ReadJournal. *)

\* Every line is one JSON object: an entry and its newline by turns, the last newline
\* possibly missing, since the scanner also returns a last line without one.  With a
\* fragment, a second entry or nothing on a line, json.Unmarshal fails.
LinesAreObjects(f) ==
    \A n \in 1 .. Len(f) :
        /\ 2 * n - 1 <= Len(f) => f[2 * n - 1].piece = "entry"
        /\ 2 * n <= Len(f) => f[2 * n] = Newline

\* Mutant: the last line is not read.
ReplayDropsLast(f) == [n \in 1 .. (Len(f) - 1) \div 2 |-> f[2 * n - 1]]

\* The entries ReadJournal returns, one for each line.
Replay(f) == [n \in 1 .. (Len(f) + 1) \div 2 |-> f[2 * n - 1]]

\* Every line has its own number as sequence number and carries the hash of the line
\* before it.
Verifies(f) ==
    /\ LinesAreObjects(f)
    /\ \A n \in DOMAIN Replay(f) :
        /\ Replay(f)[n].seq = n
        /\ Replay(f)[n].prev = IF n = 1 THEN GenesisHash ELSE HashOf(Replay(f)[n - 1])

-----------------------------------------------------------------------------
JournalInit ==
    /\ file = <<>>
    /\ synced = 0
    /\ status = "down"
    /\ sequence = 0
    /\ lastHash = GenesisHash
    /\ entries = <<>>
    /\ appends = 0
    /\ errors = 0
    /\ crashes = 0

\* OpenJournal on a journal that verifies.  Sequence and last hash are those
\* of the last entry.
OpenJournal ==
    /\ status = "down"
    /\ Verifies(file)
    /\ status' = "open"
    /\ entries' = Replay(file)
    /\ sequence' = Len(Replay(file))
    /\ lastHash' = IF Replay(file) = <<>> THEN GenesisHash
                   ELSE HashOf(Replay(file)[Len(Replay(file))])
    /\ UNCHANGED <<file, synced, counters>>

\* OpenJournal on any other: the service does not start.
Refuse ==
    /\ status = "down"
    /\ ~Verifies(file)
    /\ status' = "refused"
    /\ UNCHANGED <<file, synced, sequence, lastHash, entries, counters>>

\* Append calls Write with the encoded entry and its newline.
StartWrite ==
    /\ status = "open"
    /\ appends < MaxAppends
    /\ appends' = appends + 1
    /\ \E p \in Payloads :
        file' = file \o <<Encoded(sequence + 1, p, lastHash), Newline>>
    /\ status' = "syncing"
    /\ UNCHANGED <<synced, sequence, lastHash, entries, errors, crashes>>

\* Write failed after some of the bytes: Append returns the error.
WriteFails ==
    /\ status = "open"
    /\ appends < MaxAppends
    /\ errors < MaxErrors
    /\ appends' = appends + 1
    /\ errors' = errors + 1
    /\ \E p \in Payloads :
        \E written \in {<<>>, <<Fragment>>, <<Encoded(sequence + 1, p, lastHash)>>} :
            file' = file \o written
    /\ UNCHANGED <<synced, status, sequence, lastHash, entries, crashes>>

\* Mutant: Append returns without Sync.
SyncSkipped ==
    /\ status = "syncing"
    /\ LET e == file[Len(file) - 1]
       IN /\ sequence' = e.seq
          /\ lastHash' = HashOf(e)
          /\ entries' = Append(entries, e)
    /\ status' = "open"
    /\ UNCHANGED <<file, synced, counters>>

\* Sync succeeded: only now does the journal move on.
SyncDone ==
    /\ status = "syncing"
    /\ synced' = Len(file)
    /\ LET e == file[Len(file) - 1]
       IN /\ sequence' = e.seq
          /\ lastHash' = HashOf(e)
          /\ entries' = Append(entries, e)
    /\ status' = "open"
    /\ UNCHANGED <<file, counters>>

\* Sync failed: Append returns the error, the bytes stay in the file.
SyncFails ==
    /\ status = "syncing"
    /\ errors < MaxErrors
    /\ errors' = errors + 1
    /\ status' = "open"
    /\ UNCHANGED <<file, synced, sequence, lastHash, entries, appends, crashes>>

\* What may be left of a file whose first n pieces were synced: any longer
\* prefix, the last piece of it possibly cut short.
Remains(f, n) ==
    {SubSeq(f, 1, i) : i \in n..Len(f)}
        \cup {Append(SubSeq(f, 1, i), Fragment) :
                i \in {j \in n..(Len(f) - 1) : f[j + 1].piece # "newline"}}

\* The machine or the process stops, at any point.
Crash ==
    /\ status \in {"open", "syncing"}
    /\ crashes < MaxCrashes
    /\ crashes' = crashes + 1
    /\ file' \in Remains(file, synced)
    /\ synced' = Len(file')
    /\ status' = "down"
    /\ sequence' = 0
    /\ lastHash' = GenesisHash
    /\ UNCHANGED <<entries, appends, errors>>

JournalNext ==
    \/ OpenJournal
    \/ Refuse
    \/ StartWrite
    \/ WriteFails
    \/ SyncDone
    \/ SyncFails
    \/ Crash

JournalSpec == JournalInit /\ [][JournalNext]_journalVars
-----------------------------------------------------------------------------
(* Properties. *)

\* A restart that succeeds returns every entry an earlier Append returned, in
\* order, and at most one more: the entry of an Append that had not returned
\* success.  A failed or interrupted Append never makes a later start drop,
\* reorder or invent entries (ReadJournal, OpenJournal, Append).
NoSilentLoss ==
    [][status = "down" /\ status' = "open" =>
        /\ Len(entries') \in {Len(entries), Len(entries) + 1}
        /\ SubSeq(entries', 1, Len(entries)) = entries]_journalVars

\* The entries the process believes in form one hash chain with gap-free
\* sequence numbers, over any mix of failed appends and restarts (Append).
ChainIntact ==
    \A n \in DOMAIN entries :
        /\ entries[n].seq = n
        /\ entries[n].prev = IF n = 1 THEN GenesisHash ELSE HashOf(entries[n - 1])

\* An entry Append has returned is on the disk, so no crash from here on can
\* take it away (Append: Sync before the sequence moves on).
AckedIsDurable ==
    \A n \in DOMAIN entries :
        \E i \in 1..synced : file[i] = entries[n]

\* The journal the process holds is one unbroken chain, and on the disk.
JournalHolds == ChainIntact /\ AckedIsDurable
=============================================================================
