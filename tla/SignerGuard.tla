---------------------------- MODULE SignerGuard ----------------------------
(* operator/signer-state-guard.mjs, which admits a restored validator home, and the
   validator it protects.  CometBFT's file signer is external: it saves the position
   and the sign bytes before it releases a signature, and signs nothing behind what
   it saved.  The operator follows the order the guard asks for: the validator is
   stopped while the guard reads both homes, a start makes an earlier admission
   void, and only the home that ran last or one that was cleared is started. *)
EXTENDS Integers

CONSTANTS
    Homes,          \* node homes: the one in use and the candidates
    Keys,           \* consensus keys
    Contents,       \* sign bytes, with their signature
    Unsigned,       \* no sign bytes
    NoHome,
    FirstHome,
    MaxSignHeight,  \* bound on the height that is signed
    MaxRound        \* bound on the round

ASSUME SignerAssumption ==
    /\ FirstHome \in Homes /\ NoHome \notin Homes
    /\ Unsigned \notin Contents
    /\ MaxSignHeight \in Nat /\ MaxRound \in Nat

VARIABLES
    homes,          \* home -> its key and its signer state
    running,        \* the home the validator runs on
    lastHome,       \* the home it ran on last: the current home
    signing,        \* the state is saved and the signature not yet released
    reading,        \* what the guard has read of the current home
    cleared,        \* the candidate the guard has accepted
    released        \* every signature that ever left a validator

guardVars == <<homes, running, lastHome, signing, reading, cleared, released>>

Positions == [height : 0..MaxSignHeight, round : 0..MaxRound, step : 0..3]
Initial == [height |-> 0, round |-> 0, step |-> 0]
SignerStates == [key : Keys, position : Positions, bytes : Contents \cup {Unsigned}, intact : BOOLEAN]
NothingRead == [at |-> "idle"]

\* ------------------------------------------------------------------- the guard ---

Behind(left, right) ==
    \/ left.height < right.height
    \/ left.height = right.height /\ left.round < right.round
    \/ left.height = right.height /\ left.round = right.round /\ left.step < right.step

\* comparePosition: the first of height, round and step that differs.
ComparePosition(left, right) ==
    IF Behind(left, right) THEN -1 ELSE IF Behind(right, left) THEN 1 ELSE 0

\* validateState.
StateIsValid(position, bytes) ==
    IF position.height = 0 THEN position = Initial /\ bytes = Unsigned
    ELSE position.step \in 1..3 /\ bytes # Unsigned

\* readSignerHome: directories, modes, JSON and key material (intact), and a
\* signature that verifies under the key of the home.
ReadSignerHome(home) == home.intact /\ StateIsValid(home.position, home.bytes)

\* validateSignerRestore, once both homes are read.
SignerRestoreIgnoringBytes(current, candidate, ceiling) ==
    /\ candidate.key = current.key
    /\ current.position.height <= ceiling /\ candidate.position.height <= ceiling
    /\ ComparePosition(candidate.position, current.position) >= 0

SignerRestoreValid(current, candidate, ceiling) ==
    LET comparison == ComparePosition(candidate.position, current.position)
    IN  /\ candidate.key = current.key
        /\ current.position.height <= ceiling /\ candidate.position.height <= ceiling
        /\ comparison >= 0
        /\ comparison = 0 => candidate.bytes = current.bytes

\* ------------------------------------------------------------------- behaviour ---

\* The candidates hold anything: another key, damaged files, an older or newer
\* state, or another vote at the same position.
SignerInit ==
    /\ homes \in {h \in [Homes -> SignerStates] :
                    /\ ReadSignerHome(h[FirstHome]) /\ h[FirstHome].position = Initial}
    /\ running = FirstHome
    /\ lastHome = FirstHome
    /\ signing = FALSE
    /\ reading = NothingRead
    /\ cleared = NoHome
    /\ released = {}

\* The signer (external): a new position is saved first.
SaveState ==
    /\ running # NoHome /\ ~signing
    /\ \E position \in Positions, bytes \in Contents :
        /\ position.height > 0 /\ position.step \in 1..3
        /\ Behind(homes[running].position, position)
        /\ homes' = [homes EXCEPT ![running].position = position, ![running].bytes = bytes]
    /\ signing' = TRUE
    /\ UNCHANGED <<running, lastHome, reading, cleared, released>>

\* It releases the signature it saved; asked for the same vote again, it releases
\* the same signature again.
ReleaseSignature ==
    /\ running # NoHome
    /\ homes[running].bytes # Unsigned
    /\ released' = released \cup {[key |-> homes[running].key, position |-> homes[running].position,
                                   bytes |-> homes[running].bytes]}
    /\ signing' = FALSE
    /\ UNCHANGED <<homes, running, lastHome, reading, cleared>>

\* The validator is stopped, or dies, possibly with a signature not yet released.
StopValidator ==
    /\ running # NoHome
    /\ running' = NoHome
    /\ signing' = FALSE
    /\ UNCHANGED <<homes, lastHome, reading, cleared, released>>

RestartValidator ==
    /\ running = NoHome
    /\ running' = lastHome
    /\ reading' = NothingRead
    /\ cleared' = NoHome
    /\ UNCHANGED <<homes, lastHome, signing, released>>

\* A copy of the current home as it is at the moment, the validator running or not.
BackUpHome(h) ==
    /\ h # lastHome
    /\ homes' = [homes EXCEPT ![h] = homes[lastHome]]
    /\ UNCHANGED <<running, lastHome, signing, reading, cleared, released>>

\* The guard, run with --validator-stopped, reads the current home ...
ReadCurrent ==
    /\ running = NoHome
    /\ reading = NothingRead
    /\ ReadSignerHome(homes[lastHome])
    /\ reading' = [at |-> "candidate", current |-> homes[lastHome]]
    /\ UNCHANGED <<homes, running, lastHome, signing, cleared, released>>

\* ... then the candidate, and accepts or refuses it.
ReadCandidate(h) ==
    /\ reading.at = "candidate"
    /\ h # lastHome
    /\ \E ceiling \in 0..MaxSignHeight :
        cleared' = IF ReadSignerHome(homes[h]) /\ SignerRestoreValid(reading.current, homes[h], ceiling)
                    THEN h ELSE NoHome
    /\ reading' = NothingRead
    /\ UNCHANGED <<homes, running, lastHome, signing, released>>

StartAdmitted ==
    /\ running = NoHome
    /\ cleared # NoHome
    /\ running' = cleared
    /\ lastHome' = cleared
    /\ cleared' = NoHome
    /\ reading' = NothingRead
    /\ UNCHANGED <<homes, signing, released>>

SignerNext ==
    \/ SaveState \/ ReleaseSignature \/ StopValidator \/ RestartValidator
    \/ ReadCurrent \/ StartAdmitted
    \/ \E h \in Homes : BackUpHome(h) \/ ReadCandidate(h)

SignerSpec == SignerInit /\ [][SignerNext]_guardVars

\* ------------------------------------------------------------------ properties ---

\* Through any number of stops, backups and cleared restores, no key ever releases
\* two signatures over different bytes for one height, round and step.
NoDoubleSign ==
    \A a, b \in released :
        a.key = b.key /\ a.position = b.position => a.bytes = b.bytes

\* The inductive invariant: nothing was released ahead of the current home, what
\* was released at its position is what it holds, and what the guard has read or
\* accepted still compares that way.
SignerTypeOK ==
    /\ homes \in [Homes -> SignerStates]
    /\ running \in {NoHome, lastHome}
    /\ lastHome \in Homes
    /\ signing \in BOOLEAN
    /\ reading = NothingRead \/ reading = [at |-> "candidate", current |-> homes[lastHome]]
    /\ cleared \in Homes \cup {NoHome}
    /\ released \subseteq [key : Keys, position : Positions, bytes : Contents]

NotBehind(candidate, key, position, bytes) ==
    /\ candidate.key = key
    /\ ~Behind(candidate.position, position)
    /\ candidate.position = position => candidate.bytes = bytes

SignerInv ==
    /\ SignerTypeOK
    /\ NoDoubleSign
    /\ \A s \in released : NotBehind(homes[lastHome], s.key, s.position, s.bytes)
    /\ cleared # NoHome =>
        LET current == homes[lastHome]
        IN  running = NoHome /\ NotBehind(homes[cleared], current.key, current.position, current.bytes)
    /\ reading # NothingRead => running = NoHome
=============================================================================
