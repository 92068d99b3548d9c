------------------------------ MODULE KeyStore ------------------------------
(***************************************************************************)
(* The signing keys of the skill ledger (skill_ledger/signing and          *)
(* init-keys of security_middleware/backends/skill_ledger.py): the files   *)
(*                                                                         *)
(*   key.enc                      enc    the private key                   *)
(*   key.pub                      pub    the public key                    *)
(*   keyring/<fingerprint>.pub    ring   public keys of earlier key pairs  *)
(*                                                                         *)
(* and the commands that use them: init-keys with and without --force,     *)
(* the signing of certify, the verification of check and audit.  A key     *)
(* pair is one value: its private key, its public key and the fingerprint  *)
(* of that have the same name.  Files are written in place (write_bytes),  *)
(* so each write is two steps, and nothing locks them.                     *)
(***************************************************************************)
EXTENDS Naturals, FiniteSets

CONSTANTS
    Procs,    \* command-line processes
    Keys,     \* bound: the key pairs generated in one behaviour
    Absent,   \* a file that does not exist
    Empty     \* a file opened for writing and not yet written

VARIABLES
    enc,         \* key.enc
    pub,         \* key.pub
    ring,        \* keyring/, by the fingerprint in the file's name
    generated,   \* key pairs made so far
    pc,          \* the next step of each process
    hold,        \* what the process has read or made
    emitted,     \* history: the signatures made
    rejected,    \* history: signatures verify has refused
    whole,       \* history: the last init-keys has run to its end
    failed       \* history: an init-keys has died or an I/O of it failed

store == <<enc, pub, ring>>
ghost == <<emitted, rejected, whole, failed>>
vars == <<store, generated, pc, hold, ghost>>
-----------------------------------------------------------------------------
Content == Keys \cup {Absent, Empty}

\* the key that signed and the fingerprint recorded beside the signature;
\* an empty key.pub has a fingerprint too
Signature == [key : Keys, fp : Keys \cup {Empty}]

BeforeGenerate == {"archive", "archive_check", "archive_open",
                   "archive_write", "enc_open"}
InitSteps == BeforeGenerate \cup {"enc_write", "pub_open", "pub_write"}
Steps == {"idle", "finger", "primary", "ring"} \cup InitSteps

ASSUME KeyAssumption == Absent \notin Keys /\ Empty \notin Keys /\ Absent # Empty

TypeOK ==
    /\ enc \in Content /\ pub \in Content
    /\ ring \in [Keys \cup {Empty} -> Content]
    /\ generated \subseteq Keys
    /\ pc \in [Procs -> Steps]
    /\ hold \in [Procs -> Content \cup Signature]
    /\ emitted \subseteq Signature /\ rejected \subseteq emitted
    /\ {whole, failed} \subseteq BOOLEAN

Init ==
    /\ enc = Absent /\ pub = Absent
    /\ ring = [k \in Keys \cup {Empty} |-> Absent]
    /\ generated = {}
    /\ pc = [p \in Procs |-> "idle"]
    /\ hold = [p \in Procs |-> Absent]
    /\ emitted = {} /\ rejected = {}
    /\ whole = FALSE /\ failed = FALSE

Goto(p, step, value) ==
    /\ pc' = [pc EXCEPT ![p] = step]
    /\ hold' = [hold EXCEPT ![p] = value]

Finish(p) == Goto(p, "idle", Absent)

\* a step of init-keys that leaves the histories alone
At(p, step) ==
    /\ pc[p] = step
    /\ UNCHANGED <<emitted, rejected, failed>>
-----------------------------------------------------------------------------
(* init-keys                                                               *)

KeysExist == enc # Absent /\ pub # Absent

\* ensure_keys_not_exist; only --force archives the old public key.  A key
\* pair is kept for every init-keys that runs (bound).
InitKeys(p, force) ==
    /\ pc[p] = "idle"
    /\ force \/ ~KeysExist
    /\ Cardinality({q \in Procs : pc[q] \in BeforeGenerate})
          < Cardinality(Keys \ generated)
    /\ Goto(p, IF force THEN "archive" ELSE "enc_open", Absent)
    /\ whole' = FALSE
    /\ UNCHANGED <<store, generated, emitted, rejected, failed>>

\* keys that exist are an error without --force
InitRefused(p) ==
    /\ pc[p] = "idle"
    /\ KeysExist
    /\ UNCHANGED vars

\* archive_current_public_key: without key.pub there is nothing to archive
ArchiveRead(p) ==
    /\ At(p, "archive")
    /\ IF pub = Absent THEN Goto(p, "enc_open", Absent)
                       ELSE Goto(p, "archive_check", pub)
    /\ UNCHANGED <<store, generated, whole>>

\* mutant: an archived key is archived again
ArchiveAlways(p) ==
    /\ At(p, "archive_check")
    /\ Goto(p, "archive_open", hold[p])
    /\ UNCHANGED <<store, generated, whole>>

\* mutant: nothing is archived
ArchiveNever(p) ==
    /\ At(p, "archive_check")
    /\ Goto(p, "enc_open", Absent)
    /\ UNCHANGED <<store, generated, whole>>

\* a file of that name is taken for the archived key
ArchiveCheck(p) ==
    /\ At(p, "archive_check")
    /\ IF ring[hold[p]] # Absent THEN Goto(p, "enc_open", Absent)
                                 ELSE Goto(p, "archive_open", hold[p])
    /\ UNCHANGED <<store, generated, whole>>

\* dest.write_bytes
ArchiveOpen(p) ==
    /\ At(p, "archive_open")
    /\ ring' = [ring EXCEPT ![hold[p]] = Empty]
    /\ Goto(p, "archive_write", hold[p])
    /\ UNCHANGED <<enc, pub, generated, whole>>

ArchiveWrite(p) ==
    /\ At(p, "archive_write")
    /\ ring' = [ring EXCEPT ![hold[p]] = hold[p]]
    /\ Goto(p, "enc_open", Absent)
    /\ UNCHANGED <<enc, pub, generated, whole>>

\* generate_keys makes a key pair, then write_key_enc
EncOpen(p) ==
    /\ At(p, "enc_open")
    /\ \E k \in Keys \ generated :
          generated' = generated \cup {k} /\ Goto(p, "enc_write", k)
    /\ enc' = Empty
    /\ UNCHANGED <<pub, ring, whole>>

EncWrite(p) ==
    /\ At(p, "enc_write")
    /\ enc' = hold[p]
    /\ Goto(p, "pub_open", hold[p])
    /\ UNCHANGED <<pub, ring, generated, whole>>

\* mutant: a public key that is there is kept
PubKept(p) ==
    /\ At(p, "pub_open")
    /\ pub' = IF pub = Absent THEN Empty ELSE pub
    /\ Goto(p, "pub_write", IF pub = Absent THEN hold[p] ELSE pub)
    /\ UNCHANGED <<enc, ring, generated, whole>>

\* write_key_pub
PubOpen(p) ==
    /\ At(p, "pub_open")
    /\ pub' = Empty
    /\ Goto(p, "pub_write", hold[p])
    /\ UNCHANGED <<enc, ring, generated, whole>>

PubWrite(p) ==
    /\ At(p, "pub_write")
    /\ pub' = hold[p]
    /\ Finish(p)
    /\ whole' = TRUE
    /\ UNCHANGED <<enc, ring, generated>>
-----------------------------------------------------------------------------
(* sign (certify) and verify (check, audit)                                *)

\* _ensure_private_key: no key.enc, or one that is no key, is an error
SignBegin(p) ==
    /\ pc[p] = "idle"
    /\ \/ enc \in Keys /\ Goto(p, "finger", enc)
       \/ enc \notin Keys /\ UNCHANGED <<pc, hold>>
    /\ UNCHANGED <<store, generated, emitted, rejected, whole, failed>>

\* the fingerprint is read from key.pub, after the private key
SignFinger(p) ==
    /\ pc[p] = "finger"
    /\ emitted' = IF pub = Absent THEN emitted
                  ELSE emitted \cup {[key |-> hold[p], fp |-> pub]}
    /\ Finish(p)
    /\ UNCHANGED <<store, generated, rejected, whole, failed>>

\* verify compares the fingerprint of key.pub; without key.pub it ends in an
\* error that is not SignatureInvalidError
VerifyBegin(p, s) ==
    /\ pc[p] = "idle"
    /\ \/ pub = Absent /\ UNCHANGED <<pc, hold>>
       \/ pub = s.fp /\ Goto(p, "primary", s)
       \/ pub \notin {Absent, s.fp} /\ Goto(p, "ring", s)
    /\ UNCHANGED <<store, generated, emitted, rejected, whole, failed>>

\* the answer of verify with the public key k: an empty file is no key
Answer(s, k) ==
    rejected' = IF k \in Keys /\ k # s.key THEN rejected \cup {s} ELSE rejected

\* _ensure_public_key reads key.pub once more
VerifyPrimary(p) ==
    /\ pc[p] = "primary"
    /\ Answer(hold[p], pub)
    /\ Finish(p)
    /\ UNCHANGED <<store, generated, emitted, whole, failed>>

\* load_keyring_public_keys goes by what the files hold, not by their names
VerifyRing(p) ==
    /\ pc[p] = "ring"
    /\ LET s == hold[p]
       IN  \/ /\ \E k \in DOMAIN ring : ring[k] = s.fp
              /\ Answer(s, s.fp)
           \/ /\ \A k \in DOMAIN ring : ring[k] # s.fp
              /\ rejected' = rejected \cup {s}
    /\ Finish(p)
    /\ UNCHANGED <<store, generated, emitted, whole, failed>>
-----------------------------------------------------------------------------
\* the process is killed, or the write of a file fails (a full disk)
Die(p) ==
    /\ pc[p] # "idle"
    /\ Finish(p)
    /\ failed' = (failed \/ pc[p] \in InitSteps)
    /\ UNCHANGED <<store, generated, emitted, rejected, whole>>

Step(p) ==
    \/ ArchiveRead(p) \/ ArchiveCheck(p) \/ ArchiveOpen(p) \/ ArchiveWrite(p)
    \/ EncOpen(p) \/ EncWrite(p) \/ PubOpen(p) \/ PubWrite(p)
    \/ SignFinger(p) \/ VerifyPrimary(p) \/ VerifyRing(p)

Use(p) == InitRefused(p) \/ SignBegin(p) \/ \E s \in emitted : VerifyBegin(p, s)

\* what the code allows: nothing keeps the commands apart
Next ==
    \E p \in Procs :
        \/ \E force \in BOOLEAN : InitKeys(p, force)
        \/ Use(p) \/ Step(p) \/ Die(p)
Spec == Init /\ [][Next]_vars

\* init-keys runs while no other command does; it may die, and certify and
\* check may run side by side
ExclusiveNext ==
    \E p \in Procs :
        \/ /\ \A q \in Procs : pc[q] = "idle"
           /\ \E force \in BOOLEAN : InitKeys(p, force)
        \/ /\ \A q \in Procs : pc[q] \notin InitSteps
           /\ Use(p)
        \/ Step(p) \/ Die(p)
ExclusiveSpec == Init /\ [][ExclusiveNext]_vars
-----------------------------------------------------------------------------
(* Properties of an init-keys that runs by itself                          *)

\* As long as no init-keys fails half way, no signature certify made is ever
\* refused, however often the keys are rotated: the private key and the
\* fingerprint belong together, and the key is in key.pub or in the keyring.
NoFalseAlarm == ~failed => rejected = {}

\* A public key in the keyring stays there, also when a rotation that has
\* archived it dies and is tried again.
KeyringOnlyGrows == [][\A k \in Keys : ring[k] = k => ring'[k] = k]_vars

\* After an init-keys that has run to its end the two files hold one key
\* pair, whatever earlier ones have left behind.
WholeAfterInit == whole => enc = pub /\ pub \in Keys

\* "Archive the old public key into the keyring so that existing signatures
\* remain verifiable after key rotation" (backends/skill_ledger.py:59): the
\* key of every signature is in key.pub or in the keyring.
RotationKeepsSignatures ==
    \A s \in emitted :
        s.key = s.fp => pub = s.fp \/ \E k \in DOMAIN ring : ring[k] = s.fp
=============================================================================
