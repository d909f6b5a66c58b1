------------------------------ MODULE VcekCache ------------------------------
(***************************************************************************)
(* The VCEK certificate cache of a host (src/src/backend/sev/snp/vcek.rs): *)
(* one certificate file and one lock file in a directory that several      *)
(* processes use without any other synchronisation.  Writers are runs of   *)
(* `enarx platform snp update`; readers are keeps that answer their        *)
(* guest's GetSnpVcek.  Every file system call is a step of its own, any   *)
(* of them may fail, and a writer may be killed between any two of them.   *)
(*                                                                         *)
(* A writer creates at most one file of each kind, so a file (the inode,   *)
(* which outlives its name) is identified by the writer that created it.   *)
(***************************************************************************)
EXTENDS Naturals

CONSTANTS Readers,     \* keeps asking for the certificate
          Writers,     \* runs of the update command
          Tries,       \* read's `retries`, 100 in the code
          Nobody

\* A reader tries at least once, and the directory entry may name no file.
ASSUME CacheAssumption == Tries \in Nat \ {0} /\ Nobody \notin Writers

VARIABLES path,   \* the file the cache's name stands for, or Nobody
          lock,   \* the lock file that exists, or Nobody
          data,   \* what each writer's file holds
          wpc,    \* where each writer is
          kept,   \* history: whose remove_file failed, and on which file
          rpc,    \* where each reader is
          left,   \* the reader's tries left
          held,   \* the file the reader has open
          got     \* what the reader handed to its guest

cache == <<path, lock, data, wpc, kept, rpc, left, held, got>>

Contents == {"empty", "part", "whole"}
WriterAt == {"start", "lock", "create", "copy", "remove", "giveup", "unlock", "ok", "error", "killed"}
ReaderAt == {"start", "open", "probe", "copy", "ok", "error"}

CacheInit ==
    /\ path = Nobody /\ lock = Nobody /\ kept = {}
    /\ data = [w \in Writers |-> "empty"] /\ wpc = [w \in Writers |-> "start"]
    /\ rpc = [r \in Readers |-> "start"] /\ left = [r \in Readers |-> Tries]
    /\ held = [r \in Readers |-> Nobody] /\ got = [r \in Readers |-> "empty"]

WriterGoes(w, to) == wpc' = [wpc EXCEPT ![w] = to]
ReaderGoes(r, to) == rpc' = [rpc EXCEPT ![r] = to]
ReaderKeeps == UNCHANGED <<rpc, left, held, got>>
WriterKeeps == UNCHANGED <<path, lock, data, wpc, kept>>

-----------------------------------------------------------------------------
(* write *)

\* get_vcek_url_path, and the early return when the certificate is there.
Begin(w) ==
    /\ wpc[w] = "start"
    /\ \/ WriterGoes(w, "error")
       \/ WriterGoes(w, IF path # Nobody THEN "ok" ELSE "lock")
    /\ UNCHANGED <<path, lock, data, kept>> /\ ReaderKeeps

\* create_new on the lock file: refused when it exists, or for another reason.
TakeLock(w) ==
    /\ wpc[w] = "lock"
    /\ \/ lock = Nobody /\ lock' = w /\ WriterGoes(w, "create")
       \/ lock' = lock /\ WriterGoes(w, "error")
    /\ UNCHANGED <<path, data, kept>> /\ ReaderKeeps

\* A slip to catch: the lock is kept when the certificate cannot be created.
CreateKeepsLock(w) ==
    /\ wpc[w] = "create"
    /\ \/ path = Nobody /\ path' = w /\ WriterGoes(w, "copy")
       \/ path' = path /\ WriterGoes(w, "error")
    /\ UNCHANGED <<lock, data, kept>> /\ ReaderKeeps

\* create_new on the certificate; any error gives the lock back.
Create(w) ==
    /\ wpc[w] = "create"
    /\ \/ path = Nobody /\ path' = w /\ WriterGoes(w, "copy")
       \/ path' = path /\ WriterGoes(w, "giveup")
    /\ UNCHANGED <<lock, data, kept>> /\ ReaderKeeps

\* io::copy of the download, in pieces; the download or the copy may fail.
Copy(w) ==
    /\ wpc[w] = "copy"
    /\ \/ /\ data[w] = "empty" /\ data' = [data EXCEPT ![w] = "part"] /\ UNCHANGED wpc
       \/ /\ data[w] = "part" /\ data' = [data EXCEPT ![w] = "whole"] /\ WriterGoes(w, "unlock")
       \/ /\ UNCHANGED data /\ WriterGoes(w, "remove")
    /\ UNCHANGED <<path, lock, kept>> /\ ReaderKeeps

\* remove_file failed, which write ignores: the file stays.
Stays(w, file) == kept' = kept \cup {<<w, file>>}

\* A failed copy removes the certificate, and only then the lock.
RemoveFile(w) ==
    /\ wpc[w] = "remove"
    /\ \/ path' = Nobody /\ kept' = kept
       \/ path' = path /\ Stays(w, "cert")
    /\ WriterGoes(w, "giveup")
    /\ UNCHANGED <<lock, data>> /\ ReaderKeeps

DropLock(w) ==
    /\ \/ lock' = Nobody /\ kept' = kept
       \/ lock' = lock /\ Stays(w, "lock")
    /\ UNCHANGED <<path, data>> /\ ReaderKeeps

GiveUp(w) == wpc[w] = "giveup" /\ DropLock(w) /\ WriterGoes(w, "error")

Unlock(w) == wpc[w] = "unlock" /\ DropLock(w) /\ WriterGoes(w, "ok")

\* The process is killed: what it made stays.
Kill(w) ==
    /\ wpc[w] \notin {"ok", "error", "killed"}
    /\ WriterGoes(w, "killed")
    /\ UNCHANGED <<path, lock, data, kept>> /\ ReaderKeeps

-----------------------------------------------------------------------------
(* read, and the copy into the guest's block *)

\* get_vcek_url_path comes first, on every call.
Ask(r) ==
    /\ rpc[r] = "start"
    /\ \/ ReaderGoes(r, "open") \/ ReaderGoes(r, "error")
    /\ UNCHANGED <<left, held, got>> /\ WriterKeeps

\* A slip to catch: the lock is not looked for once the file is open.
ProbeThenOpen(r) ==
    /\ rpc[r] = "open"
    /\ held' = [held EXCEPT ![r] = path]
    /\ ReaderGoes(r, IF path = Nobody THEN "error" ELSE "copy")
    /\ UNCHANGED <<left, got>> /\ WriterKeeps

Open(r) ==
    /\ rpc[r] = "open"
    /\ held' = [held EXCEPT ![r] = path]
    /\ ReaderGoes(r, IF path = Nobody THEN "error" ELSE "probe")
    /\ UNCHANGED <<left, got>> /\ WriterKeeps

\* The lock is looked for after the file has been opened.
Probe(r) ==
    /\ rpc[r] = "probe"
    /\ IF lock = Nobody THEN /\ ReaderGoes(r, "copy") /\ left' = left
                ELSE /\ left' = [left EXCEPT ![r] = @ - 1]
                     /\ ReaderGoes(r, IF left[r] = 1 THEN "error" ELSE "open")
    /\ UNCHANGED <<held, got>> /\ WriterKeeps

\* SnpKeepPersonality::enarxcall: nothing copied is an error.
Deliver(r) ==
    /\ rpc[r] = "copy"
    /\ got' = [got EXCEPT ![r] = data[held[r]]]
    /\ ReaderGoes(r, IF data[held[r]] = "empty" THEN "error" ELSE "ok")
    /\ UNCHANGED <<left, held>> /\ WriterKeeps

Write(w) == \/ Begin(w) \/ TakeLock(w) \/ Create(w) \/ Copy(w)
            \/ RemoveFile(w) \/ GiveUp(w) \/ Unlock(w)
Read(r) == Ask(r) \/ Open(r) \/ Probe(r) \/ Deliver(r)

CacheNext == \/ \E w \in Writers : Write(w) \/ Kill(w)
             \/ \E r \in Readers : Read(r)

CacheSpec == CacheInit /\ [][CacheNext]_cache

-----------------------------------------------------------------------------
CacheTypeOK ==
    /\ path \in Writers \cup {Nobody} /\ lock \in Writers \cup {Nobody}
    /\ kept \subseteq Writers \X {"lock", "cert"}
    /\ data \in [Writers -> Contents] /\ wpc \in [Writers -> WriterAt]
    /\ rpc \in [Readers -> ReaderAt] /\ left \in [Readers -> 0..Tries]
    /\ held \in [Readers -> Writers \cup {Nobody}] /\ got \in [Readers -> Contents]

(* A guest is handed a torn certificate only when the update that wrote it  *)
(* failed, under the reader's hands or without being able to remove it:     *)
(* read opens the file first and looks for the lock second, write creates   *)
(* and removes them in the opposite order.                                  *)
VcekWhole ==
    \A r \in Readers : rpc[r] = "ok" /\ got[r] # "whole" => wpc[held[r]] = "error"

(* Whoever's lock is there is at work, or was killed, or was refused the    *)
(* removal of that lock; likewise for a certificate that is not whole.  All *)
(* other updates, the failed ones included, leave the directory as the next *)
(* one needs it, which write's early return on an existing file and read's  *)
(* use of it without a lock both rest on.                                   *)
NothingLeftBehind ==
    /\ lock # Nobody =>
          \/ wpc[lock] \in {"create", "copy", "remove", "giveup", "unlock", "killed"}
          \/ <<lock, "lock">> \in kept
    /\ path # Nobody /\ data[path] # "whole" =>
          \/ wpc[path] \in {"copy", "remove", "killed"}
          \/ <<path, "cert">> \in kept
=============================================================================
