----------------------------- MODULE CertWatch ------------------------------
(***************************************************************************)
(* internal/tlscert: the Loader that serves SIP over TLS its certificate   *)
(* and re-reads it when the certificate file changes, while whoever renews *)
(* the certificate rewrites the two files one after the other.             *)
(*                                                                         *)
(* A file is its modification time and what it holds: the number of the    *)
(* renewal, or Partial while it is being rewritten.  A certificate and a   *)
(* key match when they come from the same renewal.  Module Server lets     *)
(* these steps run within the life of the program.                         *)
(***************************************************************************)
EXTENDS Naturals

CONSTANTS
    Renewals, \* how often the certificate is renewed
    Partial,  \* a file that is being rewritten
    None      \* nothing read yet

ASSUME RenewalsAssumption ==
    Renewals \in Nat /\ Partial \notin Nat /\ None \notin Nat /\ Partial # None

Files == {"cert", "key"}
Contents == 0..Renewals

VARIABLES
    content,  \* what each file holds
    mtime,    \* modification time of the certificate file
    renewal,  \* the renewal under way or last done
    pending,  \* files the renewal has not written yet
    pc,       \* Watch's goroutine
    seen,     \* the mtime Load found
    read,     \* what Load read of each file
    cert, modTime  \* the Loader's certificate and the mtime it goes with

fileVars == <<content, mtime, renewal, pending>>
loaderVars == <<cert, modTime>>
certVars == <<fileVars, pc, seen, read, loaderVars>>

TypeOK ==
    /\ content \in [Files -> Contents \cup {Partial}]
    /\ mtime \in 0..(2 * Renewals) /\ renewal \in Contents
    /\ pending \in [Files -> BOOLEAN]
    /\ pc \in {"start", "tick", "stat", "cert", "key", "store", "failed"}
    /\ seen \in 0..(2 * Renewals)
    /\ read \in [Files -> Contents \cup {Partial, None}]
    /\ cert \in Contents \cup {None} /\ modTime \in 0..(2 * Renewals)

CertInit ==
    /\ content = [f \in Files |-> 0] /\ mtime = 0 /\ renewal = 0
    /\ pending = [f \in Files |-> FALSE]
    /\ pc = "start" /\ seen = 0
    /\ read = [f \in Files |-> None] /\ cert = None /\ modTime = 0

-----------------------------------------------------------------------------
(* Whoever renews the certificate: both files, in either order, each       *)
(* truncated and then written.                                             *)
Renew ==
    /\ renewal < Renewals /\ \A f \in Files : ~pending[f] /\ content[f] = renewal
    /\ renewal' = renewal + 1
    /\ pending' = [f \in Files |-> TRUE]
    /\ UNCHANGED <<content, mtime, pc, seen, read, loaderVars>>

Touch(f) == mtime' = IF f = "cert" THEN mtime + 1 ELSE mtime

Truncate(f) ==
    /\ pending[f] /\ \A g \in Files : content[g] # Partial
    /\ pending' = [pending EXCEPT ![f] = FALSE]
    /\ content' = [content EXCEPT ![f] = Partial]
    /\ Touch(f)
    /\ UNCHANGED <<renewal, pc, seen, read, loaderVars>>

Fill(f) ==
    /\ content[f] = Partial
    /\ content' = [content EXCEPT ![f] = renewal]
    /\ Touch(f)
    /\ UNCHANGED <<renewal, pending, pc, seen, read, loaderVars>>

-----------------------------------------------------------------------------
(* Load at startup: an error ends the program, before any connection. *)
StartLoad ==
    /\ pc = "start" /\ pc' = "stat"
    /\ UNCHANGED <<fileVars, seen, read, loaderVars>>

(* A tick of Watch: the file's mtime against the loaded one. *)
Watch ==
    /\ pc = "tick"
    /\ pc' = IF mtime # modTime THEN "stat" ELSE "tick"
    /\ UNCHANGED <<fileVars, seen, read, loaderVars>>

(* Load: stat first ... *)
LoadStat ==
    /\ pc = "stat" /\ pc' = "cert"
    /\ seen' = mtime
    /\ UNCHANGED <<fileVars, read, loaderVars>>

(* ... then LoadX509KeyPair, which reads the two files one by one ... *)
ReadCert ==
    /\ pc = "cert" /\ pc' = "key"
    /\ read' = [read EXCEPT !["cert"] = content["cert"]]
    /\ UNCHANGED <<fileVars, seen, loaderVars>>
ReadKey ==
    /\ pc = "key" /\ pc' = "store"
    /\ read' = [read EXCEPT !["key"] = content["key"]]
    /\ UNCHANGED <<fileVars, seen, loaderVars>>

Usable == read["cert"] # Partial /\ read["key"] = read["cert"]

(* Mutant: the mtime is taken after the files were read. *)
Store_StatsLate ==
    /\ pc = "store" /\ Usable /\ pc' = "tick"
    /\ cert' = read["cert"] /\ modTime' = mtime
    /\ UNCHANGED <<fileVars, seen, read>>

(* ... and certificate and mtime are stored together, under the lock. *)
Store ==
    /\ pc = "store" /\ Usable /\ pc' = "tick"
    /\ cert' = read["cert"] /\ modTime' = seen
    /\ UNCHANGED <<fileVars, seen, read>>

(* Load fails: at startup the program exits, Watch keeps the old one. *)
LoadFails ==
    /\ pc = "store" /\ ~Usable
    /\ pc' = IF cert = None THEN "failed" ELSE "tick"
    /\ UNCHANGED <<fileVars, seen, read, loaderVars>>
=============================================================================
