----------------------------- MODULE TlsReload -----------------------------
(***************************************************************************)
(* DynamicServerConfig (security/reload.rs): the TLS configuration that    *)
(* new handshakes take, rebuilt from its files while an operator is        *)
(* replacing them and while other reloads are under way.                   *)
(*                                                                         *)
(* The contents of a file are the number of the rotation it belongs to, or *)
(* Torn while it is half written.  A reload reads the files one after the  *)
(* other and holds no lock: what it builds may mix rotations.  Whether the *)
(* file of client CAs is one of them is the TlsConfig's to say.            *)
(***************************************************************************)
EXTENDS Integers, FiniteSets

CONSTANTS
    Reload,     \* calls of reload_from that may overlap
    Handshake,  \* connections being accepted
    MaxRotation,\* bound: rotations of the files
    MaxReloads, \* bound: calls of reload_from
    Torn,       \* a file caught half written
    None

VARIABLES
    auth,       \* whether client_auth of the TlsConfig is other than Disabled
    files,      \* files[f]: the contents of file f
    rotation,   \* the rotation the operator is writing
    reload,     \* reload[r]: the call r is making, its files read so far
    calls,      \* how often reload_from was called
    inner,      \* the ArcSwap: the configuration now served
    late,       \* reloads under way that had begun when inner was last stored
    held        \* held[h]: the snapshot handshake h took with current()

vars == <<auth, files, rotation, reload, calls, inner, late, held>>
disk == <<auth, files, rotation>>

\* The order in which build_server_config reads them.
File == <<"cert", "key", "ca">>
Files == {File[i] : i \in 1..3}

\* The client CAs are read only to verify clients.
Last == IF auth THEN 3 ELSE 2

\* A phase is 0 between calls, i while file i is next, Last + 1 once all are
\* read.
Idle == [phase |-> 0, read |-> [f \in Files |-> None]]

Init ==
    /\ auth \in BOOLEAN
    /\ files = [f \in Files |-> 0] /\ rotation = 0
    /\ reload = [r \in Reload |-> Idle]
    /\ calls = 0
    /\ inner = [f \in Files |-> IF f = "ca" /\ ~auth THEN None ELSE 0]
    /\ late = {}
    /\ held = [h \in Handshake |-> None]

(* The operator, external: the files of a rotation are replaced one at a   *)
(* time, in any order, each torn for a moment; a rotation begins once the  *)
(* last one is on disk.                                                    *)
Rotate ==
    /\ rotation < MaxRotation /\ \A f \in Files : files[f] = rotation
    /\ rotation' = rotation + 1
    /\ UNCHANGED <<auth, files, reload, calls, inner, late, held>>

WriteFile(f) ==
    /\ files[f] # rotation
    /\ files' = [files EXCEPT ![f] = IF @ = Torn THEN rotation ELSE Torn]
    /\ UNCHANGED <<auth, rotation, reload, calls, inner, late, held>>

Begin(r) ==
    /\ reload[r].phase = 0 /\ calls < MaxReloads
    /\ calls' = calls + 1
    /\ reload' = [reload EXCEPT ![r].phase = 1]
    /\ late' = late \ {r}
    /\ UNCHANGED <<disk, inner, held>>

\* What a read of the file can come to.  A half-written key is no key; a
\* half-written chain is an error unless it ends between two certificates,
\* and then the cut chain is taken.
OnDisk(f) ==
    IF files[f] # Torn THEN {files[f]} ELSE IF f = "key" THEN {Torn} ELSE {Torn, rotation}

\* Mutant: the contents of the last reload are kept.
ContentsCached(r, f) == IF reload[r].read[f] = None THEN OnDisk(f) ELSE {reload[r].read[f]}

Contents(r, f) == OnDisk(f)

(* load_certs, load_private_key and load_certs again; the first error ends *)
(* the reload.                                                             *)
ReadFile(r) ==
    /\ reload[r].phase \in 1..Last
    /\ LET i == reload[r].phase IN
       \E c \in Contents(r, File[i]) :
         reload' = [reload EXCEPT ![r] =
                      IF c = Torn THEN [phase |-> 0, read |-> @.read]
                      ELSE [phase |-> i + 1, read |-> [@.read EXCEPT ![File[i]] = c]]]
    /\ UNCHANGED <<disk, calls, inner, late, held>>

\* with_single_cert refuses a key that is not the certificate's.
Builds(new) == new["cert"] = new["key"]

(* The rest of reload_from: build, then swap; on an error the previous     *)
(* configuration stays.                                                    *)
Store(r) ==
    /\ reload[r].phase = Last + 1
    /\ LET new == reload[r].read IN
       /\ inner' = IF Builds(new) THEN new ELSE inner
       /\ late' = IF Builds(new) THEN {o \in Reload \ {r} : reload[o].phase # 0}
                  ELSE late
    /\ reload' = [reload EXCEPT ![r].phase = 0]
    /\ UNCHANGED <<disk, calls, held>>

(* DynamicServerConfig::current, at the start of a handshake, and the end  *)
(* of the handshake.                                                       *)
Accept(h) ==
    /\ held[h] = None
    /\ held' = [held EXCEPT ![h] = inner]
    /\ UNCHANGED <<disk, reload, calls, inner, late>>

Finish(h) ==
    /\ held[h] # None
    /\ held' = [held EXCEPT ![h] = None]
    /\ UNCHANGED <<disk, reload, calls, inner, late>>

Next ==
    \/ Rotate \/ \E f \in Files : WriteFile(f)
    \/ \E r \in Reload : Begin(r) \/ ReadFile(r) \/ Store(r)
    \/ \E h \in Handshake : Accept(h) \/ Finish(h)

Spec == Init /\ [][Next]_vars

----------------------------------------------------------------------------

\* Only a reload that overlapped the one before may put an older
\* certificate back: a reload that begins once the served configuration is
\* in place never serves an older one.
OlderOnlyWhenOverlapped ==
    [][\A r \in Reload :
        Store(r) /\ inner'["cert"] < inner["cert"] => r \in late]_vars
=============================================================================
