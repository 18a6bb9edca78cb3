----------------------------- MODULE BlobStore -----------------------------
(***************************************************************************)
(* The hybrid blob store (tracepress-storage/src/blob_store): exact bytes   *)
(* in a row of content_objects, or in a content-addressed file that a row   *)
(* refers to.  File and row change in separate steps, on a blocking thread  *)
(* and on the writer thread; the async client between them can be           *)
(* cancelled at any await, which releases its guard and stops neither.      *)
(*                                                                          *)
(* Strict durability: the database survives a power loss, a file's bytes    *)
(* are synced before its rename, and its name once its directory is synced. *)
(* Not modelled: balanced durability, sizes beyond the limits, temporary    *)
(* files, the durability of shard directories.                              *)
(***************************************************************************)
EXTENDS Naturals, FiniteSets

CONSTANTS
    Clients,        \* concurrent callers of the store
    Contents,       \* content identities
    Encodings,      \* file formats: Encoding
    Inlines,        \* what a threshold may keep inline: sets of contents
    MaxPins,        \* the largest pin count
    MaxRestarts,    \* bound: crashes and power losses
    CancelCollect,  \* whether a collection can be cancelled
    Nobody          \* no client

ASSUME BlobAssumption ==
    /\ Encodings \cap {"none", "inline"} = {}
    /\ Inlines \subseteq SUBSET Contents
    /\ MaxPins \in Nat /\ MaxRestarts \in Nat
    /\ CancelCollect \in BOOLEAN
    /\ Nobody \notin Clients

File == Contents \X Encodings

VARIABLES
    row,        \* content_objects: place and pins of each content
    files,      \* what each object path holds
    synced,     \* the paths whose directory entry survives a power loss
    settings,   \* encoding and inline threshold of this process
    guard,      \* the holder of cas_guard
    client,     \* the operation each client is in
    jobs,       \* what runs on blocking threads
    posted,     \* registrations in the channel of the writer
    restarts,   \* crashes so far
    receipts,   \* history: contents a put returned a receipt for
    inherited,  \* history: contents put over a name nobody had synced
    missed      \* history: contents with a receipt that a get did not find

vars == <<row, files, synced, settings, guard, client, jobs, posted, restarts,
          receipts, inherited, missed>>

Idle == [pc |-> "idle"]
Publishing(f) == [pc |-> "publish", file |-> f]
Publish(p, f, step) == [by |-> p, kind |-> "publish", file |-> f, step |-> step]
Removal(p, f) == [by |-> p, kind |-> "remove", file |-> f, step |-> "remove"]

External(c) == row[c].place \in Encodings
Present == {f \in File : files[f] # "absent"}

ClientState ==
    {Idle}
        \cup [pc : {"publish", "register", "commit", "validate"}, file : File]
        \cup [pc : {"fetch"}, content : Contents, place : Encodings \cup {"none"},
              knew : BOOLEAN]
        \cup [pc : {"protect", "classify"}, todo : SUBSET File]

Job == [by : Clients \cup {Nobody}, kind : {"publish", "remove"}, file : File,
        step : {"rename", "sync", "check", "remove"}]

UsesGuard(p) == client[p].pc \notin {"idle", "fetch"}

(* The client of job or message `by`, if it still waits, goes on as `next`;  *)
(* its guard falls when it returns.                                          *)
Resume(by, next) ==
    IF by = Nobody THEN UNCHANGED <<client, guard>>
    ELSE /\ client' = [client EXCEPT ![by] = next]
         /\ guard' = IF next = Idle THEN Nobody ELSE guard
-----------------------------------------------------------------------------
(* Seeded fault: the row is replaced. *)
Replaced(c, place) == [row EXCEPT ![c] = [place |-> place, pins |-> 0]]

(* INSERT OR IGNORE: the first location of a content stands. *)
Registered(c, place) == IF row[c].place = "none" THEN Replaced(c, place) ELSE row

(* A put at or below the threshold is one message to the writer, no guard.   *)
PutInline(c) ==
    /\ c \in settings.inline
    /\ row' = Registered(c, "inline")
    /\ receipts' = receipts \cup {c}
    /\ UNCHANGED <<files, synced, settings, guard, client, jobs, posted, restarts,
                   inherited, missed>>

(* Seeded fault: the put does not take the guard. *)
BeginPutUnguarded(p, c) ==
    /\ client[p] = Idle /\ c \notin settings.inline
    /\ LET f == <<c, settings.encoding>>
       IN  /\ client' = [client EXCEPT ![p] = Publishing(f)]
           /\ jobs' = jobs \cup {Publish(p, f, "rename")}
    /\ UNCHANGED <<row, files, synced, settings, guard, posted, restarts,
                   receipts, inherited, missed>>

(* A put above it takes the guard and publishes on a blocking thread. *)
BeginPut(p, c) ==
    /\ client[p] = Idle /\ c \notin settings.inline
    /\ guard = Nobody /\ guard' = p
    /\ LET f == <<c, settings.encoding>>
       IN  /\ client' = [client EXCEPT ![p] = Publishing(f)]
           /\ jobs' = jobs \cup {Publish(p, f, "rename")}
    /\ UNCHANGED <<row, files, synced, settings, posted, restarts,
                   receipts, inherited, missed>>

(* The temporary file is whole and synced; its rename never replaces. *)
Rename(j) ==
    /\ j.step = "rename"
    /\ IF files[j.file] = "absent"
       THEN /\ files' = [files EXCEPT ![j.file] = "whole"]
            /\ jobs' = (jobs \ {j}) \cup {Publish(j.by, j.file, "sync")}
       ELSE /\ jobs' = (jobs \ {j}) \cup {Publish(j.by, j.file, "check")}
            /\ UNCHANGED files
    /\ UNCHANGED <<row, synced, settings, guard, client, posted, restarts,
                   receipts, inherited, missed>>

(* Seeded fault: the directory is not synced. *)
SyncNothing(j) ==
    /\ j.step = "sync"
    /\ jobs' = jobs \ {j}
    /\ Resume(j.by, [pc |-> "register", file |-> j.file])
    /\ UNCHANGED <<row, files, synced, settings, posted, restarts, receipts,
                   inherited, missed>>

(* A fresh name: its directory is synced, with all the names in it. *)
Sync(j) ==
    /\ j.step = "sync"
    /\ synced' = synced \cup {f \in Present : f[1] = j.file[1]}
    /\ jobs' = jobs \ {j}
    /\ Resume(j.by, [pc |-> "register", file |-> j.file])
    /\ UNCHANGED <<row, files, settings, posted, restarts, receipts, inherited, missed>>

(* An existing name: its bytes are validated, and its directory left alone. *)
Check(j) ==
    /\ j.step = "check"
    /\ jobs' = jobs \ {j}
    /\ IF files[j.file] = "whole"
       THEN /\ Resume(j.by, [pc |-> "register", file |-> j.file])
            /\ inherited' = IF j.file \in synced THEN inherited
                            ELSE inherited \cup {j.file[1]}
       ELSE Resume(j.by, Idle) /\ UNCHANGED inherited
    /\ UNCHANGED <<row, files, synced, settings, posted, restarts, receipts, missed>>

(* Writing, renaming, syncing or reading fails; what is published stays. *)
PublishFails(j) ==
    /\ j.kind = "publish"
    /\ jobs' = jobs \ {j}
    /\ Resume(j.by, Idle)
    /\ UNCHANGED <<row, files, synced, settings, posted, restarts, receipts,
                   inherited, missed>>

SendRegistration(p) ==
    /\ client[p].pc = "register"
    /\ posted' = posted \cup {[by |-> p, file |-> client[p].file]}
    /\ client' = [client EXCEPT ![p] = [pc |-> "commit", file |-> client[p].file]]
    /\ UNCHANGED <<row, files, synced, settings, guard, jobs, restarts, receipts,
                   inherited, missed>>

(* The writer commits a registration, whether or not its client waits. *)
CommitRegistration(m) ==
    /\ row' = Registered(m.file[1], m.file[2])
    /\ posted' = posted \ {m}
    /\ Resume(m.by, [pc |-> "validate", file |-> m.file])
    /\ UNCHANGED <<files, synced, settings, jobs, restarts, receipts, inherited, missed>>

RegistrationFails(m) ==
    /\ posted' = posted \ {m}
    /\ Resume(m.by, Idle)
    /\ UNCHANGED <<row, files, synced, settings, jobs, restarts, receipts,
                   inherited, missed>>

(* The receipt of the location that stands, once its bytes are validated. *)
Validate(p) ==
    /\ client[p].pc = "validate"
    /\ LET c == client[p].file[1]
           exact == External(c) => files[<<c, row[c].place>>] = "whole"
       IN  receipts' = IF exact THEN receipts \cup {c} ELSE receipts
    /\ Resume(p, Idle)
    /\ UNCHANGED <<row, files, synced, settings, jobs, posted, restarts,
                   inherited, missed>>
-----------------------------------------------------------------------------
(* A get reads the row first; an inline row answers it.  The file of the     *)
(* row, or any file of a content without one, is read under the guard.       *)
BeginGet(p, c) ==
    /\ client[p] = Idle /\ row[c].place # "inline"
    /\ client' = [client EXCEPT ![p] = [pc |-> "fetch", content |-> c,
                                        place |-> row[c].place, knew |-> c \in receipts]]
    /\ UNCHANGED <<row, files, synced, settings, guard, jobs, posted, restarts,
                   receipts, inherited, missed>>

Fetch(p) ==
    /\ client[p].pc = "fetch" /\ guard = Nobody
    /\ LET get == client[p]
           paths == {<<get.content, e>> :
                        e \in (IF get.place = "none" THEN Encodings ELSE {get.place})}
       IN  missed' = IF get.knew /\ paths \cap Present = {}
                     THEN missed \cup {get.content} ELSE missed
    /\ client' = [client EXCEPT ![p] = Idle]
    /\ UNCHANGED <<row, files, synced, settings, guard, jobs, posted, restarts,
                   receipts, inherited>>

Pin(c) ==
    /\ row[c].place # "none" /\ row[c].pins < MaxPins
    /\ row' = [row EXCEPT ![c].pins = @ + 1]
    /\ UNCHANGED <<files, synced, settings, guard, client, jobs, posted, restarts,
                   receipts, inherited, missed>>

Unpin(c) ==
    /\ row[c].place # "none" /\ row[c].pins > 0
    /\ row' = [row EXCEPT ![c].pins = @ - 1]
    /\ UNCHANGED <<files, synced, settings, guard, client, jobs, posted, restarts,
                   receipts, inherited, missed>>
-----------------------------------------------------------------------------
(* A collection scans the directory under the guard, asks the writer about   *)
(* each file, and looks at those without a row on a blocking thread.         *)
BeginCollect(p) ==
    /\ client[p] = Idle /\ guard = Nobody
    /\ guard' = p
    /\ client' = [client EXCEPT ![p] = [pc |-> "protect", todo |-> Present]]
    /\ UNCHANGED <<row, files, synced, settings, jobs, posted, restarts, receipts,
                   inherited, missed>>

(* Seeded fault: only a pin protects a row's file. *)
IsOrphanUnlessPinned(c) == row[c].pins = 0

IsOrphan(c) == row[c].place = "none"

(* The writer answers in the order of its channel: a question is behind the  *)
(* registrations already posted.                                             *)
Protect(p) ==
    /\ client[p].pc = "protect" /\ posted = {}
    /\ \E f \in client[p].todo :
           LET rest == client[p].todo \ {f}
           IN  IF IsOrphan(f[1])
               THEN /\ jobs' = jobs \cup {Removal(p, f)}
                    /\ client' = [client EXCEPT ![p] = [pc |-> "classify", todo |-> rest]]
               ELSE /\ client' = [client EXCEPT ![p] = [pc |-> "protect", todo |-> rest]]
                    /\ UNCHANGED jobs
    /\ UNCHANGED <<row, files, synced, settings, guard, posted, restarts, receipts,
                   inherited, missed>>

(* An old orphan with the bytes of its name is removed; a young or damaged   *)
(* one is retained; one that is gone ends the collection with an error.      *)
Remove(j) ==
    /\ j.kind = "remove"
    /\ \E old \in BOOLEAN :
           IF old /\ files[j.file] = "whole"
           THEN /\ files' = [files EXCEPT ![j.file] = "absent"]
                /\ synced' = synced \ {j.file}
           ELSE UNCHANGED <<files, synced>>
    /\ jobs' = jobs \ {j}
    /\ Resume(j.by, IF j.file \in Present
                    THEN [pc |-> "protect", todo |-> client[j.by].todo] ELSE Idle)
    /\ UNCHANGED <<row, settings, posted, restarts, receipts, inherited, missed>>

(* The report, or an error of the writer. *)
EndCollect(p) ==
    /\ client[p].pc = "protect"
    /\ Resume(p, Idle)
    /\ UNCHANGED <<row, files, synced, settings, jobs, posted, restarts, receipts,
                   inherited, missed>>
-----------------------------------------------------------------------------
(* The caller drops the future of an operation at an await: the guard falls, *)
(* and neither a blocking job nor a posted registration stops.               *)
Abandon(x, p) == IF x.by = p THEN [x EXCEPT !.by = Nobody] ELSE x

Cancel(p) ==
    /\ client[p] # Idle
    /\ client[p].pc \in {"protect", "classify"} => CancelCollect
    /\ jobs' = {Abandon(j, p) : j \in jobs}
    /\ posted' = {Abandon(m, p) : m \in posted}
    /\ client' = [client EXCEPT ![p] = Idle]
    /\ guard' = IF guard = p THEN Nobody ELSE guard
    /\ UNCHANGED <<row, files, synced, settings, restarts, receipts, inherited, missed>>

(* Bytes of a file change under the store. *)
Damage(f) ==
    /\ files[f] = "whole"
    /\ files' = [files EXCEPT ![f] = "damaged"]
    /\ UNCHANGED <<row, synced, settings, guard, client, jobs, posted, restarts,
                   receipts, inherited, missed>>

(* The process ends and a new one opens the store, with settings of its own. *)
(* A power loss may take any name whose directory was not synced.            *)
Restart ==
    /\ restarts < MaxRestarts /\ restarts' = restarts + 1
    /\ \E kept \in SUBSET (Present \ synced) :
           files' = [f \in File |-> IF f \in synced \cup kept THEN files[f] ELSE "absent"]
    /\ settings' \in [encoding : Encodings, inline : Inlines]
    /\ guard' = Nobody /\ client' = [p \in Clients |-> Idle]
    /\ jobs' = {} /\ posted' = {}
    /\ UNCHANGED <<row, synced, receipts, inherited, missed>>
-----------------------------------------------------------------------------
Init ==
    /\ row = [c \in Contents |-> [place |-> "none", pins |-> 0]]
    /\ files = [f \in File |-> "absent"] /\ synced = {}
    /\ settings \in [encoding : Encodings, inline : Inlines]
    /\ guard = Nobody /\ client = [p \in Clients |-> Idle]
    /\ jobs = {} /\ posted = {} /\ restarts = 0
    /\ receipts = {} /\ inherited = {} /\ missed = {}

Next ==
    \/ \E c \in Contents : PutInline(c) \/ Pin(c) \/ Unpin(c)
    \/ \E p \in Clients :
          \/ \E c \in Contents : BeginPut(p, c) \/ BeginGet(p, c)
          \/ SendRegistration(p) \/ Validate(p) \/ Fetch(p)
          \/ BeginCollect(p) \/ Protect(p) \/ EndCollect(p) \/ Cancel(p)
    \/ \E j \in jobs : Rename(j) \/ Sync(j) \/ Check(j) \/ PublishFails(j) \/ Remove(j)
    \/ \E m \in posted : CommitRegistration(m) \/ RegistrationFails(m)
    \/ \E f \in File : Damage(f)
    \/ Restart

Spec == Init /\ [][Next]_vars
-----------------------------------------------------------------------------
(* The variables range over the values their declarations name, and the     *)
(* guard is held exactly by the client whose operation took it.             *)
BlobTypeOK ==
    /\ row \in [Contents -> [place : Encodings \cup {"none", "inline"}, pins : 0 .. MaxPins]]
    /\ files \in [File -> {"absent", "whole", "damaged"}]
    /\ synced \subseteq Present
    /\ settings \in [encoding : Encodings, inline : Inlines]
    /\ guard \in Clients \cup {Nobody}
    /\ client \in [Clients -> ClientState]
    /\ jobs \subseteq Job
    /\ posted \subseteq [by : Clients \cup {Nobody}, file : File]
    /\ restarts \in 0 .. MaxRestarts
    /\ receipts \subseteq Contents /\ inherited \subseteq Contents /\ missed \subseteq Contents
    /\ \A p \in Clients : UsesGuard(p) <=> guard = p

(* A committed reference never dangles: its file is there, however puts,    *)
(* collections, cancelled callers, crashes and power losses interleave      *)
(* (PLAN.md section 16).  Left out: a content put over a name that no       *)
(* directory sync had made durable.                                         *)
NoDanglingReference ==
    \A c \in Contents \ inherited : External(c) => <<c, row[c].place>> \in Present

(* The same without the exception: power losses at any boundary of a strict *)
(* put leave no dangling reference (blob_store_tests.rs, the test           *)
(* power_loss_boundaries_never_leave_a_dangling_reference).                 *)
PowerLossLeavesNoDanglingReference ==
    \A c \in Contents : External(c) => <<c, row[c].place>> \in Present

(* The row follows the directory sync: what a strict put published itself   *)
(* is durable when it is referenced (FilesystemCasBlobStore::publish).      *)
ReferencesAreDurable ==
    \A c \in Contents \ inherited : External(c) => <<c, row[c].place>> \in synced

(* A get that begins after a receipt finds the content, whatever happens    *)
(* between its lookup and the guard (HybridBlobStore::get).                 *)
GetFindsWhatWasStored == missed \subseteq inherited

(* The location of a content never changes once committed, whatever the     *)
(* settings of later processes, and putting it again keeps its pins         *)
(* (register_external, INSERT OR IGNORE).                                   *)
ReferencesAreImmutable ==
    [][\A c \in Contents : row[c].place # "none" =>
          /\ row'[c].place = row[c].place
          /\ row'[c].pins + 1 >= row[c].pins]_vars
=============================================================================
