-------------------------- MODULE BlobStore_proofs --------------------------
(* What every behaviour of BlobStore satisfies, for any number of callers,   *)
(* contents, encodings, pins and restarts.                                   *)
EXTENDS BlobStore, TLAPS

USE BlobAssumption

(* A job or a registration that still has a client is the one its client     *)
(* waits for, and there is at most one, because that client holds the guard. *)
JobsAreAwaited ==
    /\ \A j \in jobs : j.kind = "remove" <=> j.step = "remove"
    /\ \A j \in jobs : j.by # Nobody =>
          client[j.by].pc = IF j.kind = "remove" THEN "classify" ELSE "publish"
    /\ \A j, k \in jobs : j.by # Nobody /\ k.by # Nobody => j = k

RegistrationsAreAwaited ==
    /\ \A m \in posted : m.by # Nobody => client[m.by].pc = "commit"
    /\ \A m, n \in posted : m.by # Nobody /\ n.by # Nobody => m = n

DataOK ==
    /\ row \in [Contents -> [place : Encodings \cup {"none", "inline"}, pins : 0 .. MaxPins]]
    /\ files \in [File -> {"absent", "whole", "damaged"}]
    /\ synced \subseteq Present
    /\ settings \in [encoding : Encodings, inline : Inlines]
    /\ restarts \in 0 .. MaxRestarts
    /\ receipts \subseteq Contents /\ inherited \subseteq Contents /\ missed \subseteq Contents

ClientsOK ==
    /\ guard \in Clients \cup {Nobody}
    /\ client \in [Clients -> ClientState]
    /\ \A p \in Clients : UsesGuard(p) <=> guard = p

WorkOK ==
    /\ jobs \subseteq Job
    /\ posted \subseteq [by : Clients \cup {Nobody}, file : File]

TypeInv == DataOK /\ ClientsOK /\ WorkOK /\ JobsAreAwaited /\ RegistrationsAreAwaited

(* A client in the middle of a put names a file.                             *)
LEMMA PutShape ==
    ASSUME NEW s \in ClientState, s.pc \in {"publish", "register", "commit", "validate"}
    PROVE  s.file \in File
  BY DEF ClientState, Idle

(* A client in the middle of a collection has files left to do.              *)
LEMMA CollectShape ==
    ASSUME NEW s \in ClientState, s.pc \in {"protect", "classify"}
    PROVE  s.todo \in SUBSET File
  BY DEF ClientState, Idle

(* A client in the middle of a get names a content.                          *)
LEMMA GetShape ==
    ASSUME NEW s \in ClientState, s.pc = "fetch"
    PROVE  s.content \in Contents
  BY DEF ClientState, Idle

(* Moving one client on keeps the guard with those that use it.              *)
LEMMA MovesOn ==
    ASSUME ClientsOK, NEW p \in Clients, NEW next \in ClientState,
           client' = [client EXCEPT ![p] = next],
           guard' = IF next.pc \in {"idle", "fetch"}
                    THEN IF guard = p THEN Nobody ELSE guard ELSE p,
           guard \in {p, Nobody} \/ next.pc \in {"idle", "fetch"}
    PROVE  /\ ClientsOK'
           /\ client'[p] = next
           /\ \A q \in Clients : q # p => client'[q] = client[q]
  BY DEF ClientsOK, UsesGuard

(* What Resume does to the client it is about, and to nobody else.           *)
LEMMA Resumes ==
    ASSUME ClientsOK, NEW by \in Clients \cup {Nobody}, NEW next \in ClientState,
           by # Nobody => UsesGuard(by),
           next = Idle \/ next.pc \notin {"idle", "fetch"},
           Resume(by, next)
    PROVE  /\ ClientsOK'
           /\ by # Nobody => client'[by] = next
           /\ \A q \in Clients : q # by => client'[q] = client[q]
<1>1. CASE by = Nobody
  BY <1>1 DEF Resume, ClientsOK, UsesGuard
<1>2. CASE by # Nobody
  <2>1. by \in Clients /\ guard = by
    BY <1>2 DEF ClientsOK
  <2>2. guard' = IF next.pc \in {"idle", "fetch"} THEN Nobody ELSE by
    BY <1>2, <2>1 DEF Resume, Idle
  <2>3. client' = [client EXCEPT ![by] = next]
    BY <1>2 DEF Resume
  <2> QED
    BY <1>2, <2>1, <2>2, <2>3, MovesOn
<1> QED
  BY <1>1, <1>2
-----------------------------------------------------------------------------
(* The file of a job, as a pair.                                             *)
LEMMA Pair ==
    ASSUME NEW f \in File
    PROVE  f[1] \in Contents /\ f[2] \in Encodings /\ f = <<f[1], f[2]>>
  BY DEF File

(* A registration keeps rows well formed, and changes only absent ones.      *)
LEMMA RegistersOnce ==
    ASSUME DataOK, NEW c \in Contents, NEW place \in Encodings \cup {"inline"},
           row' = Registered(c, place)
    PROVE  /\ row' \in [Contents -> [place : Encodings \cup {"none", "inline"},
                                     pins : 0 .. MaxPins]]
           /\ \A d \in Contents : row[d].place # "none" => row'[d] = row[d]
           /\ \A d \in Contents : row'[d].place \in {row[d].place, place}
           /\ \A d \in Contents : d # c => row'[d] = row[d]
  BY DEF DataOK, Registered, Replaced

(* Every step keeps rows, files and histories well formed.                   *)
LEMMA DataStep ==
    ASSUME TypeInv, [Next]_vars
    PROVE  DataOK'
<1> USE DEF TypeInv
<1>1. ASSUME NEW c \in Contents, PutInline(c) PROVE DataOK'
  BY <1>1, RegistersOnce DEF PutInline, DataOK, Present
<1>2. ASSUME NEW c \in Contents, Pin(c) \/ Unpin(c) PROVE DataOK'
  <2>1. row[c].pins \in 0 .. MaxPins /\ row[c].place \in Encodings \cup {"none", "inline"}
    BY DEF DataOK
  <2>2. row' \in [Contents -> [place : Encodings \cup {"none", "inline"}, pins : 0 .. MaxPins]]
    BY <1>2, <2>1 DEF Pin, Unpin, DataOK
  <2> QED
    BY <1>2, <2>2 DEF Pin, Unpin, DataOK, Present
<1>3. ASSUME NEW p \in Clients, NEW c \in Contents, BeginPut(p, c) \/ BeginGet(p, c)
      PROVE  DataOK'
  BY <1>3 DEF BeginPut, BeginGet, DataOK, Present
<1>4. ASSUME NEW p \in Clients,
             SendRegistration(p) \/ BeginCollect(p) \/ Protect(p) \/ EndCollect(p) \/ Cancel(p)
      PROVE  DataOK'
  BY <1>4 DEF SendRegistration, BeginCollect, Protect, EndCollect, Cancel, DataOK, Present
<1>5. ASSUME NEW p \in Clients, Validate(p) PROVE DataOK'
  <2>1. client[p].file[1] \in Contents
    BY <1>5, PutShape, Pair DEF Validate, ClientsOK
  <2> QED
    BY <1>5, <2>1 DEF Validate, DataOK, Present
<1>6. ASSUME NEW p \in Clients, Fetch(p) PROVE DataOK'
  <2>1. client[p].content \in Contents
    BY <1>6, GetShape DEF Fetch, ClientsOK
  <2> QED
    BY <1>6, <2>1 DEF Fetch, DataOK, Present
<1>7. ASSUME NEW j \in jobs, Rename(j) PROVE DataOK'
  <2>1. j.file \in File
    BY DEF WorkOK, Job
  <2> QED
    BY <1>7, <2>1 DEF Rename, DataOK, Present
<1>8. ASSUME NEW j \in jobs, Sync(j) PROVE DataOK'
  BY <1>8 DEF Sync, DataOK, Present
<1>9. ASSUME NEW j \in jobs, Check(j) \/ PublishFails(j) PROVE DataOK'
  <2>1. j.file[1] \in Contents
    BY Pair DEF WorkOK, Job
  <2>2. inherited' \subseteq Contents
    BY <1>9, <2>1 DEF Check, PublishFails, DataOK
  <2> QED
    BY <1>9, <2>2 DEF Check, PublishFails, DataOK, Present
<1>10. ASSUME NEW j \in jobs, Remove(j) PROVE DataOK'
  <2>1. j.file \in File
    BY DEF WorkOK, Job
  <2>2. CASE files' = [files EXCEPT ![j.file] = "absent"] /\ synced' = synced \ {j.file}
    BY <1>10, <2>1, <2>2 DEF Remove, DataOK, Present
  <2>3. CASE UNCHANGED <<files, synced>>
    BY <1>10, <2>3 DEF Remove, DataOK, Present
  <2> QED
    BY <1>10, <2>2, <2>3 DEF Remove
<1>11. ASSUME NEW m \in posted, CommitRegistration(m) PROVE DataOK'
  <2>1. m.file[1] \in Contents /\ m.file[2] \in Encodings
    BY Pair DEF WorkOK
  <2> QED
    BY <1>11, <2>1, RegistersOnce DEF CommitRegistration, DataOK, Present
<1>12. ASSUME NEW m \in posted, RegistrationFails(m) PROVE DataOK'
  BY <1>12 DEF RegistrationFails, DataOK, Present
<1>13. ASSUME NEW f \in File, Damage(f) PROVE DataOK'
  BY <1>13 DEF Damage, DataOK, Present
<1>14. ASSUME Restart PROVE DataOK'
  BY <1>14 DEF Restart, DataOK, Present
<1>15. ASSUME UNCHANGED vars PROVE DataOK'
  BY <1>15 DEF vars, DataOK, Present
<1> QED
  BY <1>1, <1>2, <1>3, <1>4, <1>5, <1>6, <1>7, <1>8, <1>9, <1>10, <1>11, <1>12, <1>13,
     <1>14, <1>15 DEF Next
-----------------------------------------------------------------------------
ControlOK == ClientsOK /\ WorkOK /\ JobsAreAwaited /\ RegistrationsAreAwaited

(* When a client moves on, other clients' jobs and registrations still have  *)
(* the client they had.                                                      *)
LEMMA StillAwaited ==
    ASSUME TypeInv, NEW p \in Clients \cup {Nobody},
           \A q \in Clients : q # p => client'[q] = client[q]
    PROVE  /\ \A j \in jobs : j.by \notin {p, Nobody} =>
                 client'[j.by].pc = IF j.kind = "remove" THEN "classify" ELSE "publish"
           /\ \A m \in posted : m.by \notin {p, Nobody} => client'[m.by].pc = "commit"
  BY DEF TypeInv, JobsAreAwaited, RegistrationsAreAwaited, WorkOK, Job

(* Whoever waits for a job or a registration holds the guard.                *)
LEMMA WaitersHoldTheGuard ==
    ASSUME TypeInv
    PROVE  /\ \A j \in jobs : j.by # Nobody => guard = j.by
           /\ \A m \in posted : m.by # Nobody => guard = m.by
           /\ \A j \in jobs, m \in posted : j.by # Nobody => m.by = Nobody
<1>1. \A j \in jobs : j.by # Nobody =>
          j.by \in Clients /\ client[j.by].pc \in {"classify", "publish"}
  BY DEF TypeInv, JobsAreAwaited, WorkOK, Job
<1>2. \A m \in posted : m.by # Nobody => m.by \in Clients /\ client[m.by].pc = "commit"
  BY DEF TypeInv, RegistrationsAreAwaited, WorkOK
<1>3. /\ \A j \in jobs : j.by # Nobody => guard = j.by
      /\ \A m \in posted : m.by # Nobody => guard = m.by
  BY <1>1, <1>2 DEF TypeInv, ClientsOK, UsesGuard
<1> QED
  BY <1>1, <1>2, <1>3

(* A client that neither waits nor will wait may move on.                    *)
LEMMA MovesAlone ==
    ASSUME TypeInv, ClientsOK', NEW p \in Clients,
           client[p].pc \notin {"publish", "classify", "commit"},
           \A q \in Clients : q # p => client'[q] = client[q],
           UNCHANGED <<jobs, posted>>
    PROVE  ControlOK'
<1>1. \A j \in jobs : j.by # p
  BY DEF TypeInv, JobsAreAwaited
<1>2. \A m \in posted : m.by # p
  BY DEF TypeInv, RegistrationsAreAwaited
<1> QED
  BY <1>1, <1>2, StillAwaited
     DEF TypeInv, ControlOK, WorkOK, JobsAreAwaited, RegistrationsAreAwaited

(* A job that ends leaves the others, none of which has its client.          *)
LEMMA JobEnds ==
    ASSUME TypeInv, NEW j \in jobs, NEW next \in ClientState,
           next = Idle \/ next.pc \notin {"idle", "fetch"},
           jobs' = jobs \ {j}, Resume(j.by, next), UNCHANGED posted
    PROVE  /\ ControlOK'
           /\ j.by # Nobody => client'[j.by] = next
           /\ \A q \in Clients : q # j.by => client'[q] = client[q]
<1>1. j.by \in Clients \cup {Nobody}
  BY DEF TypeInv, WorkOK, Job
<1>2. j.by # Nobody => UsesGuard(j.by)
  BY DEF TypeInv, JobsAreAwaited, UsesGuard
<1>3. /\ ClientsOK'
      /\ j.by # Nobody => client'[j.by] = next
      /\ \A q \in Clients : q # j.by => client'[q] = client[q]
  BY <1>1, <1>2, Resumes DEF TypeInv
<1>4. \A k \in jobs' : k.by # Nobody => k.by # j.by
  BY DEF TypeInv, JobsAreAwaited
<1>5. \A m \in posted : m.by # Nobody => m.by # j.by
  BY WaitersHoldTheGuard
<1>6. JobsAreAwaited'
  BY <1>1, <1>3, <1>4, StillAwaited DEF TypeInv, JobsAreAwaited
<1>7. RegistrationsAreAwaited'
  BY <1>1, <1>3, <1>5, StillAwaited DEF TypeInv, RegistrationsAreAwaited
<1> QED
  BY <1>3, <1>6, <1>7 DEF ControlOK, TypeInv, WorkOK

(* The same for a registration.                                              *)
LEMMA RegistrationEnds ==
    ASSUME TypeInv, NEW m \in posted, NEW next \in ClientState,
           next = Idle \/ next.pc \notin {"idle", "fetch"},
           posted' = posted \ {m}, Resume(m.by, next), UNCHANGED jobs
    PROVE  /\ ControlOK'
           /\ m.by # Nobody => client'[m.by] = next
           /\ \A q \in Clients : q # m.by => client'[q] = client[q]
<1>1. m.by \in Clients \cup {Nobody}
  BY DEF TypeInv, WorkOK
<1>2. m.by # Nobody => UsesGuard(m.by)
  BY DEF TypeInv, RegistrationsAreAwaited, UsesGuard
<1>3. /\ ClientsOK'
      /\ m.by # Nobody => client'[m.by] = next
      /\ \A q \in Clients : q # m.by => client'[q] = client[q]
  BY <1>1, <1>2, Resumes DEF TypeInv
<1>4. \A n \in posted' : n.by # Nobody => n.by # m.by
  BY DEF TypeInv, RegistrationsAreAwaited
<1>5. \A j \in jobs : j.by # Nobody => j.by # m.by
  BY WaitersHoldTheGuard
<1>6. JobsAreAwaited'
  BY <1>1, <1>3, <1>5, StillAwaited DEF TypeInv, JobsAreAwaited
<1>7. RegistrationsAreAwaited'
  BY <1>1, <1>3, <1>4, StillAwaited DEF TypeInv, RegistrationsAreAwaited
<1> QED
  BY <1>3, <1>6, <1>7 DEF ControlOK, TypeInv, WorkOK

(* A client that takes up a job is the only one waiting.                     *)
LEMMA JobBegins ==
    ASSUME TypeInv, NEW p \in Clients, guard \in {p, Nobody},
           client[p].pc \in {"idle", "protect"},
           NEW j \in Job, j.by = p, j.kind = "remove" <=> j.step = "remove",
           NEW next \in ClientState,
           next.pc = IF j.kind = "remove" THEN "classify" ELSE "publish",
           client' = [client EXCEPT ![p] = next], guard' = p,
           jobs' = jobs \cup {j}, UNCHANGED posted
    PROVE  ControlOK'
<1>1. /\ ClientsOK'
      /\ client'[p] = next
      /\ \A q \in Clients : q # p => client'[q] = client[q]
  BY MovesOn DEF TypeInv
<1>2. /\ \A k \in jobs : k.by = Nobody
      /\ \A m \in posted : m.by = Nobody
  BY WaitersHoldTheGuard DEF TypeInv, JobsAreAwaited, RegistrationsAreAwaited
<1>3. JobsAreAwaited' /\ RegistrationsAreAwaited'
  BY <1>1, <1>2 DEF TypeInv, JobsAreAwaited, RegistrationsAreAwaited
<1> QED
  BY <1>1, <1>3 DEF ControlOK, TypeInv, WorkOK

(* Every step keeps clients, guard, jobs and registrations in agreement.     *)
LEMMA ControlStep ==
    ASSUME TypeInv, [Next]_vars
    PROVE  ControlOK'
<1>1. ASSUME UNCHANGED <<guard, client, jobs, posted>> PROVE ControlOK'
  BY <1>1 DEF TypeInv, ControlOK, ClientsOK, UsesGuard, WorkOK, JobsAreAwaited,
              RegistrationsAreAwaited
<1>2. ASSUME NEW p \in Clients, NEW c \in Contents, BeginPut(p, c) PROVE ControlOK'
  <2>1. <<c, settings.encoding>> \in File
    BY DEF TypeInv, DataOK, File
  <2> DEFINE job == Publish(p, <<c, settings.encoding>>, "rename")
             next == Publishing(<<c, settings.encoding>>)
  <2>2. /\ job \in Job /\ job.by = p /\ job.kind = "publish" /\ job.step = "rename"
        /\ next \in ClientState /\ next.pc = "publish"
    BY <2>1 DEF Publish, Publishing, Job, ClientState
  <2>3. /\ client[p].pc = "idle" /\ guard = Nobody /\ guard' = p
        /\ client' = [client EXCEPT ![p] = next]
        /\ jobs' = jobs \cup {job} /\ UNCHANGED posted
    BY <1>2 DEF BeginPut, Idle
  <2> HIDE DEF job, next
  <2> QED
    BY <2>2, <2>3, JobBegins
<1>3. ASSUME NEW p \in Clients, NEW c \in Contents, BeginGet(p, c) PROVE ControlOK'
  <2> DEFINE next == [pc |-> "fetch", content |-> c, place |-> row[c].place,
                      knew |-> c \in receipts]
  <2>1. row[c].place \in Encodings \cup {"none"}
    BY <1>3 DEF BeginGet, TypeInv, DataOK
  <2>2. next \in ClientState
    BY <2>1 DEF ClientState
  <2>3. client[p].pc = "idle" /\ guard # p
    BY <1>3 DEF BeginGet, Idle, TypeInv, ClientsOK, UsesGuard
  <2>4. ClientsOK' /\ \A q \in Clients : q # p => client'[q] = client[q]
    BY <1>3, <2>2, <2>3, MovesOn DEF BeginGet, TypeInv
  <2> QED
    BY <1>3, <2>3, <2>4, MovesAlone DEF BeginGet
<1>4. ASSUME NEW p \in Clients, SendRegistration(p) PROVE ControlOK'
  <2> DEFINE next == [pc |-> "commit", file |-> client[p].file]
             message == [by |-> p, file |-> client[p].file]
  <2>1. client[p].file \in File /\ guard = p
    BY <1>4, PutShape DEF SendRegistration, TypeInv, ClientsOK, UsesGuard
  <2>2. next \in ClientState /\ message \in [by : Clients \cup {Nobody}, file : File]
    BY <2>1 DEF ClientState
  <2>3. /\ ClientsOK'
        /\ client'[p] = next
        /\ \A q \in Clients : q # p => client'[q] = client[q]
    BY <1>4, <2>1, <2>2, MovesOn DEF SendRegistration, TypeInv
  <2>4. /\ \A j \in jobs : j.by = Nobody
        /\ \A m \in posted : m.by = Nobody
    BY <1>4, <2>1, WaitersHoldTheGuard
       DEF SendRegistration, TypeInv, JobsAreAwaited, RegistrationsAreAwaited
  <2>5. posted' = posted \cup {message} /\ jobs' = jobs
    BY <1>4 DEF SendRegistration
  <2>6. JobsAreAwaited' /\ RegistrationsAreAwaited'
    BY <2>3, <2>4, <2>5 DEF TypeInv, JobsAreAwaited, RegistrationsAreAwaited
  <2> QED
    BY <2>2, <2>3, <2>5, <2>6 DEF ControlOK, TypeInv, WorkOK
<1>5. ASSUME NEW p \in Clients, Validate(p) \/ EndCollect(p) PROVE ControlOK'
  <2>1. client[p].pc \in {"validate", "protect"} /\ Idle \in ClientState
    BY <1>5 DEF Validate, EndCollect, ClientState
  <2>2. ClientsOK' /\ \A q \in Clients : q # p => client'[q] = client[q]
    BY <1>5, <2>1, Resumes DEF Validate, EndCollect, TypeInv, UsesGuard
  <2> QED
    BY <1>5, <2>1, <2>2, MovesAlone DEF Validate, EndCollect
<1>6. ASSUME NEW p \in Clients, Fetch(p) PROVE ControlOK'
  <2>1. client[p].pc = "fetch" /\ guard = Nobody /\ Idle \in ClientState /\ Idle.pc = "idle"
    BY <1>6 DEF Fetch, ClientState, Idle
  <2>2. ClientsOK' /\ \A q \in Clients : q # p => client'[q] = client[q]
    BY <1>6, <2>1, MovesOn DEF Fetch, TypeInv
  <2> QED
    BY <1>6, <2>1, <2>2, MovesAlone DEF Fetch
<1>7. ASSUME NEW p \in Clients, BeginCollect(p) PROVE ControlOK'
  <2> DEFINE next == [pc |-> "protect", todo |-> Present]
  <2>1. client[p].pc = "idle" /\ guard = Nobody
    BY <1>7 DEF BeginCollect, Idle
  <2>2. next \in ClientState
    BY DEF ClientState, Present
  <2>3. ClientsOK' /\ \A q \in Clients : q # p => client'[q] = client[q]
    BY <1>7, <2>1, <2>2, MovesOn DEF BeginCollect, TypeInv
  <2> QED
    BY <1>7, <2>1, <2>3, MovesAlone DEF BeginCollect
<1>8. ASSUME NEW p \in Clients, Protect(p) PROVE ControlOK'
  <2>1. PICK f \in client[p].todo :
          IF IsOrphan(f[1])
          THEN /\ jobs' = jobs \cup {Removal(p, f)}
               /\ client' = [client EXCEPT ![p] =
                                [pc |-> "classify", todo |-> client[p].todo \ {f}]]
          ELSE /\ client' = [client EXCEPT ![p] =
                                [pc |-> "protect", todo |-> client[p].todo \ {f}]]
               /\ UNCHANGED jobs
    BY <1>8 DEF Protect
  <2>2. client[p].pc = "protect" /\ guard = p /\ guard' = guard /\ UNCHANGED posted
    BY <1>8 DEF Protect, TypeInv, ClientsOK, UsesGuard
  <2>3. client[p].todo \in SUBSET File
    BY <2>2, CollectShape DEF TypeInv, ClientsOK
  <2>4. /\ Removal(p, f) \in Job
        /\ [pc |-> "classify", todo |-> client[p].todo \ {f}] \in ClientState
        /\ [pc |-> "protect", todo |-> client[p].todo \ {f}] \in ClientState
    BY <2>3 DEF Removal, Job, ClientState
  <2>5. CASE IsOrphan(f[1])
    BY <2>1, <2>2, <2>4, <2>5, JobBegins DEF Removal
  <2>6. CASE ~IsOrphan(f[1])
    <3>1. ClientsOK' /\ \A q \in Clients : q # p => client'[q] = client[q]
      BY <2>1, <2>2, <2>4, <2>6, MovesOn DEF TypeInv
    <3> QED
      BY <2>1, <2>2, <2>6, <3>1, MovesAlone
  <2> QED
    BY <2>5, <2>6
<1>9. ASSUME NEW p \in Clients, Cancel(p) PROVE ControlOK'
  <2>1. Idle \in ClientState /\ Idle.pc = "idle"
    BY DEF ClientState, Idle
  <2>2. /\ ClientsOK'
        /\ client'[p] = Idle
        /\ \A q \in Clients : q # p => client'[q] = client[q]
    BY <1>9, <2>1, MovesOn DEF Cancel, TypeInv
  <2>3. /\ \A j \in Job : /\ Abandon(j, p) \in Job
                          /\ Abandon(j, p).kind = j.kind /\ Abandon(j, p).step = j.step
                          /\ Abandon(j, p).by = IF j.by = p THEN Nobody ELSE j.by
                          /\ j.by # p => Abandon(j, p) = j
    BY DEF Abandon, Job
  <2>4. /\ \A m \in [by : Clients \cup {Nobody}, file : File] :
              /\ Abandon(m, p) \in [by : Clients \cup {Nobody}, file : File]
              /\ Abandon(m, p).by = IF m.by = p THEN Nobody ELSE m.by
              /\ m.by # p => Abandon(m, p) = m
    BY DEF Abandon
  <2>5. /\ jobs' = {Abandon(j, p) : j \in jobs}
        /\ posted' = {Abandon(m, p) : m \in posted}
        /\ jobs \subseteq Job
        /\ posted \subseteq [by : Clients \cup {Nobody}, file : File]
    BY <1>9 DEF Cancel, TypeInv, WorkOK
  <2> HIDE DEF Abandon
  <2>6. WorkOK'
    BY <2>3, <2>4, <2>5 DEF WorkOK
  <2>7. /\ \A j \in jobs' : j.by # Nobody => j \in jobs /\ j.by # p
        /\ \A m \in posted' : m.by # Nobody => m \in posted /\ m.by # p
    BY <2>3, <2>4, <2>5
  <2>8. \A j \in jobs' : j.kind = "remove" <=> j.step = "remove"
    BY <2>3, <2>5 DEF TypeInv, JobsAreAwaited
  <2>9. JobsAreAwaited'
    BY <2>2, <2>7, <2>8, StillAwaited DEF TypeInv, JobsAreAwaited
  <2>10. RegistrationsAreAwaited'
    BY <2>2, <2>7, StillAwaited DEF TypeInv, RegistrationsAreAwaited
  <2> QED
    BY <2>2, <2>6, <2>9, <2>10 DEF ControlOK
<1>10. ASSUME NEW j \in jobs, Rename(j) PROVE ControlOK'
  <2>1. PICK step \in {"sync", "check"} :
          jobs' = (jobs \ {j}) \cup {Publish(j.by, j.file, step)}
    BY <1>10 DEF Rename
  <2>2. Publish(j.by, j.file, step) \in Job
    BY DEF Publish, Job, TypeInv, WorkOK
  <2>3. j.kind = "publish" /\ UNCHANGED <<client, guard, posted>>
    BY <1>10 DEF Rename, TypeInv, JobsAreAwaited, WorkOK, Job
  <2>4. JobsAreAwaited' /\ RegistrationsAreAwaited'
    BY <2>1, <2>3 DEF Publish, TypeInv, JobsAreAwaited, RegistrationsAreAwaited
  <2> QED
    BY <2>1, <2>2, <2>3, <2>4 DEF ControlOK, TypeInv, WorkOK, ClientsOK, UsesGuard
<1>11. ASSUME NEW j \in jobs, Sync(j) \/ Check(j) \/ PublishFails(j) PROVE ControlOK'
  <2>1. PICK next \in {Idle, [pc |-> "register", file |-> j.file]} :
          Resume(j.by, next) /\ jobs' = jobs \ {j} /\ UNCHANGED posted
    BY <1>11 DEF Sync, Check, PublishFails
  <2>2. j.file \in File
    BY DEF TypeInv, WorkOK, Job
  <2>3. next \in ClientState /\ (next = Idle \/ next.pc \notin {"idle", "fetch"})
    BY <2>2 DEF ClientState
  <2> QED
    BY <2>1, <2>3, JobEnds
<1>12. ASSUME NEW j \in jobs, Remove(j) PROVE ControlOK'
  <2>1. CASE j.by = Nobody
    BY <1>12, <2>1, JobEnds DEF Remove, Resume, Idle, ClientState
  <2>2. CASE j.by # Nobody
    <3>1. PICK next \in {Idle, [pc |-> "protect", todo |-> client[j.by].todo]} :
            Resume(j.by, next) /\ jobs' = jobs \ {j} /\ UNCHANGED posted
      BY <1>12 DEF Remove
    <3>2. j.by \in Clients /\ client[j.by].pc = "classify"
      BY <1>12, <2>2 DEF Remove, TypeInv, WorkOK, Job, JobsAreAwaited
    <3>3. client[j.by].todo \in SUBSET File
      BY <3>2, CollectShape DEF TypeInv, ClientsOK
    <3>4. next \in ClientState /\ (next = Idle \/ next.pc \notin {"idle", "fetch"})
      BY <3>3 DEF ClientState
    <3> QED
      BY <3>1, <3>4, JobEnds
  <2> QED
    BY <2>1, <2>2
<1>13. ASSUME NEW m \in posted, CommitRegistration(m) \/ RegistrationFails(m)
       PROVE  ControlOK'
  <2>1. PICK next \in {Idle, [pc |-> "validate", file |-> m.file]} :
          Resume(m.by, next) /\ posted' = posted \ {m} /\ UNCHANGED jobs
    BY <1>13 DEF CommitRegistration, RegistrationFails
  <2>2. m.file \in File
    BY DEF TypeInv, WorkOK
  <2>3. next \in ClientState /\ (next = Idle \/ next.pc \notin {"idle", "fetch"})
    BY <2>2 DEF ClientState
  <2> QED
    BY <2>1, <2>3, RegistrationEnds
<1>14. ASSUME Restart PROVE ControlOK'
  <2>1. Idle \in ClientState
    BY DEF ClientState
  <2> QED
    BY <1>14, <2>1 DEF Restart, ControlOK, ClientsOK, UsesGuard, Idle, WorkOK,
                       JobsAreAwaited, RegistrationsAreAwaited
<1> QED
  BY <1>1, <1>2, <1>3, <1>4, <1>5, <1>6, <1>7, <1>8, <1>9, <1>10, <1>11, <1>12, <1>13, <1>14
     DEF Next, PutInline, Pin, Unpin, Damage, vars

(* TypeInv holds of every reachable state.                                   *)
LEMMA TypeInvariant == Spec => []TypeInv
<1>1. Init => TypeInv
  <2> SUFFICES ASSUME Init PROVE TypeInv
    OBVIOUS
  <2>1. DataOK
    BY DEF Init, DataOK, Present
  <2>2. Idle \in ClientState /\ Idle.pc = "idle"
    BY DEF ClientState, Idle
  <2>3. ClientsOK
    BY <2>2 DEF Init, ClientsOK, UsesGuard
  <2> QED
    BY <2>1, <2>3 DEF Init, TypeInv, WorkOK, JobsAreAwaited, RegistrationsAreAwaited
<1>2. TypeInv /\ [Next]_vars => TypeInv'
  BY DataStep, ControlStep DEF TypeInv, ControlOK
<1> QED
  BY <1>1, <1>2, PTL DEF Spec

(* Every reachable state is well typed, and the guard is held exactly by the *)
(* client that took it, also when callers are cancelled (cas_guard).         *)
THEOREM BlobTypeCorrect == Spec => []BlobTypeOK
<1>1. TypeInv => BlobTypeOK
  BY DEF TypeInv, DataOK, ClientsOK, WorkOK, BlobTypeOK
<1> QED
  BY <1>1, TypeInvariant, PTL
-----------------------------------------------------------------------------
(* A file that may be referred to: it is there, and its name is durable or   *)
(* inherited from a put that did not sync it.                                *)
Referable(f) == f \in Present /\ (f \in synced \/ f[1] \in inherited)

(* What makes ReferencesAreDurable inductive: a put that has its file, or    *)
(* has posted its registration, can refer to it, and a removal has a waiting *)
(* collection, a content without a file reference, and no registration that  *)
(* could give it one.                                                        *)
PutsAreReferable ==
    /\ \A p \in Clients :
          client[p].pc = "register" => Referable(client[p].file)
    /\ \A m \in posted : Referable(m.file)
    /\ \A j \in jobs : j.step = "sync" /\ j.by # Nobody => j.file \in Present

RemovalsAreSafe ==
    \A j \in jobs : j.kind = "remove" =>
        /\ j.by # Nobody /\ posted = {}
        /\ ~External(j.file[1])

DurableInv == TypeInv /\ PutsAreReferable /\ RemovalsAreSafe /\ ReferencesAreDurable

(* A collection at work: nobody is putting a file.                           *)
LEMMA RemovalExcludesPuts ==
    ASSUME DurableInv, NEW j \in jobs, j.kind = "remove"
    PROVE  /\ posted = {}
           /\ guard = j.by /\ j.by \in Clients /\ client[j.by].pc = "classify"
           /\ \A p \in Clients :
                 p # guard => client[p].pc \notin {"publish", "register", "commit", "protect"}
           /\ \A k \in jobs : k # j => k.by = Nobody
<1>1. j.by # Nobody /\ posted = {} /\ j.by \in Clients
  BY DEF DurableInv, RemovalsAreSafe, TypeInv, WorkOK, Job
<1>2. guard = j.by /\ client[j.by].pc = "classify"
  BY <1>1, WaitersHoldTheGuard DEF DurableInv, TypeInv, JobsAreAwaited
<1>3. \A p \in Clients :
         p # guard => client[p].pc \notin {"publish", "register", "commit", "protect"}
  BY DEF DurableInv, TypeInv, ClientsOK, UsesGuard
<1> QED
  BY <1>1, <1>2, <1>3 DEF DurableInv, TypeInv, JobsAreAwaited

(* What a step that takes no file, no name and no new reference leaves to    *)
(* check: the puts, registrations and jobs that are new.                     *)
LEMMA Carries ==
    ASSUME DurableInv, TypeInv',
           Present \subseteq Present', synced \subseteq synced',
           inherited \subseteq inherited',
           \A c \in Contents : External(c)' => row'[c].place = row[c].place,
           \A p \in Clients : client'[p].pc = "register" =>
               client'[p] = client[p] \/ \E f \in File : client'[p].file = f /\ Referable(f)',
           \A m \in posted' : Referable(m.file)' \/ \E n \in posted : n.file = m.file,
           \A j \in jobs' : j.step = "sync" /\ j.by # Nobody =>
               j \in jobs \/ j.file \in Present',
           \A j \in jobs' : j.kind = "remove" =>
               j \in jobs \/ (j.by # Nobody /\ ~External(j.file[1])),
           \A j \in jobs' : j.kind = "remove" => posted' = {}
    PROVE  DurableInv'
<1>1. \A f : Referable(f) => Referable(f)'
  BY DEF Referable
<1>2. ReferencesAreDurable'
  <2>1. \A c \in Contents : External(c)' => External(c)
    BY DEF External
  <2> QED
    BY <2>1 DEF DurableInv, ReferencesAreDurable
<1>3. PutsAreReferable'
  <2>1. ASSUME NEW p \in Clients, client'[p].pc = "register"
        PROVE  \E f : client'[p].file = f /\ Referable(f)'
    <3>1. CASE client'[p] = client[p]
      BY <1>1, <2>1, <3>1 DEF DurableInv, PutsAreReferable
    <3>2. CASE client'[p] # client[p]
      BY <2>1, <3>2
    <3> QED
      BY <3>1, <3>2
  <2>2. \A m \in posted' : Referable(m.file)'
    BY <1>1 DEF DurableInv, PutsAreReferable
  <2>3. \A j \in jobs' : j.step = "sync" /\ j.by # Nobody => j.file \in Present'
    BY DEF DurableInv, PutsAreReferable
  <2> QED
    BY <2>1, <2>2, <2>3 DEF PutsAreReferable, Referable
<1>4. RemovalsAreSafe'
  <2>1. \A j \in jobs' : j.file[1] \in Contents
    BY Pair DEF TypeInv, WorkOK, Job
  <2>2. \A c \in Contents : External(c)' => External(c)
    BY DEF External
  <2> QED
    BY <2>1, <2>2 DEF DurableInv, RemovalsAreSafe
<1> QED
  BY <1>2, <1>3, <1>4 DEF DurableInv

(* What Resume leaves of the clients about to register.                      *)
LEMMA RegistersWith ==
    ASSUME TypeInv, NEW by \in Clients \cup {Nobody}, NEW f, NEW next,
           next = Idle \/ next = [pc |-> "register", file |-> f] \/ next.pc # "register",
           Resume(by, next)
    PROVE  \A p \in Clients : client'[p].pc = "register" =>
               client'[p] = client[p]
                  \/ (p = by /\ next = [pc |-> "register", file |-> f] /\ client'[p].file = f)
  BY DEF TypeInv, ClientsOK, Resume, Idle

(* Without cancelled collections, every step keeps the invariant.            *)
LEMMA DurableStep ==
    ASSUME CancelCollect = FALSE, DurableInv, [Next]_vars
    PROVE  DurableInv'
<1>0. TypeInv /\ TypeInv'
  BY DataStep, ControlStep DEF DurableInv, TypeInv, ControlOK
<1>a. /\ \A j \in jobs : j.kind = "remove" => j.by # Nobody /\ posted = {}
      /\ \A j \in jobs : j.by \in Clients \cup {Nobody} /\ j.file \in File
      /\ \A m \in posted : m.by \in Clients \cup {Nobody} /\ m.file \in File
  BY <1>0 DEF DurableInv, RemovalsAreSafe, TypeInv, WorkOK, Job
<1>1. ASSUME NEW c \in Contents, PutInline(c) PROVE DurableInv'
  <2>1. \A d \in Contents : row'[d].place \in {row[d].place, "inline"}
    BY <1>0, <1>1, RegistersOnce DEF PutInline, TypeInv
  <2> QED
    BY <1>0, <1>a, <1>1, <2>1, Carries DEF PutInline, External, Present
<1>2. ASSUME NEW c \in Contents, Pin(c) \/ Unpin(c) PROVE DurableInv'
  <2>1. row[c].pins \in Nat /\ row \in [Contents -> [place : Encodings \cup {"none", "inline"}, pins : 0 .. MaxPins]]
    BY <1>0 DEF TypeInv, DataOK
  <2>2. \A d \in Contents : row'[d].place = row[d].place
    BY <1>2, <2>1 DEF Pin, Unpin
  <2> QED
    BY <1>0, <1>a, <1>2, <2>2, Carries DEF Pin, Unpin, External, Present
<1>3. ASSUME NEW p \in Clients, NEW c \in Contents, BeginPut(p, c) PROVE DurableInv'
  <2>1. jobs' = jobs \cup {Publish(p, <<c, settings.encoding>>, "rename")}
    BY <1>3 DEF BeginPut
  <2>2. /\ \A j \in jobs' : j.step = "sync" \/ j.kind = "remove" => j \in jobs
        /\ \A q \in Clients : client'[q].pc = "register" => client'[q] = client[q]
    BY <1>0, <1>3, <2>1 DEF BeginPut, Publish, Publishing, TypeInv, ClientsOK
  <2> QED
    BY <1>0, <1>a, <1>3, <2>2, Carries DEF BeginPut, Present, External
<1>4. ASSUME NEW p \in Clients, NEW c \in Contents, BeginGet(p, c) PROVE DurableInv'
  <2>1. \A q \in Clients : client'[q].pc = "register" => client'[q] = client[q]
    BY <1>0, <1>4 DEF BeginGet, TypeInv, ClientsOK
  <2> QED
    BY <1>0, <1>a, <1>4, <2>1, Carries DEF BeginGet, Present, External
<1>5. ASSUME NEW p \in Clients, SendRegistration(p) PROVE DurableInv'
  <2>1. guard = p /\ Referable(client[p].file)
    BY <1>0, <1>5 DEF SendRegistration, TypeInv, ClientsOK, UsesGuard, DurableInv,
                      PutsAreReferable
  <2>2. \A j \in jobs : j.kind # "remove"
    BY <1>5, <2>1, RemovalExcludesPuts DEF SendRegistration
  <2>3. Referable(client[p].file)'
    BY <1>5, <2>1 DEF SendRegistration, Referable, Present
  <2>4. \A m \in posted' : Referable(m.file)' \/ \E n \in posted : n.file = m.file
    BY <1>5, <2>1 DEF SendRegistration, Referable, Present
  <2>5. \A q \in Clients : client'[q].pc = "register" => client'[q] = client[q]
    BY <1>0, <1>5 DEF SendRegistration, TypeInv, ClientsOK
  <2> QED
    BY <1>0, <1>5, <2>2, <2>4, <2>5, Carries DEF SendRegistration, Present, External
<1>6. ASSUME NEW p \in Clients, Validate(p) \/ EndCollect(p) \/ Fetch(p) \/ BeginCollect(p)
      PROVE  DurableInv'
  <2>1. \A q \in Clients : client'[q].pc = "register" => client'[q] = client[q]
    BY <1>0, <1>6 DEF Validate, EndCollect, Fetch, BeginCollect, Resume, Idle, TypeInv, ClientsOK
  <2> QED
    BY <1>0, <1>a, <1>6, <2>1, Carries
       DEF Validate, EndCollect, Fetch, BeginCollect, Present, External
<1>7. ASSUME NEW p \in Clients, Protect(p) PROVE DurableInv'
  <2>1. PICK f \in client[p].todo :
          \/ /\ IsOrphan(f[1]) /\ jobs' = jobs \cup {Removal(p, f)}
             /\ client' = [client EXCEPT ![p] =
                                [pc |-> "classify", todo |-> client[p].todo \ {f}]]
          \/ /\ client' = [client EXCEPT ![p] =
                                [pc |-> "protect", todo |-> client[p].todo \ {f}]]
             /\ UNCHANGED jobs
    BY <1>7 DEF Protect
  <2>2. \A q \in Clients : client'[q].pc = "register" => client'[q] = client[q]
    BY <1>0, <2>1 DEF TypeInv, ClientsOK
  <2>3. \A j \in jobs' : j \in jobs \/ (/\ j.kind = "remove" /\ j.step = "remove"
                                        /\ j.by # Nobody /\ ~External(j.file[1]))
    BY <2>1 DEF Removal, IsOrphan, External
  <2>4. UNCHANGED <<row, files, synced, inherited, posted>> /\ posted = {}
    BY <1>7 DEF Protect
  <2> QED
    BY <1>0, <2>2, <2>3, <2>4, Carries DEF Present, External
<1>8. ASSUME NEW p \in Clients, Cancel(p) PROVE DurableInv'
  <2>1. client[p].pc \notin {"protect", "classify"}
    BY <1>8 DEF Cancel
  <2>2. \A j \in jobs : j.kind = "remove" => j.by # p
    BY <1>0, <2>1 DEF TypeInv, JobsAreAwaited
  <2>3. \A j \in Job : /\ Abandon(j, p).kind = j.kind /\ Abandon(j, p).step = j.step
                       /\ Abandon(j, p).by # Nobody => Abandon(j, p) = j
                       /\ j.by # p => Abandon(j, p) = j
    BY DEF Abandon, Job
  <2>4. \A m \in [by : Clients \cup {Nobody}, file : File] : Abandon(m, p).file = m.file
    BY DEF Abandon
  <2>5. /\ jobs' = {Abandon(j, p) : j \in jobs}
        /\ posted' = {Abandon(m, p) : m \in posted}
        /\ jobs \subseteq Job
        /\ posted \subseteq [by : Clients \cup {Nobody}, file : File]
        /\ UNCHANGED <<row, files, synced, inherited>>
    BY <1>0, <1>8 DEF Cancel, TypeInv, WorkOK
  <2> HIDE DEF Abandon
  <2>6. \A j \in jobs' : j.kind = "remove" \/ (j.step = "sync" /\ j.by # Nobody) => j \in jobs
    BY <2>2, <2>3, <2>5
  <2>7. \A m \in posted' : \E n \in posted : n.file = m.file
    BY <2>4, <2>5
  <2>8. posted = {} => posted' = {}
    BY <2>5
  <2>9. \A q \in Clients : client'[q].pc = "register" => client'[q] = client[q]
    BY <1>0, <1>8 DEF Cancel, Idle, TypeInv, ClientsOK
  <2> QED
    BY <1>0, <1>a, <2>5, <2>6, <2>7, <2>8, <2>9, Carries DEF Present, External
<1>9. ASSUME NEW j \in jobs, Rename(j) PROVE DurableInv'
  <2>1. \E step \in {"sync", "check"} :
           /\ jobs' = (jobs \ {j}) \cup {Publish(j.by, j.file, step)}
           /\ step = "sync" => files' = [files EXCEPT ![j.file] = "whole"]
           /\ step = "check" => UNCHANGED files
    BY <1>9 DEF Rename
  <2>2. Present \subseteq Present'
    BY <1>0, <1>9 DEF Rename, Present, TypeInv, DataOK
  <2>3. /\ \A k \in jobs' : k.step = "sync" => k \in jobs \/ k.file \in Present'
        /\ \A k \in jobs' : k.kind = "remove" => k \in jobs
    BY <1>0, <1>a, <2>1 DEF Publish, Present, TypeInv, DataOK
  <2> QED
    BY <1>0, <1>a, <1>9, <2>2, <2>3, Carries DEF Rename, External
<1>10. ASSUME NEW j \in jobs, Sync(j) PROVE DurableInv'
  <2>1. j.by # Nobody => j.file \in Present
    BY <1>10 DEF Sync, DurableInv, PutsAreReferable
  <2>2. j.by # Nobody => Referable(j.file)'
    BY <1>a, <1>10, <2>1 DEF Sync, Referable, Present
  <2>3. \A p \in Clients : client'[p].pc = "register" =>
           client'[p] = client[p] \/ \E f \in File : client'[p].file = f /\ Referable(f)'
    <3>1. Resume(j.by, [pc |-> "register", file |-> j.file])
      BY <1>10 DEF Sync
    <3> QED
      BY <1>0, <1>a, <2>2, <3>1, RegistersWith
  <2> QED
    BY <1>0, <1>a, <1>10, <2>3, Carries DEF Sync, Present, External
<1>11. ASSUME NEW j \in jobs, Check(j) \/ PublishFails(j) PROVE DurableInv'
  <2>1. PICK next \in {Idle, [pc |-> "register", file |-> j.file]} :
          /\ Resume(j.by, next)
          /\ next = [pc |-> "register", file |-> j.file] =>
                files[j.file] = "whole" /\ (j.file \in synced \/ j.file[1] \in inherited')
    BY <1>11 DEF Check, PublishFails, Idle
  <2>2. UNCHANGED <<row, files, synced, posted>> /\ jobs' = jobs \ {j}
        /\ inherited \subseteq inherited'
    BY <1>11 DEF Check, PublishFails
  <2>3. next = [pc |-> "register", file |-> j.file] => Referable(j.file)'
    BY <1>a, <2>1, <2>2 DEF Referable, Present
  <2>4. \A p \in Clients : client'[p].pc = "register" =>
           client'[p] = client[p] \/ \E f \in File : client'[p].file = f /\ Referable(f)'
    BY <1>0, <1>a, <2>1, <2>3, RegistersWith
  <2> QED
    BY <1>0, <1>a, <2>2, <2>4, Carries DEF Present, External
<1>12. ASSUME NEW j \in jobs, Remove(j) PROVE DurableInv'
  <2>1. j.kind = "remove" /\ jobs' = jobs \ {j} /\ UNCHANGED <<row, posted, inherited>>
    BY <1>12 DEF Remove
  <2>2. /\ posted = {} /\ guard = j.by /\ j.by \in Clients
        /\ \A p \in Clients :
              p # guard => client[p].pc \notin {"publish", "register", "commit", "protect"}
        /\ \A k \in jobs : k # j => k.by = Nobody
    BY <2>1, RemovalExcludesPuts
  <2>3. \A p \in Clients : client'[p].pc # "register"
    <3>1. PICK next \in {Idle, [pc |-> "protect", todo |-> client[j.by].todo]} : Resume(j.by, next)
      BY <1>12 DEF Remove
    <3> QED
      BY <1>0, <2>2, <3>1 DEF Resume, Idle, TypeInv, ClientsOK
  <2>4. PutsAreReferable'
    BY <2>1, <2>2, <2>3 DEF PutsAreReferable
  <2>5. RemovalsAreSafe'
    BY <2>1 DEF DurableInv, RemovalsAreSafe, External
  <2>6. ~External(j.file[1])
    BY <2>1 DEF DurableInv, RemovalsAreSafe
  <2>7. synced \ {j.file} \subseteq synced'
    BY <1>12 DEF Remove
  <2>8. ReferencesAreDurable'
    <3> SUFFICES ASSUME NEW c \in Contents \ inherited, External(c)
                 PROVE  <<c, row[c].place>> \in synced'
      BY <2>1 DEF ReferencesAreDurable, External
    <3>1. <<c, row[c].place>> \in synced
      BY DEF DurableInv, ReferencesAreDurable
    <3>2. <<c, row[c].place>> # j.file
      BY <1>a, <2>6 DEF External
    <3> QED
      BY <2>7, <3>1, <3>2
  <2> QED
    BY <1>0, <2>4, <2>5, <2>8 DEF DurableInv
<1>13. ASSUME NEW m \in posted, CommitRegistration(m) PROVE DurableInv'
  <2>1. /\ m.file[1] \in Contents /\ m.file[2] \in Encodings
        /\ m.file = <<m.file[1], m.file[2]>> /\ Referable(m.file)
    BY <1>a, Pair DEF DurableInv, PutsAreReferable
  <2>2. /\ \A d \in Contents : row'[d].place \in {row[d].place, m.file[2]}
        /\ \A d \in Contents : d # m.file[1] => row'[d] = row[d]
    BY <1>0, <1>13, <2>1, RegistersOnce DEF CommitRegistration, TypeInv
  <2>3. posted' \subseteq posted /\ UNCHANGED <<files, synced, inherited, jobs>>
    BY <1>13 DEF CommitRegistration
  <2>4. \A j \in jobs : j.kind # "remove"
    BY <1>a
  <2>5. \A p \in Clients : client'[p].pc = "register" => client'[p] = client[p]
    BY <1>0, <1>a, <1>13 DEF CommitRegistration, Resume, TypeInv, ClientsOK
  <2>6. PutsAreReferable'
    BY <2>3, <2>5 DEF DurableInv, PutsAreReferable, Referable, Present
  <2>7. RemovalsAreSafe'
    BY <2>3, <2>4 DEF RemovalsAreSafe
  <2>8. ReferencesAreDurable'
    <3> SUFFICES ASSUME NEW c \in Contents \ inherited, row'[c].place \in Encodings
                 PROVE  <<c, row'[c].place>> \in synced
      BY <2>3 DEF ReferencesAreDurable, External
    <3>1. CASE row'[c].place = row[c].place
      BY <3>1 DEF DurableInv, ReferencesAreDurable, External
    <3>2. CASE row'[c].place # row[c].place
      BY <2>1, <2>2, <3>2 DEF Referable
    <3> QED
      BY <3>1, <3>2
  <2> QED
    BY <1>0, <2>6, <2>7, <2>8 DEF DurableInv
<1>14. ASSUME NEW m \in posted, RegistrationFails(m) PROVE DurableInv'
  <2>1. \A p \in Clients : client'[p].pc = "register" => client'[p] = client[p]
    BY <1>0, <1>a, <1>14 DEF RegistrationFails, Resume, Idle, TypeInv, ClientsOK
  <2> QED
    BY <1>0, <1>a, <1>14, <2>1, Carries DEF RegistrationFails, Present, External
<1>15. ASSUME NEW f \in File, Damage(f) PROVE DurableInv'
  <2>1. Present' = Present
    BY <1>0, <1>15 DEF Damage, Present, TypeInv, DataOK
  <2> QED
    BY <1>0, <1>a, <1>15, <2>1, Carries DEF Damage, External
<1>16. ASSUME Restart PROVE DurableInv'
  <2>1. PutsAreReferable' /\ RemovalsAreSafe'
    BY <1>16 DEF Restart, PutsAreReferable, RemovalsAreSafe, Idle
  <2>2. ReferencesAreDurable'
    BY <1>16 DEF Restart, DurableInv, ReferencesAreDurable, External
  <2> QED
    BY <1>0, <2>1, <2>2 DEF DurableInv
<1>17. ASSUME UNCHANGED vars PROVE DurableInv'
  BY <1>0, <1>a, <1>17, Carries DEF vars, Present, External
<1> QED
  BY <1>1, <1>2, <1>3, <1>4, <1>5, <1>6, <1>7, <1>8, <1>9, <1>10, <1>11, <1>12, <1>13,
     <1>14, <1>15, <1>16, <1>17 DEF Next

(* DurableInv holds of every reachable state if collections are not          *)
(* cancelled.                                                                *)
LEMMA DurableInvariant ==
    ASSUME CancelCollect = FALSE
    PROVE  Spec => []DurableInv
<1>1. Init => DurableInv
  <2> SUFFICES ASSUME Init PROVE DurableInv
    OBVIOUS
  <2>1. TypeInv
    <3>1. DataOK
      BY DEF Init, DataOK, Present
    <3>2. Idle \in ClientState /\ Idle.pc = "idle"
      BY DEF ClientState, Idle
    <3> QED
      BY <3>1, <3>2 DEF Init, TypeInv, ClientsOK, UsesGuard, WorkOK, JobsAreAwaited,
                        RegistrationsAreAwaited
  <2> QED
    BY <2>1 DEF Init, DurableInv, PutsAreReferable, RemovalsAreSafe, ReferencesAreDurable,
                External, Idle
<1>2. DurableInv /\ [Next]_vars => DurableInv'
  BY DurableStep
<1> QED
  BY <1>1, <1>2, PTL DEF Spec

(* What a strict put published and referred to itself survives a power loss: *)
(* the name is durable before the reference, unless it was inherited.        *)
THEOREM ReferencesAreDurableAlways ==
    ASSUME CancelCollect = FALSE
    PROVE  Spec => []ReferencesAreDurable
<1>1. DurableInv => ReferencesAreDurable
  BY DEF DurableInv
<1> QED
  BY <1>1, DurableInvariant, PTL

(* No interleaving of puts, gets, collections, cancelled callers, crashes    *)
(* and power losses leaves a committed reference without its file, unless    *)
(* the name was inherited from a put that did not sync it.                   *)
THEOREM NoDanglingReferenceAlways ==
    ASSUME CancelCollect = FALSE
    PROVE  Spec => []NoDanglingReference
<1>1. DurableInv => NoDanglingReference
  BY DEF DurableInv, TypeInv, DataOK, ReferencesAreDurable, NoDanglingReference
<1> QED
  BY <1>1, DurableInvariant, PTL
-----------------------------------------------------------------------------
(* A step keeps the place of a row and at most takes one pin away.           *)
LEMMA RowsStay ==
    ASSUME TypeInv, [Next]_vars, NEW c \in Contents, row[c].place # "none"
    PROVE  row'[c].place = row[c].place /\ row'[c].pins + 1 >= row[c].pins
<1>0. row[c].pins \in 0 .. MaxPins
  BY DEF TypeInv, DataOK
<1>1. CASE row'[c] = row[c]
  BY <1>0, <1>1
<1>2. ASSUME NEW d \in Contents, PutInline(d) PROVE row'[c] = row[c]
  BY <1>2, RegistersOnce DEF PutInline, TypeInv
<1>3. ASSUME NEW m \in posted, CommitRegistration(m) PROVE row'[c] = row[c]
  <2>1. m.file[1] \in Contents /\ m.file[2] \in Encodings
    BY Pair DEF TypeInv, WorkOK
  <2> QED
    BY <1>3, <2>1, RegistersOnce DEF CommitRegistration, TypeInv
<1>4. ASSUME NEW d \in Contents, Pin(d) \/ Unpin(d)
      PROVE  row'[c].place = row[c].place /\ row'[c].pins + 1 >= row[c].pins
  <2>1. row \in [Contents -> [place : Encodings \cup {"none", "inline"}, pins : 0 .. MaxPins]]
    BY DEF TypeInv, DataOK
  <2> QED
    BY <1>0, <1>4, <2>1 DEF Pin, Unpin
<1> QED
  BY <1>1, <1>2, <1>3, <1>4
     DEF Next, vars, BeginPut, BeginGet, SendRegistration, Validate, Fetch, BeginCollect, Protect,
         EndCollect, Cancel, Rename, Sync, Check, PublishFails, Remove, RegistrationFails,
         Damage, Restart

(* A committed location never changes, whatever the settings of later        *)
(* processes, and putting a content again keeps its pins.                    *)
THEOREM ReferencesAreImmutableAlways == Spec => ReferencesAreImmutable
<1>1. TypeInv /\ [Next]_vars => [\A c \in Contents : row[c].place # "none" =>
          /\ row'[c].place = row[c].place
          /\ row'[c].pins + 1 >= row[c].pins]_vars
  BY RowsStay
<1> QED
  BY <1>1, TypeInvariant, PTL DEF Spec, ReferencesAreImmutable

(* What a get relies on: a receipt, and a put about to give one, means a     *)
(* row; a get that began with a receipt looks for the file the row names.    *)
Known ==
    /\ \A c \in receipts : row[c].place # "none"
    /\ \A p \in Clients : client[p].pc = "validate" => row[client[p].file[1]].place # "none"
    /\ \A p \in Clients : client[p].pc = "fetch" /\ client[p].knew =>
          /\ client[p].place \in Encodings
          /\ row[client[p].content].place = client[p].place
    /\ missed \subseteq inherited

(* A step that gives no receipt, ends no get and begins none keeps Known.    *)
LEMMA KnownCarries ==
    ASSUME TypeInv, [Next]_vars, Known,
           \A p \in Clients : client'[p].pc \in {"validate", "fetch"} => client'[p] = client[p],
           receipts' = receipts, missed' = missed, inherited \subseteq inherited'
    PROVE  Known'
<1>1. \A c \in Contents : row[c].place # "none" => row'[c].place = row[c].place
  BY RowsStay
<1>2. /\ \A p \in Clients : client[p].pc = "validate" => client[p].file[1] \in Contents
      /\ \A p \in Clients : client[p].pc = "fetch" => client[p].content \in Contents
  BY PutShape, GetShape, Pair DEF TypeInv, ClientsOK
<1>3. receipts \subseteq Contents
  BY DEF TypeInv, DataOK
<1> QED
  BY <1>1, <1>2, <1>3 DEF Known

(* Every step keeps Known.                                                   *)
LEMMA KnownStep ==
    ASSUME DurableInv, Known, [Next]_vars
    PROVE  Known'
<1>0. TypeInv
  BY DEF DurableInv
<1>1. ASSUME NEW c \in Contents, PutInline(c) PROVE Known'
  <2>1. \A d \in Contents : row[d].place # "none" => row'[d].place = row[d].place
    BY <1>0, RowsStay
  <2>2. row'[c].place # "none"
    BY <1>0, <1>1 DEF PutInline, Registered, Replaced, TypeInv, DataOK
  <2>3. /\ \A p \in Clients : client[p].pc = "validate" => client[p].file[1] \in Contents
        /\ \A p \in Clients : client[p].pc = "fetch" => client[p].content \in Contents
    BY <1>0, PutShape, GetShape, Pair DEF TypeInv, ClientsOK
  <2> QED
    BY <1>0, <1>1, <2>1, <2>2, <2>3 DEF PutInline, Known, TypeInv, DataOK
<1>2. ASSUME NEW p \in Clients, NEW c \in Contents, BeginGet(p, c) PROVE Known'
  <2>1. row[c].place \in Encodings \cup {"none"}
    BY <1>0, <1>2 DEF BeginGet, TypeInv, DataOK
  <2>2. /\ client'[p] = [pc |-> "fetch", content |-> c, place |-> row[c].place,
                         knew |-> c \in receipts]
        /\ \A q \in Clients : q # p => client'[q] = client[q]
    BY <1>0, <1>2 DEF BeginGet, TypeInv, ClientsOK
  <2>3. client'[p].pc = "fetch" /\ client'[p].content = c /\ client'[p].place = row[c].place
    BY <2>2
  <2>4. client'[p].knew = (c \in receipts)
    BY <2>2
  <2>5. client'[p].knew => row[c].place # "none"
    BY <2>4, Zenon DEF Known
  <2>6. UNCHANGED <<row, receipts, missed, inherited>>
    BY <1>2 DEF BeginGet
  <2> HIDE DEF Known
  <2>7. ASSUME NEW q \in Clients
        PROVE  /\ client'[q].pc = "validate" => row[client'[q].file[1]].place # "none"
               /\ client'[q].pc = "fetch" /\ client'[q].knew =>
                      /\ client'[q].place \in Encodings
                      /\ row[client'[q].content].place = client'[q].place
    <3>1. CASE q = p
      BY <2>1, <2>3, <2>5, <3>1
    <3>2. CASE q # p
      BY <2>2, <3>2 DEF Known
    <3> QED
      BY <3>1, <3>2
  <2> QED
    BY <2>6, <2>7 DEF Known
<1>3. ASSUME NEW p \in Clients, Validate(p) PROVE Known'
  <2>1. \A q \in Clients : client'[q] = client[q] \/ client'[q].pc = "idle"
    BY <1>0, <1>3 DEF Validate, Resume, Idle, TypeInv, ClientsOK
  <2>2. row[client[p].file[1]].place # "none"
    BY <1>3 DEF Validate, Known
  <2> QED
    BY <1>3, <2>1, <2>2 DEF Validate, Known
<1>4. ASSUME NEW p \in Clients, Fetch(p) PROVE Known'
  <2>1. \A q \in Clients : client'[q] = client[q] \/ client'[q].pc = "idle"
    BY <1>0, <1>4 DEF Fetch, Idle, TypeInv, ClientsOK
  <2>2. missed' \subseteq inherited
    <3> DEFINE c == client[p].content
    <3>1. client[p].pc = "fetch" /\ c \in Contents
      BY <1>0, <1>4, GetShape DEF Fetch, TypeInv, ClientsOK
    <3>2. missed' # missed => /\ missed' = missed \cup {c} /\ client[p].knew
                              /\ client[p].place # "none" => <<c, client[p].place>> \notin Present
      BY <1>4 DEF Fetch
    <3>3. client[p].knew => client[p].place \in Encodings /\ row[c].place = client[p].place
      BY <3>1 DEF Known
    <3>4. c \notin inherited /\ client[p].knew => <<c, client[p].place>> \in Present
      BY <3>1, <3>3 DEF DurableInv, ReferencesAreDurable, External, TypeInv, DataOK
    <3>5. missed \subseteq inherited
      BY DEF Known
    <3> QED
      BY <3>2, <3>3, <3>4, <3>5
  <2> QED
    BY <1>4, <2>1, <2>2 DEF Fetch, Known
<1>5. ASSUME NEW m \in posted, CommitRegistration(m) PROVE Known'
  <2>1. \A d \in Contents : row[d].place # "none" => row'[d].place = row[d].place
    BY <1>0, RowsStay
  <2>2. m.file[1] \in Contents /\ m.file[2] \in Encodings
    BY <1>0, Pair DEF TypeInv, WorkOK
  <2>3. row'[m.file[1]].place # "none"
    BY <1>0, <1>5, <2>2 DEF CommitRegistration, Registered, Replaced, TypeInv, DataOK
  <2>4. \A q \in Clients : client'[q] = client[q] \/ client'[q] = [pc |-> "validate", file |-> m.file]
    BY <1>0, <1>5 DEF CommitRegistration, Resume, TypeInv, ClientsOK
  <2>5. /\ \A p \in Clients : client[p].pc = "validate" => client[p].file[1] \in Contents
        /\ \A p \in Clients : client[p].pc = "fetch" => client[p].content \in Contents
    BY <1>0, PutShape, GetShape, Pair DEF TypeInv, ClientsOK
  <2>6. UNCHANGED <<receipts, missed, inherited>> /\ receipts \subseteq Contents
    BY <1>0, <1>5 DEF CommitRegistration, TypeInv, DataOK
  <2>7. ASSUME NEW p \in Clients
        PROVE  /\ client'[p].pc = "validate" => row'[client'[p].file[1]].place # "none"
               /\ client'[p].pc = "fetch" /\ client'[p].knew =>
                      /\ client'[p].place \in Encodings
                      /\ row'[client'[p].content].place = client'[p].place
    <3>1. CASE client'[p] = client[p]
      BY <2>1, <2>5, <3>1 DEF Known
    <3>2. CASE client'[p] = [pc |-> "validate", file |-> m.file]
      BY <2>3, <3>2
    <3> QED
      BY <2>4, <3>1, <3>2
  <2> QED
    BY <2>1, <2>6, <2>7 DEF Known
<1>6. ASSUME NEW p \in Clients,
             SendRegistration(p) \/ BeginCollect(p) \/ Protect(p) \/ EndCollect(p) \/ Cancel(p)
      PROVE  Known'
  <2>1. \A q \in Clients : client'[q].pc \in {"validate", "fetch"} => client'[q] = client[q]
    BY <1>0, <1>6 DEF SendRegistration, BeginCollect, Protect, EndCollect, Cancel, Resume, Idle,
                      TypeInv, ClientsOK
  <2> QED
    BY <1>0, <1>6, <2>1, KnownCarries
       DEF SendRegistration, BeginCollect, Protect, EndCollect, Cancel
<1>7. ASSUME NEW p \in Clients, NEW c \in Contents, BeginPut(p, c) PROVE Known'
  <2>1. \A q \in Clients : client'[q].pc \in {"validate", "fetch"} => client'[q] = client[q]
    BY <1>0, <1>7 DEF BeginPut, Publishing, TypeInv, ClientsOK
  <2> QED
    BY <1>0, <1>7, <2>1, KnownCarries DEF BeginPut
<1>8. ASSUME NEW j \in jobs,
             Rename(j) \/ Sync(j) \/ Check(j) \/ PublishFails(j) \/ Remove(j)
      PROVE  Known'
  <2>1. \A q \in Clients : client'[q].pc \in {"validate", "fetch"} => client'[q] = client[q]
    BY <1>0, <1>8 DEF Rename, Sync, Check, PublishFails, Remove, Resume, Idle, TypeInv, ClientsOK
  <2> QED
    BY <1>0, <1>8, <2>1, KnownCarries DEF Rename, Sync, Check, PublishFails, Remove
<1>9. ASSUME NEW m \in posted, RegistrationFails(m) PROVE Known'
  <2>1. \A q \in Clients : client'[q].pc \in {"validate", "fetch"} => client'[q] = client[q]
    BY <1>0, <1>9 DEF RegistrationFails, Resume, Idle, TypeInv, ClientsOK
  <2> QED
    BY <1>0, <1>9, <2>1, KnownCarries DEF RegistrationFails
<1>10. ASSUME Restart PROVE Known'
  BY <1>0, <1>10, KnownCarries DEF Restart, Idle
<1>11. ASSUME NEW c \in Contents, Pin(c) \/ Unpin(c) PROVE Known'
  BY <1>0, <1>11, KnownCarries DEF Pin, Unpin
<1>12. ASSUME NEW f \in File, Damage(f) PROVE Known'
  BY <1>0, <1>12, KnownCarries DEF Damage
<1>13. ASSUME UNCHANGED vars PROVE Known'
  BY <1>0, <1>13, KnownCarries DEF vars
<1> QED
  BY <1>1, <1>2, <1>3, <1>4, <1>5, <1>6, <1>7, <1>8, <1>9, <1>10, <1>11, <1>12, <1>13
     DEF Next

(* A get that begins after a put returned finds the content, although it     *)
(* reads the row before it takes the guard, unless the name was inherited.   *)
THEOREM GetFindsWhatWasStoredAlways ==
    ASSUME CancelCollect = FALSE
    PROVE  Spec => []GetFindsWhatWasStored
<1>1. Init => Known
  BY DEF Init, Known, Idle
<1>2. DurableInv /\ Known /\ [Next]_vars => Known'
  BY KnownStep
<1>3. Known => GetFindsWhatWasStored
  BY DEF Known, GetFindsWhatWasStored
<1> QED
  BY <1>1, <1>2, <1>3, DurableInvariant, PTL DEF Spec
=============================================================================
