------------------------------ MODULE LfsStore ------------------------------
(***************************************************************************)
(* The LFS object store of one repository (jeryu-gitd lfs.rs and the LFS     *)
(* routes of smart_http.rs).  An upload streams the body into a temporary    *)
(* sibling file while it hashes what it reads, and renames the file to its   *)
(* content-addressed path only when size and digest agree; the directory is  *)
(* then flushed.  Uploads of one object may run at the same time, and the    *)
(* machine may stop between any two file operations: the contents a file was *)
(* fsynced with survive, a rename survives once its directory was flushed.   *)
(*                                                                          *)
(* A body is a sequence of chunks; Content maps an object id to the only    *)
(* body with that SHA-256 digest.                                           *)
(***************************************************************************)
EXTENDS Integers, Sequences, FiniteSets

CONSTANTS
    Uploaders,      \* threads serving LFS requests
    LfsOids,        \* object ids
    Content,        \* the body whose digest an object id is
    Chunks,         \* what a read of a body returns
    Bodies,         \* bodies clients send
    MaxObjectSize,  \* lfs_max_object_bytes
    MaxUploads,     \* bound on uploads started
    MaxStops        \* bound on machine stops

ASSUME LfsAssumption ==
    /\ \A o \in LfsOids : Content[o] \in Bodies
    /\ Bodies \subseteq Seq(Chunks)
    /\ \A o, q \in LfsOids : Content[o] = Content[q] => o = q
    /\ MaxObjectSize \in Nat

VARIABLES
    objects,    \* published files: object id |-> content
    durable,    \* object ids whose directory entry has been flushed
    temps,      \* temporary files: name |-> content
    nextTemp,   \* TEMP_COUNTER
    upload,     \* what each thread is doing
    told,       \* object ids some client was told are stored
    stops       \* machine stops

lfsVars == <<objects, durable, temps, nextTemp, upload, told, stops>>

NoUpload == [at |-> "idle", oid |-> CHOOSE o \in LfsOids : TRUE, body |-> <<>>, read |-> 0,
             expected |-> -1, tmp |-> 0]

LfsInit ==
    /\ objects = [o \in {} |-> <<>>] /\ durable = {}
    /\ temps = [n \in {} |-> <<>>] /\ nextTemp = 1
    /\ upload = [u \in Uploaders |-> NoUpload]
    /\ told = {} /\ stops = 0

Removed(f, k) == [x \in DOMAIN f \ {k} |-> f[x]]
Updated(f, k, v) == [x \in DOMAIN f \cup {k} |-> IF x = k THEN v ELSE f[x]]

----------------------------------------------------------------------------
\* Mutant of TempName: one temporary file per repository.
SharedTempName == 1

\* create_temp_file: a name no other upload ever had.
TempName == nextTemp

\* write_all at the file position of this descriptor.
WriteAt(file, pos, chunk) ==
    [i \in 1 .. (IF pos > Len(file) THEN pos ELSE Len(file)) |->
        IF i = pos THEN chunk ELSE IF i <= Len(file) THEN file[i] ELSE "hole"]

\* put_reader_with_limit: Content-Length is the expected size, and a size past
\* the limit is refused before anything is created.  expected is -1 where the
\* caller declares none.
StartUpload(u) ==
    /\ upload[u].at = "idle" /\ nextTemp <= MaxUploads
    /\ \E o \in LfsOids, body \in Bodies : \E expected \in {-1, Len(body), Len(body) + 1} :
           /\ expected <= MaxObjectSize
           /\ upload' = [upload EXCEPT ![u] = [at |-> "reading", oid |-> o, body |-> body,
                             read |-> 0, expected |-> expected, tmp |-> TempName]]
    /\ temps' = Updated(temps, TempName, <<>>)
    /\ nextTemp' = nextTemp + 1
    /\ UNCHANGED <<objects, durable, told, stops>>

\* Every error path removes the temporary file.
FailUpload(u) ==
    /\ temps' = Removed(temps, upload[u].tmp)
    /\ upload' = [upload EXCEPT ![u] = NoUpload]
    /\ UNCHANGED <<objects, durable, nextTemp, told, stops>>

\* One read of the body: the running size is checked before the write.
ReadChunk(u) ==
    LET s == upload[u] IN
    /\ s.at = "reading" /\ s.read < Len(s.body)
    /\ IF s.read + 1 > MaxObjectSize
         THEN FailUpload(u)
         ELSE /\ temps' = [temps EXCEPT ![s.tmp] = WriteAt(@, s.read + 1, s.body[s.read + 1])]
              /\ upload' = [upload EXCEPT ![u].read = @ + 1]
              /\ UNCHANGED <<objects, durable, nextTemp, told, stops>>

\* The connection fails while the body is read.
ReadFails(u) == upload[u].at = "reading" /\ FailUpload(u)

\* The digest and the size of what was read: the whole body.
BodyVerifies(s) ==
    /\ s.expected # -1 => s.read = s.expected
    /\ s.body = Content[s.oid]

VerifyUpload(u) ==
    LET s == upload[u] IN
    /\ s.at = "reading" /\ s.read = Len(s.body)
    /\ IF BodyVerifies(s)
         THEN /\ upload' = [upload EXCEPT ![u].at = "verified"]
              /\ UNCHANGED <<objects, durable, temps, nextTemp, told, stops>>
         ELSE FailUpload(u)

\* Somebody published the object meanwhile: answer ok.
FoundPublished(u) ==
    LET s == upload[u] IN
    /\ s.at = "verified" /\ s.oid \in DOMAIN objects
    /\ temps' = Removed(temps, s.tmp)
    /\ upload' = [upload EXCEPT ![u] = NoUpload]
    /\ told' = told \cup {s.oid}
    /\ UNCHANGED <<objects, durable, nextTemp, stops>>

LookForPublished(u) ==
    /\ upload[u].at = "verified" /\ upload[u].oid \notin DOMAIN objects
    /\ upload' = [upload EXCEPT ![u].at = "absent"]
    /\ UNCHANGED <<objects, durable, temps, nextTemp, told, stops>>

\* rename replaces whatever another upload published since the look.
Publish(u) ==
    LET s == upload[u] IN
    /\ s.at = "absent" /\ s.tmp \in DOMAIN temps
    /\ objects' = Updated(objects, s.oid, temps[s.tmp])
    /\ temps' = Removed(temps, s.tmp)
    /\ upload' = [upload EXCEPT ![u].at = "published"]
    /\ UNCHANGED <<durable, nextTemp, told, stops>>

RenameFails(u) == upload[u].at = "absent" /\ FailUpload(u)

\* sync_dir, then the answer; if it fails the object stays published.
SyncDir(u) ==
    LET s == upload[u] IN
    /\ s.at = "published"
    /\ \E synced \in BOOLEAN :
           /\ durable' = IF synced THEN durable \cup ({s.oid} \cap DOMAIN objects) ELSE durable
           /\ told' = IF synced THEN told \cup {s.oid} ELSE told
    /\ upload' = [upload EXCEPT ![u] = NoUpload]
    /\ UNCHANGED <<objects, temps, nextTemp, stops>>

----------------------------------------------------------------------------
(* The other LFS routes, answered from one look at the store.  Credentials are *)
(* checked by authorize, which GitAuth models.                                 *)

\* upload_batch_object: what the client is told to do with an object.
UploadAnswer(o, size) ==
    IF o \notin DOMAIN objects THEN "upload"
    ELSE IF Len(objects[o]) = size THEN "present" ELSE "mismatch"

DownloadAnswer(o, size) ==
    IF o \notin DOMAIN objects THEN "not found"
    ELSE IF Len(objects[o]) = size THEN "download" ELSE "mismatch"

BatchAnswer(o, size, write) ==
    IF size > MaxObjectSize THEN "too large"
    ELSE IF write THEN UploadAnswer(o, size) ELSE DownloadAnswer(o, size)

ToldStored(o) == told' = told \cup {o} /\ UNCHANGED <<objects, durable, temps, nextTemp, upload, stops>>

\* lfs_batch, where it is not refused: an upload batch is, of an archived
\* repository.  A client asked to upload, or answered an error, knows nothing.
LfsBatch(o, size, write) == BatchAnswer(o, size, write) \in {"present", "download"} /\ ToldStored(o)

\* lfs_verify, for a body that names the object of its path.
VerifyAnswer(o, size) == o \in DOMAIN objects /\ Len(objects[o]) = size
LfsVerify(o, size) == VerifyAnswer(o, size) /\ ToldStored(o)

\* lfs_download, and open_reader with the length it binds.
Download(o) == IF o \in DOMAIN objects THEN objects[o] ELSE <<>>
LfsDownload(o) == Download(o) # <<>> /\ ToldStored(o)

\* The machine stops: no request survives, nor a rename not flushed, unless
\* it happened to reach the disk; temporary files are left behind.
MachineStops ==
    /\ stops < MaxStops /\ stops' = stops + 1
    /\ \E kept \in SUBSET (DOMAIN objects \ durable) :
           objects' = [o \in durable \cup kept |-> objects[o]]
    /\ upload' = [u \in Uploaders |-> NoUpload]
    /\ UNCHANGED <<durable, temps, nextTemp, told>>

LfsNext ==
    \/ \E u \in Uploaders :
          \/ StartUpload(u) \/ ReadChunk(u) \/ ReadFails(u) \/ VerifyUpload(u)
          \/ FoundPublished(u) \/ LookForPublished(u) \/ Publish(u)
          \/ RenameFails(u) \/ SyncDir(u)
    \/ \E o \in LfsOids : \/ LfsDownload(o)
                        \/ \E body \in Bodies : LfsVerify(o, Len(body)) \/ \E write \in BOOLEAN : LfsBatch(o, Len(body), write)
    \/ MachineStops

LfsSpec == LfsInit /\ [][LfsNext]_lfsVars

----------------------------------------------------------------------------
LfsTypeOK ==
    /\ DOMAIN objects \subseteq LfsOids /\ durable \subseteq DOMAIN objects
    /\ told \subseteq LfsOids
    /\ DOMAIN temps \subseteq 1 .. MaxUploads

(* A published object always has the content its id names, and every answer   *)
(* given from the store agrees with it: the digest is taken of the bytes      *)
(* read, not of the file renamed, so this rests on no two uploads ever        *)
(* sharing a temporary file.  Until the machine stops, what any client was    *)
(* told is stored (an upload, a batch, a verify or a download answered so) is *)
(* there from then on, whoever uploads it again (put_reader_with_limit).      *)
PublishedIsWhole ==
    /\ \A o \in DOMAIN objects :
          /\ objects[o] = Content[o]
          /\ \A body \in Bodies :
                LET size == Len(body) IN
                /\ VerifyAnswer(o, size) <=> size = Len(Content[o])
                /\ BatchAnswer(o, size, FALSE) = "download" => size = Len(Content[o])
                /\ BatchAnswer(o, size, TRUE) # "upload"
    /\ stops = 0 => told \subseteq DOMAIN objects
=============================================================================
