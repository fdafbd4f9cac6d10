------------------------------- MODULE Uploads -------------------------------
(***************************************************************************)
(* Uploads of source files (inbox/router.py, storage.py): the bytes go to  *)
(* the object storage first, then the row is inserted, and the bytes are   *)
(* deleted again when that fails.                                          *)
(***************************************************************************)
EXTENDS FiniteSets

CONSTANTS
    Artifacts,              \* the ids that upload requests choose
    AllowBucketCreation,    \* in a local or a test environment
    NoWorkspace

VARIABLES
    artifacts,      \* committed rows of source_artifacts: an id and the workspace
    objects,        \* the keys in the bucket
    bucket,         \* whether it exists, and what the process has seen of it
    upload,         \* id -> the request that chose it
    created,        \* the ids that were answered with 201
    doubtful        \* the ids whose commit succeeded without an answer

uploadVars == <<artifacts, objects, bucket, upload, created, doubtful>>

ASSUME UploadAssumption == AllowBucketCreation \in BOOLEAN

NoUpload == [step |-> "new", workspace |-> NoWorkspace]

UploadInit ==
    /\ artifacts = {}
    /\ objects = {}
    /\ \E exists \in BOOLEAN : bucket = [exists |-> exists, ready |-> FALSE]
    /\ upload = [a \in Artifacts |-> NoUpload]
    /\ created = {}
    /\ doubtful = {}

AtStep(a, step) == upload[a].step = step

GoTo(a, step) == upload' = [upload EXCEPT ![a].step = step]
-----------------------------------------------------------------------------
\* upload_source: the request has passed every check of the file.
Accept(a, workspace) ==
    /\ upload[a] = NoUpload
    /\ upload' = [upload EXCEPT ![a] = [step |-> "bucket", workspace |-> workspace]]
    /\ UNCHANGED <<artifacts, objects, bucket, created, doubtful>>

\* _ensure_bucket, one request of a process at a time.
EnsureBucket(a) ==
    /\ AtStep(a, "bucket")
    /\ \/ /\ bucket.ready \/ bucket.exists \/ AllowBucketCreation
          /\ bucket' = [exists |-> TRUE, ready |-> TRUE]
          /\ GoTo(a, "put")
       \/ /\ ~bucket.ready
          /\ GoTo(a, "failed")
          /\ UNCHANGED bucket
    /\ UNCHANGED <<artifacts, objects, created, doubtful>>

\* Mutant of Put: the result of the storage is not awaited.
PutUnawaited(a) ==
    /\ AtStep(a, "put")
    /\ \/ objects' = objects \cup {a} /\ GoTo(a, "commit")
       \/ objects' = objects /\ GoTo(a, "commit")
    /\ UNCHANGED <<artifacts, bucket, created, doubtful>>

\* An error of put leaves the request; the bytes may be stored nevertheless.
Put(a) ==
    /\ AtStep(a, "put")
    /\ \/ objects' = objects \cup {a} /\ GoTo(a, "commit")
       \/ objects' \in {objects, objects \cup {a}} /\ GoTo(a, "failed")
    /\ UNCHANGED <<artifacts, bucket, created, doubtful>>

Row(a) == [id |-> a, workspace |-> upload[a].workspace]

\* The foreign key demands that the workspace is still there.
CommitArtifact(a, workspaces) ==
    /\ AtStep(a, "commit")
    /\ upload[a].workspace \in workspaces
    /\ artifacts' = artifacts \cup {Row(a)}
    /\ \/ created' = created \cup {a} /\ GoTo(a, "done") /\ UNCHANGED doubtful
       \/ doubtful' = doubtful \cup {a} /\ GoTo(a, "delete") /\ UNCHANGED created
    /\ UNCHANGED <<objects, bucket>>

CommitFails(a) ==
    /\ AtStep(a, "commit")
    /\ GoTo(a, "delete")
    /\ UNCHANGED <<artifacts, objects, bucket, created, doubtful>>

\* The handler of the exception.
DeleteObject(a) ==
    /\ AtStep(a, "delete")
    /\ objects' \in {objects, objects \ {a}}
    /\ GoTo(a, "failed")
    /\ UNCHANGED <<artifacts, bucket, created, doubtful>>

\* The process dies, or the request is cancelled.
Vanish(a) ==
    /\ upload[a].step \notin {"new", "done", "failed"}
    /\ GoTo(a, "failed")
    /\ UNCHANGED <<artifacts, objects, bucket, created, doubtful>>

UploadStep(workspaces) ==
    \E a \in Artifacts :
        EnsureBucket(a) \/ Put(a) \/ CommitArtifact(a, workspaces) \/ CommitFails(a)
            \/ DeleteObject(a) \/ Vanish(a)
=============================================================================
