------------------------------ MODULE Requests ------------------------------
(***************************************************************************)
(* Sign-ins, resets and uploads on one database and one object storage.    *)
(* An upload belongs to the workspace its session resolved to, which a     *)
(* reset may delete before the upload commits, and with it, by the foreign *)
(* key's cascade, the rows of the uploads before.                          *)
(***************************************************************************)
EXTENDS SignIn, Uploads

requestVars == <<signInVars, uploadVars>>

RequestsInit == SignInInit /\ UploadInit

\* current_actor and upload_source.
BeginUpload ==
    /\ \E a \in Artifacts, w \in workspaces : Resolves(w.owner, w) /\ Accept(a, w)
    /\ UNCHANGED signInVars

Cascade(remaining) == {row \in artifacts : row.workspace \in remaining}

CommitWithCascade(c) ==
    /\ CommitTxn(c)
    /\ artifacts' = Cascade(workspaces')
    /\ UNCHANGED <<objects, bucket, upload, created, doubtful>>

\* A row whose workspace an open transaction has deleted waits for that one.
Undisturbed == {w \in workspaces : \A c \in Clients : InStep(c, "commit") => w \notin txn[c].deleted}

RequestsNext ==
    \/ SignInStep /\ UNCHANGED uploadVars
    \/ \E c \in Clients : CommitWithCascade(c)
    \/ BeginUpload
    \/ UploadStep(Undisturbed) /\ UNCHANGED signInVars

RequestsSpec == RequestsInit /\ [][RequestsNext]_requestVars
-----------------------------------------------------------------------------
(***************************************************************************)
(* A row always has its bytes, and the bytes of an upload that was         *)
(* acknowledged stay, whatever fails or is reset meanwhile.  Excepted are  *)
(* the uploads whose commit succeeded without an answer: their bytes are   *)
(* deleted while their row stays (_persist_artifact, upload_source).       *)
(***************************************************************************)
UploadsAreStored ==
    /\ created \subseteq objects
    /\ \A row \in artifacts : row.id \in objects \/ row.id \in doubtful
=============================================================================
