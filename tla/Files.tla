-------------------------------- MODULE Files --------------------------------
(***************************************************************************)
(* Uploaded files: the content in GridFS and a metadata document of the    *)
(* owner.  The two are written and removed one after the other, without a  *)
(* transaction.                                                            *)
(***************************************************************************)
EXTENDS Handlers

CONSTANTS Uploads, NoUpload     \* ids drawn for files; an id not drawn yet

VARIABLES
  arquivos,      \* the owner of each file, once drawn, and which halves of it exist
  interrupted    \* files whose removal stopped between the halves
filesVars == <<arquivos, interrupted>>

Arquivo == [owner: Users, halves: SUBSET {"content", "metadata"}]

ASSUME FilesAssumption == NoUpload \notin Arquivo

FilesInit == arquivos = [f \in Uploads |-> NoUpload] /\ interrupted = {}
FilesTypeOK == arquivos \in [Uploads -> Arquivo \cup {NoUpload}] /\ interrupted \subseteq Uploads

FilesCall(op) ==
  IF op \in {"saveMetadata", "dropContent", "dropMetadata"} THEN [op: {op}, file: Uploads] ELSE {}

Has(f, half) == arquivos[f] # NoUpload /\ half \in arquivos[f].halves

-----------------------------------------------------------------------------
(* GridFS and the metadata repository.                                     *)

Upload(f, u) == arquivos' = [arquivos EXCEPT ![f] = [owner |-> u, halves |-> {"content"}]]
\* A file that is not there is an error.
DropContent(f) == Has(f, "content") /\ arquivos' = [arquivos EXCEPT ![f].halves = @ \ {"content"}]
Download(f) == Has(f, "content")
SaveMetadata(f) == arquivos' = [arquivos EXCEPT ![f].halves = @ \cup {"metadata"}]
DropMetadata(f) == Has(f, "metadata") /\ arquivos' = [arquivos EXCEPT ![f].halves = @ \ {"metadata"}]

-----------------------------------------------------------------------------
(* Use cases.                                                              *)

\* Mutant: a failed upload is not noticed.
UploadUnchecked(s, u, f) ==
  /\ arquivos[f] = NoUpload
  /\ \E halves \in SUBSET {"content"} : arquivos' = [arquivos EXCEPT ![f] = [owner |-> u, halves |-> halves]]
  /\ Begin(s, [op |-> "saveMetadata", file |-> f]) /\ UNCHANGED interrupted
UploadArquivo(s, u, f) ==
  /\ arquivos[f] = NoUpload /\ Upload(f, u)
  /\ Begin(s, [op |-> "saveMetadata", file |-> f]) /\ UNCHANGED interrupted
StoreMetadata(s) ==
  At(s, "saveMetadata") /\ SaveMetadata(calls[s].file) /\ Finish(s) /\ UNCHANGED interrupted

DeleteArquivo(s, u, f) ==
  /\ Has(f, "metadata") /\ arquivos[f].owner = u
  /\ Begin(s, [op |-> "dropContent", file |-> f]) /\ UNCHANGED filesVars
\* GridFS answers an error for a content that is gone, and the deletion ends there.
DeleteContent(s) ==
  /\ At(s, "dropContent") /\ DropContent(calls[s].file)
  /\ Continue(s, [calls[s] EXCEPT !.op = "dropMetadata"]) /\ UNCHANGED interrupted
DeleteMetadata(s) ==
  At(s, "dropMetadata") /\ DropMetadata(calls[s].file) /\ Finish(s) /\ UNCHANGED interrupted

\* 404 without metadata, 403 for anybody but the owner, 500 without content.
DownloadArquivo(u, f) ==
  CASE ~Has(f, "metadata") -> 404
    [] Has(f, "metadata") /\ arquivos[f].owner # u -> 403
    [] Has(f, "metadata") /\ arquivos[f].owner = u -> IF Download(f) THEN 200 ELSE 500

\* Failures end a handler wherever it is; here it is noted which file they leave half removed.
FilesInterrupted(s) ==
  interrupted' = IF At(s, "dropMetadata") THEN interrupted \cup {calls[s].file} ELSE interrupted

-----------------------------------------------------------------------------
(* Handlers.                                                               *)

upload(s, u) == \E f \in Uploads : UploadArquivo(s, u, f)
deleteFile(s, u) == \E f \in Uploads : DeleteArquivo(s, u, f)
download(u, f) == DownloadArquivo(u, f)

FilesRequest(s) == \E u \in Users : upload(s, u) \/ deleteFile(s, u)
FilesStep(s) == StoreMetadata(s) \/ DeleteContent(s) \/ DeleteMetadata(s)
FilesNext == \E s \in Slots : FilesRequest(s) \/ FilesStep(s)

-----------------------------------------------------------------------------

\* A file that is listed but cannot be downloaded is one that is being removed or had its
\* removal interrupted: overlapping uploads and deletions alone never leave one.  And an
\* interrupted removal is never completed: a retry fails on the missing content before it
\* reaches the metadata, so the file stays listed and cannot be downloaded.
BrokenIsInterrupted ==
  \A f \in Uploads :
    /\ f \in interrupted => download(arquivos[f].owner, f) = 500
    /\ \A u \in Users : download(u, f) = 500 =>
         f \in interrupted \/ \E s \in Slots : At(s, "dropMetadata") /\ calls[s].file = f

=============================================================================
