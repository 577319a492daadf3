---------------------------- MODULE Attachments ----------------------------
(***************************************************************************)
(* Files of one workspace: StorageService keeps an object in S3 and a row   *)
(* in attachments, which are written and deleted one after the other.       *)
(* Receipts, logos and avatars are uploaded through it.                    *)
(***************************************************************************)
CONSTANTS
    Uploads,    \* requests for files
    Files,      \* keys, each drawn once
    NoFile

ASSUME AttachmentConstants == NoFile \notin Files

VARIABLES
    objects,    \* what S3 has
    files,      \* attachments: the files with a row
    open,       \* the workspace still exists
    file,       \* per request: where it is, and the file it is about
    botched,    \* ghost: files of a request that has failed
    orphaned    \* ghost: files whose row the deletion of the workspace has taken

storage == <<objects, files, open, file, botched, orphaned>>

Rest == [at |-> "idle", file |-> NoFile]
GoOnWith(r, place, f) == file' = [file EXCEPT ![r] = [at |-> place, file |-> f]]
Finish(r)             == file' = [file EXCEPT ![r] = Rest]
Drawn == objects \cup files \cup botched \cup orphaned \cup {file[r].file : r \in Uploads}

-----------------------------------------------------------------------------
UploadFile(r) ==
    \E f \in Files \ Drawn :
        /\ file[r] = Rest
        /\ GoOnWith(r, "put", f)
        /\ UNCHANGED <<objects, files, open, botched, orphaned>>

PutObject(r) ==
    /\ file[r].at = "put"
    /\ objects' = objects \cup {file[r].file}
    /\ GoOnWith(r, "insert", file[r].file)
    /\ UNCHANGED <<files, open, botched, orphaned>>

\* The row refers to the workspace.
InsertAttachment(r) ==
    /\ file[r].at = "insert" /\ open
    /\ files' = files \cup {file[r].file}
    /\ Finish(r)
    /\ UNCHANGED <<objects, open, botched, orphaned>>

DeleteFile(r) ==
    \E f \in files :
        /\ file[r] = Rest
        /\ GoOnWith(r, "remove", f)
        /\ UNCHANGED <<objects, files, open, botched, orphaned>>

\* A slip: the object is left to a clean-up that does not exist.
KeepObject(r) ==
    /\ file[r].at = "remove"
    /\ GoOnWith(r, "drop", file[r].file)
    /\ UNCHANGED <<objects, files, open, botched, orphaned>>

\* S3 does not mind if the object is gone already.
DeleteObject(r) ==
    /\ file[r].at = "remove"
    /\ objects' = objects \ {file[r].file}
    /\ GoOnWith(r, "drop", file[r].file)
    /\ UNCHANGED <<files, open, botched, orphaned>>

DropAttachment(r) ==
    /\ file[r].at = "drop"
    /\ files' = files \ {file[r].file}
    /\ Finish(r)
    /\ UNCHANGED <<objects, open, botched, orphaned>>

\* S3 or a statement fails, or the insert meets no workspace: what was done stays.
FileFails(r) ==
    /\ file[r] # Rest
    /\ botched' = botched \cup {file[r].file}
    /\ Finish(r)
    /\ UNCHANGED <<objects, files, open, orphaned>>

\* ON DELETE CASCADE, which knows nothing of S3.
CloseWorkspace ==
    /\ open /\ open' = FALSE
    /\ files' = {}
    /\ orphaned' = orphaned \cup files
    /\ UNCHANGED <<objects, file, botched>>

InitFiles ==
    /\ objects = {} /\ files = {} /\ open = TRUE
    /\ file = [r \in Uploads |-> Rest]
    /\ botched = {} /\ orphaned = {}

NextFile ==
    \/ \E r \in Uploads :
          \/ UploadFile(r) \/ PutObject(r) \/ InsertAttachment(r)
          \/ DeleteFile(r) \/ DeleteObject(r) \/ DropAttachment(r) \/ FileFails(r)
    \/ CloseWorkspace

-----------------------------------------------------------------------------
(* Properties.                                                             *)

\* The type of the variables.
FilesTyped ==
    /\ objects \subseteq Files /\ files \subseteq Files /\ open \in BOOLEAN
    /\ file \in [Uploads -> [at: {"idle", "put", "insert", "remove", "drop"}, file: Files \cup {NoFile}]]
    /\ botched \subseteq Files /\ orphaned \subseteq Files

InHand(f, places) == \E r \in Uploads : file[r].file = f /\ file[r].at \in places

\* However uploads and deletions of one file overlap, a row has its object and an object
\* its row, but for requests in flight, those that failed half-way, and a workspace
\* that was deleted.
ObjectsMatchRows ==
    /\ \A f \in files \ objects : InHand(f, {"drop"}) \/ f \in botched
    /\ \A f \in objects \ files : InHand(f, {"insert"}) \/ f \in botched \cup orphaned
=============================================================================
