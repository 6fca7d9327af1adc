----------------------------- MODULE FileStore -----------------------------
(***************************************************************************)
(* file_service: Upload, Download, Delete of FileServiceImpl.cpp.  A blob  *)
(* is a file below storage_root_; files_ is a table in memory guarded by   *)
(* mutex_.  The lock is not held while a blob is written or read.  A       *)
(* restart finds the blobs and an empty table.                             *)
(*                                                                         *)
(* The blob of a download stays readable once open, whatever is unlinked   *)
(* (POSIX).  A request without the required fields returns at once and is  *)
(* left out.                                                               *)
(***************************************************************************)
EXTENDS Integers

CONSTANTS
    Files,      \* the ids generateFileId may draw
    Owners,     \* owner_id and requester_id
    Anyone,     \* an empty requester_id
    Uploads,    \* handlers of Upload
    Downloads,  \* handlers of Download
    MaxSize,    \* bound: the bytes of a file
    ChunkSize,  \* kStreamChunkSize
    Nothing     \* no blob, no entry, no id

ASSUME SizesAssumption == MaxSize \in Nat /\ ChunkSize \in Nat \ {0}
ASSUME NothingAssumption ==
    Nothing \notin Files /\ Nothing \notin Owners /\ Nothing \notin Nat

VARIABLES
    disk,     \* the bytes of each blob, Nothing when there is no such file
    files,    \* files_
    up,       \* the uploads
    down,     \* the downloads
    drawn,    \* history: the ids that were drawn
    leaked,   \* history: blobs left by a crash or by a remove that failed
    torn      \* history: blobs whose last bytes were lost when they were closed

vars == <<disk, files, up, down, drawn, leaked, torn>>

Sizes == 0 .. MaxSize

ASSUME EntryAssumption == Nothing \notin [owner : Owners, size : Nat, deleted : BOOLEAN]

Entry == [owner : Owners, size : Sizes, deleted : BOOLEAN]

Upload == [pc : {"idle", "recv", "publish"}, id : Files \union {Nothing},
           owner : Owners \union {Nothing}, size : Sizes,
           declared : {-1} \union Sizes, last : BOOLEAN]

\* missing: answered "File missing on disk"; done: answered OK.
Download == [pc : {"idle", "open", "read", "missing", "done"}, id : Files \union {Nothing},
             size : Sizes, left : Sizes, sent : Sizes, last : BOOLEAN, cut : BOOLEAN]

NoUpload == [pc |-> "idle", id |-> Nothing, owner |-> Nothing, size |-> 0,
             declared |-> -1, last |-> FALSE]

NoDownload == [pc |-> "idle", id |-> Nothing, size |-> 0, left |-> 0, sent |-> 0,
               last |-> FALSE, cut |-> FALSE]

(* Blobs, table and handlers have their shapes: no download sends more     *)
(* than the largest file.                                                  *)
TypeOK ==
    /\ disk \in [Files -> Sizes \union {Nothing}]
    /\ files \in [Files -> Entry \union {Nothing}]
    /\ up \in [Uploads -> Upload]
    /\ down \in [Downloads -> Download]
    /\ drawn \subseteq Files /\ leaked \subseteq Files /\ torn \subseteq Files

\* What Download, Delete and GetMetadata ask of files_.
Known(f) == files[f] # Nothing /\ ~files[f].deleted

Init ==
    /\ disk = [f \in Files |-> Nothing]
    /\ files = [f \in Files |-> Nothing]
    /\ up = [u \in Uploads |-> NoUpload]
    /\ down = [d \in Downloads |-> NoDownload]
    /\ drawn = {} /\ leaked = {} /\ torn = {}

-----------------------------------------------------------------------------
(***************************************************************************)
(* Upload.  The last declared size above zero counts; a last_chunk flag on *)
(* any chunk counts.  A failed write removes the blob and returns.         *)
(***************************************************************************)
Declare(old, d) == IF d > 0 THEN d ELSE old

UploadFirst(u, f, o, n, d, last) ==
    /\ up[u].pc = "idle" /\ f \notin drawn
    /\ drawn' = drawn \union {f}
    /\ disk' = [disk EXCEPT ![f] = 0]
    /\ up' = [up EXCEPT ![u] = [pc |-> "recv", id |-> f, owner |-> o, size |-> n,
                                declared |-> Declare(-1, d), last |-> last]]
    /\ UNCHANGED <<files, down, leaked, torn>>

UploadNext(u, n, d, last) ==
    /\ up[u].pc = "recv" /\ up[u].size + n <= MaxSize
    /\ up' = [up EXCEPT ![u].size = @ + n,
                        ![u].declared = Declare(@, d),
                        ![u].last = @ \/ last]
    /\ UNCHANGED <<disk, files, down, drawn, leaked, torn>>

\* The blob is removed; when that fails the handler throws and the blob stays.
Discard(u) ==
    /\ \/ disk' = [disk EXCEPT ![up[u].id] = Nothing] /\ UNCHANGED leaked
       \/ leaked' = leaked \union {up[u].id} /\ UNCHANGED disk
    /\ up' = [up EXCEPT ![u] = NoUpload]

UploadWriteFails(u) ==
    /\ up[u].pc = "recv"
    /\ Discard(u)
    /\ UNCHANGED <<files, down, drawn, torn>>

\* Read returned false: the client is done, or gone.
Complete(u) == up[u].last /\ up[u].declared \in {-1, up[u].size}

\* Mutant: the blob is kept when the stream ended too early.
UploadRejectedKept(u) ==
    /\ up[u].pc = "recv" /\ ~Complete(u)
    /\ up' = [up EXCEPT ![u] = NoUpload]
    /\ UNCHANGED <<disk, files, down, drawn, leaked, torn>>

UploadRejected(u) ==
    /\ up[u].pc = "recv" /\ ~Complete(u)
    /\ Discard(u)
    /\ UNCHANGED <<files, down, drawn, torn>>

\* output.close() writes what is still buffered and is not asked whether it could.
UploadClose(u) ==
    \E n \in 0 .. up[u].size :
        /\ up[u].pc = "recv" /\ Complete(u)
        /\ disk' = [disk EXCEPT ![up[u].id] = n]
        /\ torn' = IF n < up[u].size THEN torn \union {up[u].id} ELSE torn
        /\ up' = [up EXCEPT ![u].pc = "publish"]
        /\ UNCHANGED <<files, down, drawn, leaked>>

UploadPublish(u) ==
    /\ up[u].pc = "publish"
    /\ files' = [files EXCEPT ![up[u].id] =
                    [owner |-> up[u].owner, size |-> up[u].size, deleted |-> FALSE]]
    /\ up' = [up EXCEPT ![u] = NoUpload]
    /\ UNCHANGED <<disk, down, drawn, leaked, torn>>

-----------------------------------------------------------------------------
\* Delete, under the lock: the remove may fail, the entry is deleted all the same.
MayDelete(f, r) == r \in {Anyone, files[f].owner}

\* Mutant: the blob goes before the requester is looked at.
DeleteBlobFirst(f, r) ==
    /\ Known(f)
    /\ disk' = [disk EXCEPT ![f] = Nothing]
    /\ files' = IF MayDelete(f, r) THEN [files EXCEPT ![f].deleted = TRUE] ELSE files
    /\ UNCHANGED <<up, down, drawn, leaked, torn>>

\* Mutant: the entry is kept when the blob could not be removed, and when it could.
DeleteBlobOnly(f, r) ==
    /\ Known(f) /\ MayDelete(f, r)
    /\ disk' = [disk EXCEPT ![f] = Nothing]
    /\ UNCHANGED <<files, up, down, drawn, leaked, torn>>

Delete(f, r) ==
    /\ Known(f) /\ MayDelete(f, r)
    /\ \/ /\ disk' = [disk EXCEPT ![f] = Nothing]
          /\ UNCHANGED leaked
       \/ /\ leaked' = leaked \union {f}
          /\ UNCHANGED disk
    /\ files' = [files EXCEPT ![f].deleted = TRUE]
    /\ UNCHANGED <<up, down, drawn, torn>>

-----------------------------------------------------------------------------
\* Download: the entry is copied under the lock.
DownloadFind(d, f) ==
    /\ down[d].pc \in {"idle", "missing", "done"} /\ Known(f)
    /\ down' = [down EXCEPT ![d] =
                   [NoDownload EXCEPT !.pc = "open", !.id = f, !.size = files[f].size]]
    /\ UNCHANGED <<disk, files, up, drawn, leaked, torn>>

DownloadOpen(d) ==
    /\ down[d].pc = "open"
    /\ down' = IF disk[down[d].id] = Nothing
               THEN [down EXCEPT ![d].pc = "missing"]
               ELSE [down EXCEPT ![d].pc = "read", ![d].left = disk[down[d].id]]
    /\ UNCHANGED <<disk, files, up, drawn, leaked, torn>>

\* Mutant: a short read is taken for the last one.
LastReadShort(left) == left < ChunkSize

\* What one read of a full buffer returns, and what peek says after it.
ReadBytes(left) == IF left < ChunkSize THEN left ELSE ChunkSize

LastRead(left) == left <= ChunkSize

\* One round of the loop; cut when the client is gone and Write fails.  It ends
\* at the end of the file, which peek has seen, or at once for an empty file.
DownloadChunk(d) ==
    LET b == down[d] IN
    /\ b.pc = "read" /\ b.left > 0
    /\ \E cut \in BOOLEAN :
           down' = [down EXCEPT ![d] =
                       [b EXCEPT !.pc = IF cut \/ b.left <= ChunkSize THEN "done" ELSE "read",
                                 !.left = b.left - ReadBytes(b.left),
                                 !.sent = b.sent + ReadBytes(b.left),
                                 !.last = LastRead(b.left),
                                 !.cut = cut]]
    /\ UNCHANGED <<disk, files, up, drawn, leaked, torn>>

DownloadEmpty(d) ==
    /\ down[d].pc = "read" /\ down[d].left = 0
    /\ down' = [down EXCEPT ![d].pc = "done"]
    /\ UNCHANGED <<disk, files, up, drawn, leaked, torn>>

-----------------------------------------------------------------------------
\* The process dies and starts again on the same storage_root_.
Crash ==
    /\ files # [f \in Files |-> Nothing] \/ \E u \in Uploads : up[u].pc # "idle"
    /\ files' = [f \in Files |-> Nothing]
    /\ up' = [u \in Uploads |-> NoUpload]
    /\ down' = [d \in Downloads |-> NoDownload]
    /\ leaked' = leaked \union {f \in Files : disk[f] # Nothing}
    /\ UNCHANGED <<disk, drawn, torn>>

Next ==
    \/ \E u \in Uploads, f \in Files, o \in Owners, n \in Sizes, d \in Sizes, last \in BOOLEAN :
           UploadFirst(u, f, o, n, d, last)
    \/ \E u \in Uploads, n \in Sizes, d \in Sizes, last \in BOOLEAN : UploadNext(u, n, d, last)
    \/ \E u \in Uploads :
           UploadWriteFails(u) \/ UploadRejected(u) \/ UploadClose(u) \/ UploadPublish(u)
    \/ \E f \in Files, r \in Owners \union {Anyone} : Delete(f, r)
    \/ \E d \in Downloads, f \in Files : DownloadFind(d, f)
    \/ \E d \in Downloads : DownloadOpen(d) \/ DownloadChunk(d) \/ DownloadEmpty(d)
    \/ Crash

Spec == Init /\ [][Next]_vars

-----------------------------------------------------------------------------
(* A file the service knows has its blob, of the size that was uploaded    *)
(* and acknowledged, whatever uploads, deletions and restarts overlap;     *)
(* only a close that could not write breaks the size, and nobody is told.  *)
ListedOnDisk ==
    \A f \in Files :
        Known(f) => disk[f] # Nothing /\ (f \notin torn => disk[f] = files[f].size)

(* Every blob on disk is listed or being uploaded, unless a crash or a     *)
(* remove that failed left it: each early return of Upload cleans up.      *)
LeaksAccounted ==
    \A f \in Files :
        disk[f] # Nothing =>
            \/ Known(f)
            \/ \E u \in Uploads : up[u].id = f
            \/ f \in leaked

(* A download that was not cut short sent the whole upload and flagged the *)
(* last chunk, and only that, even when the file was deleted meanwhile and *)
(* when its size is a multiple of the chunk size.  (An empty file is sent  *)
(* as no chunk at all, so its receiver sees no flag.)                      *)
DownloadWhole ==
    \A d \in Downloads :
        LET b == down[d] IN
        /\ b.last => b.left = 0
        /\ b.pc = "done" /\ ~b.cut /\ b.id \notin torn =>
               b.sent = b.size /\ (b.last <=> b.size > 0)

(* A download fails on a missing blob only if the file was deleted after   *)
(* it was found.                                                           *)
MissingOnlyIfDeleted ==
    \A d \in Downloads : down[d].pc = "missing" => files[down[d].id].deleted

=============================================================================
