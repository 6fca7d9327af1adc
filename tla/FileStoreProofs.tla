-------------------------- MODULE FileStoreProofs --------------------------
(***************************************************************************)
(* Proofs about FileStore for any files, handlers, file size and chunk     *)
(* size.                                                                   *)
(***************************************************************************)
EXTENDS FileStore, TLAPS

-----------------------------------------------------------------------------
LEMMA ReadBounds ==
    ASSUME NEW left \in Sizes, left > 0
    PROVE  /\ ReadBytes(left) \in 1 .. left
           /\ left - ReadBytes(left) \in Sizes
           /\ LastRead(left) <=> left - ReadBytes(left) = 0
BY SizesAssumption DEF ReadBytes, LastRead, Sizes

LEMMA NothingNoEntry == Nothing \notin Entry
<1>1. Sizes \subseteq Nat
    BY SizesAssumption DEF Sizes
<1>2. Entry \subseteq [owner : Owners, size : Nat, deleted : BOOLEAN]
    BY <1>1 DEF Entry
<1> QED
    BY <1>2, EntryAssumption

(* An id belongs to one upload at most, which has its blob; then to one    *)
(* entry.                                                                  *)
Ids ==
    /\ \A f \in Files : files[f] # Nothing \/ disk[f] # Nothing => f \in drawn
    /\ \A u \in Uploads :
           IF up[u].pc = "idle" THEN up[u].id = Nothing
           ELSE /\ up[u].id \in drawn /\ up[u].owner \in Owners
                /\ files[up[u].id] = Nothing
                /\ disk[up[u].id] # Nothing
    /\ \A u, v \in Uploads : up[u].id = up[v].id /\ up[u].id # Nothing => u = v

\* A closed blob has the size that was counted.
Whole ==
    /\ \A u \in Uploads :
           up[u].pc = "publish" /\ up[u].id \notin torn => disk[up[u].id] = up[u].size
    /\ \A f \in Files :
           files[f] # Nothing /\ disk[f] # Nothing /\ f \notin torn => disk[f] = files[f].size

\* An entry that a download copied stays, deleted or with its blob.
Found ==
    \A d \in Downloads :
        down[d].pc # "idle" =>
            /\ down[d].id \in Files
            /\ files[down[d].id] # Nothing
            /\ files[down[d].id].size = down[d].size

Present == \A f \in Files : Known(f) => disk[f] # Nothing

Advance(b) ==
    /\ b.pc \in {"idle", "open", "missing"} => b.sent = 0 /\ b.left = 0 /\ ~b.last
    /\ b.pc = "read" => ~b.last /\ (b.left = 0 => b.sent = 0)
    /\ b.pc \in {"read", "done"} /\ b.id \notin torn => b.sent + b.left = b.size
    /\ b.pc = "done" /\ ~b.cut => b.left = 0 /\ (b.last <=> b.sent > 0)
    /\ b.last => b.left = 0
    /\ b.sent + b.left <= MaxSize

Progress == \A d \in Downloads : Advance(down[d])

Missing == \A d \in Downloads : down[d].pc = "missing" => files[down[d].id].deleted

FInv ==
    /\ TypeOK
    /\ Ids /\ Whole /\ Present /\ LeaksAccounted
    /\ Found /\ Progress /\ Missing

LEMMA TypeStep == FInv /\ [Next]_vars => TypeOK'
<1> SUFFICES ASSUME FInv, [Next]_vars PROVE TypeOK'
    OBVIOUS
<1> USE SizesAssumption, NothingAssumption, EntryAssumption
<1>0. TypeOK /\ Ids /\ Found /\ Progress
    BY DEF FInv
<1>1. CASE UNCHANGED vars
    BY <1>0, <1>1 DEF TypeOK, vars
<1>2. ASSUME NEW u \in Uploads, NEW f \in Files, NEW o \in Owners, NEW n \in Sizes, NEW d \in Sizes, NEW last \in BOOLEAN,
             UploadFirst(u, f, o, n, d, last)
      PROVE  TypeOK'
    BY <1>2, <1>0 DEF TypeOK, Upload, Download, Entry, NoUpload, NoDownload, Sizes,
            UploadFirst, Declare
<1>3. ASSUME NEW u \in Uploads, NEW n \in Sizes, NEW d \in Sizes, NEW last \in BOOLEAN,
             UploadNext(u, n, d, last)
      PROVE  TypeOK'
    <2> DEFINE b == up[u]
               c == [b EXCEPT !.size = @ + n, !.declared = Declare(@, d), !.last = @ \/ last]
    <2>1. b \in Upload
        BY <1>0 DEF TypeOK
    <2>2. b.size + n \in Sizes /\ Declare(b.declared, d) \in {-1} \union Sizes
        BY <2>1, <1>3 DEF UploadNext, Upload, Sizes, Declare
    <2>3. (b.last \/ last) \in BOOLEAN
        OBVIOUS
    <2>4. c \in Upload
        BY <2>1, <2>2, <2>3 DEF Upload
    <2>5. up' = [up EXCEPT ![u] = c]
        BY <1>3 DEF UploadNext
    <2>6. up' \in [Uploads -> Upload]
        BY <2>4, <2>5, <1>0 DEF TypeOK
    <2> QED
        BY <2>6, <1>3, <1>0 DEF TypeOK, UploadNext
<1>4. ASSUME NEW u \in Uploads, UploadWriteFails(u)
      PROVE  TypeOK'
    BY <1>4, <1>0 DEF TypeOK, Upload, Download, Entry, NoUpload, NoDownload, Sizes, Ids,
            UploadWriteFails, Discard
<1>5. ASSUME NEW u \in Uploads, UploadRejected(u)
      PROVE  TypeOK'
    BY <1>5, <1>0 DEF TypeOK, Upload, Download, Entry, NoUpload, NoDownload, Sizes, Ids,
            UploadRejected, Discard
<1>6. ASSUME NEW u \in Uploads, UploadClose(u)
      PROVE  TypeOK'
    BY <1>6, <1>0 DEF TypeOK, Upload, Download, Entry, NoUpload, NoDownload, Sizes, Ids,
            UploadClose, Complete
<1>7. ASSUME NEW u \in Uploads, UploadPublish(u)
      PROVE  TypeOK'
    BY <1>7, <1>0 DEF TypeOK, Upload, Download, Entry, NoUpload, NoDownload, Sizes, Ids,
            UploadPublish
<1>8. ASSUME NEW f \in Files, NEW r \in Owners \union {Anyone},
             Delete(f, r)
      PROVE  TypeOK'
    <2>1. files[f] \in Entry
        BY <1>8, <1>0 DEF TypeOK, Delete, Known
    <2>2. [files[f] EXCEPT !.deleted = TRUE] \in Entry
        BY <2>1 DEF Entry
    <2>3. files' = [files EXCEPT ![f] = [files[f] EXCEPT !.deleted = TRUE]]
        BY <1>8 DEF Delete
    <2>4. files' \in [Files -> Entry \union {Nothing}]
        BY <2>2, <2>3, <1>0 DEF TypeOK
    <2>5. disk' \in [Files -> Sizes \union {Nothing}] /\ leaked' \subseteq Files
        BY <1>8, <1>0 DEF TypeOK, Delete
    <2> QED
        BY <2>4, <2>5, <1>8, <1>0 DEF TypeOK, Delete
<1>9. ASSUME NEW d \in Downloads, NEW f \in Files, DownloadFind(d, f)
      PROVE  TypeOK'
    <2> DEFINE c == [NoDownload EXCEPT !.pc = "open", !.id = f, !.size = files[f].size]
    <2>1. files[f].size \in Sizes
        BY <1>9, <1>0 DEF TypeOK, Entry, DownloadFind, Known
    <2>2. c \in Download
        <3>1. NoDownload \in Download
            BY DEF NoDownload, Download, Sizes
        <3> QED
            BY <2>1, <3>1 DEF Download
    <2>3. down' \in [Downloads -> Download]
        BY <2>2, <1>9, <1>0 DEF TypeOK, DownloadFind
    <2> QED
        BY <2>3, <1>9, <1>0 DEF TypeOK, DownloadFind
<1>10. ASSUME NEW d \in Downloads, DownloadOpen(d)
      PROVE  TypeOK'
    <2> DEFINE b == down[d]
    <2>1. b \in Download /\ b.id \in Files
        BY <1>10, <1>0 DEF TypeOK, Found, DownloadOpen
    <2>2. CASE disk[b.id] = Nothing
        <3>1. [b EXCEPT !.pc = "missing"] \in Download
            BY <2>1 DEF Download
        <3>2. down' = [down EXCEPT ![d] = [b EXCEPT !.pc = "missing"]]
            BY <2>2, <1>10 DEF DownloadOpen
        <3> QED
            BY <3>1, <3>2, <1>10, <1>0 DEF TypeOK, DownloadOpen
    <2>3. CASE disk[b.id] # Nothing
        <3>1. disk[b.id] \in Sizes
            BY <2>1, <2>3, <1>0 DEF TypeOK
        <3>2. [b EXCEPT !.pc = "read", !.left = disk[b.id]] \in Download
            BY <2>1, <3>1 DEF Download
        <3>3. down' = [down EXCEPT ![d] = [b EXCEPT !.pc = "read", !.left = disk[b.id]]]
            BY <2>3, <1>10 DEF DownloadOpen
        <3> QED
            BY <3>2, <3>3, <1>10, <1>0 DEF TypeOK, DownloadOpen
    <2> QED
        BY <2>2, <2>3
<1>11. ASSUME NEW d \in Downloads, DownloadChunk(d)
      PROVE  TypeOK'
    <2>1. /\ ReadBytes(down[d].left) \in 1 .. down[d].left
          /\ down[d].left - ReadBytes(down[d].left) \in Sizes
          /\ LastRead(down[d].left) \in BOOLEAN
        BY <1>11, <1>0, ReadBounds DEF DownloadChunk, TypeOK, Download, LastRead
    <2>2. down[d].sent + ReadBytes(down[d].left) \in Sizes
        BY <1>0, <2>1 DEF TypeOK, Download, Progress, Advance, Sizes
    <2> DEFINE b == down[d]
               c(cut) == [b EXCEPT !.pc = IF cut \/ b.left <= ChunkSize THEN "done" ELSE "read",
                                   !.left = b.left - ReadBytes(b.left),
                                   !.sent = b.sent + ReadBytes(b.left),
                                   !.last = LastRead(b.left),
                                   !.cut = cut]
    <2>3. PICK cut \in BOOLEAN : down' = [down EXCEPT ![d] = c(cut)]
        BY <1>11 DEF DownloadChunk
    <2>4. b \in Download
        BY <1>0 DEF TypeOK
    <2>5. c(cut) \in Download
        BY <2>1, <2>2, <2>4 DEF Download
    <2> QED
        BY <1>11, <1>0, <2>3, <2>5 DEF DownloadChunk, TypeOK
<1>12. ASSUME NEW d \in Downloads, DownloadEmpty(d)
      PROVE  TypeOK'
    BY <1>12, <1>0 DEF TypeOK, Upload, Download, Entry, NoUpload, NoDownload, Sizes,
            DownloadEmpty
<1>13. ASSUME Crash
      PROVE  TypeOK'
    BY <1>13, <1>0 DEF TypeOK, Upload, Download, Entry, NoUpload, NoDownload, Sizes,
            Crash
<1> QED
    BY <1>1, <1>2, <1>3, <1>4, <1>5, <1>6, <1>7, <1>8, <1>9, <1>10, <1>11, <1>12, <1>13 DEF Next

LEMMA BlobStep == FInv /\ [Next]_vars => (Ids /\ Whole /\ Present /\ LeaksAccounted)'
<1> DEFINE Blobs == Ids /\ Whole /\ Present /\ LeaksAccounted
<1> SUFFICES ASSUME FInv, [Next]_vars PROVE Blobs'
    OBVIOUS
<1> USE SizesAssumption, NothingAssumption, EntryAssumption
<1>0. TypeOK /\ Blobs /\ TypeOK'
    BY TypeStep DEF FInv
<1>1. CASE UNCHANGED vars
    BY <1>0, <1>1 DEF Ids, Whole, Present, LeaksAccounted, Known, vars
<1>2. ASSUME NEW u \in Uploads, NEW f \in Files, NEW o \in Owners, NEW n \in Sizes, NEW d \in Sizes, NEW last \in BOOLEAN,
             UploadFirst(u, f, o, n, d, last)
      PROVE  Blobs'
    BY <1>2, <1>0 DEF TypeOK, Upload, Entry, NoUpload, Sizes, Ids, Whole, Present,
            LeaksAccounted, Known, UploadFirst, Declare
<1>3. ASSUME NEW u \in Uploads, NEW n \in Sizes, NEW d \in Sizes, NEW last \in BOOLEAN,
             UploadNext(u, n, d, last)
      PROVE  Blobs'
    <2>1. up[u].pc = "recv" /\ up[u] \in Upload
        BY <1>3, <1>0 DEF TypeOK, UploadNext
    <2>2. /\ disk' = disk /\ files' = files /\ drawn' = drawn
          /\ torn' = torn /\ leaked' = leaked
        BY <1>3 DEF UploadNext
    <2>3. /\ up'[u].pc = "recv" /\ up'[u].id = up[u].id /\ up'[u].owner = up[u].owner
          /\ \A v \in Uploads : v # u => up'[v] = up[v]
        BY <1>3, <1>0, <2>1 DEF TypeOK, Upload, UploadNext
    <2>4. \A v \in Uploads : /\ up'[v].pc = up[v].pc /\ up'[v].id = up[v].id
                              /\ up'[v].owner = up[v].owner
        BY <2>1, <2>3
    <2>5. \A v \in Uploads : up'[v].pc = "publish" => up'[v] = up[v]
        BY <2>3
    <2>6. Ids'
        BY <2>2, <2>4, <1>0 DEF Ids
    <2>7. Whole'
        BY <2>2, <2>5, <1>0 DEF Whole
    <2>8. Present'
        BY <2>2, <1>0 DEF Present, Known
    <2>9. LeaksAccounted'
        BY <2>2, <2>4, <1>0 DEF LeaksAccounted, Known
    <2> QED
        BY <2>6, <2>7, <2>8, <2>9
<1>4. ASSUME NEW u \in Uploads, UploadWriteFails(u)
      PROVE  Blobs'
    BY <1>4, <1>0 DEF TypeOK, Upload, Entry, NoUpload, Sizes, Ids, Whole, Present,
            LeaksAccounted, Known, UploadWriteFails, Discard
<1>5. ASSUME NEW u \in Uploads, UploadRejected(u)
      PROVE  Blobs'
    BY <1>5, <1>0 DEF TypeOK, Upload, Entry, NoUpload, Sizes, Ids, Whole, Present,
            LeaksAccounted, Known, UploadRejected, Discard
<1>6. ASSUME NEW u \in Uploads, UploadClose(u)
      PROVE  Blobs'
    <2>1. up[u] \in Upload /\ up[u].id \in Files /\ up[u].owner \in Owners
        BY <1>6, <1>0 DEF TypeOK, Upload, Ids, UploadClose
    <2>2. Ids'
        BY <1>6, <1>0, <2>1 DEF TypeOK, Upload, NoUpload, Sizes, Ids, UploadClose
    <2>3. Whole'
        <3>1. PICK n \in 0 .. up[u].size :
                  /\ disk' = [disk EXCEPT ![up[u].id] = n]
                  /\ torn' = IF n < up[u].size THEN torn \union {up[u].id} ELSE torn
            BY <1>6 DEF UploadClose
        <3>2. ASSUME NEW v \in Uploads, up'[v].pc = "publish", up'[v].id \notin torn'
              PROVE  disk'[up'[v].id] = up'[v].size
            <4>1. CASE v = u
                BY <4>1, <3>1, <3>2, <2>1, <1>6, <1>0 DEF TypeOK, Upload, Sizes, UploadClose
            <4>2. CASE v # u
                <5>1. up'[v] = up[v] /\ up[v].id # up[u].id
                    BY <4>2, <3>2, <2>1, <1>6, <1>0 DEF TypeOK, Ids, UploadClose
                <5> QED
                    BY <5>1, <3>1, <3>2, <1>0 DEF TypeOK, Whole
            <4> QED
                BY <4>1, <4>2
        <3>3. ASSUME NEW f \in Files, files'[f] # Nothing, disk'[f] # Nothing, f \notin torn'
              PROVE  disk'[f] = files'[f].size
            <4>1. files' = files /\ f # up[u].id
                BY <3>3, <2>1, <1>6, <1>0 DEF Ids, UploadClose
            <4> QED
                BY <4>1, <3>1, <3>3, <1>0 DEF TypeOK, Whole
        <3> QED
            BY <3>2, <3>3 DEF Whole
    <2>4. Present'
        BY <1>6, <1>0, <2>1 DEF TypeOK, Upload, Sizes, Ids, Present, Known, UploadClose
    <2>5. LeaksAccounted'
        BY <1>6, <1>0, <2>1 DEF TypeOK, Upload, NoUpload, Ids, LeaksAccounted, Known, UploadClose
    <2> QED
        BY <2>2, <2>3, <2>4, <2>5
<1>7. ASSUME NEW u \in Uploads, UploadPublish(u)
      PROVE  Blobs'
    <2>1. up[u] \in Upload /\ up[u].id \in Files /\ up[u].owner \in Owners
        BY <1>7, <1>0 DEF TypeOK, Upload, Ids, UploadPublish
    <2>2. Ids'
        BY <1>7, <1>0, <2>1 DEF TypeOK, Upload, NoUpload, Sizes, Ids, UploadPublish
    <2>3. Whole'
        BY <1>7, <1>0, <2>1 DEF TypeOK, Upload, NoUpload, Sizes, Ids, Whole, UploadPublish
    <2>4. Present'
        BY <1>7, <1>0, <2>1 DEF TypeOK, Upload, Sizes, Ids, Present, Known, UploadPublish
    <2>5. LeaksAccounted'
        <3> DEFINE e == [owner |-> up[u].owner, size |-> up[u].size, deleted |-> FALSE]
        <3>1. e \in Entry
            BY <2>1 DEF Entry, Upload
        <3>2. files' = [files EXCEPT ![up[u].id] = e]
            BY <1>7 DEF UploadPublish
        <3>3. files'[up[u].id] # Nothing /\ ~files'[up[u].id].deleted
            <4>1. files'[up[u].id] = e
                BY <3>2, <2>1, <1>0 DEF TypeOK
            <4>2. e # Nothing
                BY <3>1, NothingNoEntry
            <4> QED
                BY <4>1, <4>2
        <3>4. ASSUME NEW f \in Files, disk'[f] # Nothing, f # up[u].id
              PROVE  Known(f)' \/ (\E v \in Uploads : up'[v].id = f) \/ f \in leaked'
            <4>1. files'[f] = files[f]
                BY <3>2, <3>4, <1>0 DEF TypeOK
            <4>2. ASSUME NEW v \in Uploads, up[v].id = f
                  PROVE  up'[v].id = f
                BY <4>2, <3>4, <1>7, <1>0 DEF TypeOK, UploadPublish
            <4> QED
                BY <4>1, <4>2, <3>4, <1>7, <1>0 DEF LeaksAccounted, Known, UploadPublish
        <3> QED
            BY <3>3, <3>4 DEF LeaksAccounted, Known
    <2> QED
        BY <2>2, <2>3, <2>4, <2>5
<1>8. ASSUME NEW f \in Files, NEW r \in Owners \union {Anyone},
             Delete(f, r)
      PROVE  Blobs'
    BY <1>8, <1>0 DEF TypeOK, Upload, Entry, NoUpload, Sizes, Ids, Whole, Present,
            LeaksAccounted, Known, Delete
<1>9. ASSUME NEW d \in Downloads, NEW f \in Files, DownloadFind(d, f)
      PROVE  Blobs'
    BY <1>9, <1>0 DEF TypeOK, Upload, Entry, NoUpload, Sizes, Ids, Whole, Present,
            LeaksAccounted, Known, DownloadFind
<1>10. ASSUME NEW d \in Downloads, DownloadOpen(d)
      PROVE  Blobs'
    BY <1>10, <1>0 DEF TypeOK, Upload, Entry, NoUpload, Sizes, Ids, Whole, Present,
            LeaksAccounted, Known, DownloadOpen
<1>11. ASSUME NEW d \in Downloads, DownloadChunk(d)
      PROVE  Blobs'
    BY <1>11, <1>0 DEF TypeOK, Upload, Entry, NoUpload, Sizes, Ids, Whole, Present,
            LeaksAccounted, Known, DownloadChunk
<1>12. ASSUME NEW d \in Downloads, DownloadEmpty(d)
      PROVE  Blobs'
    BY <1>12, <1>0 DEF TypeOK, Upload, Entry, NoUpload, Sizes, Ids, Whole, Present,
            LeaksAccounted, Known, DownloadEmpty
<1>13. ASSUME Crash
      PROVE  Blobs'
    BY <1>13, <1>0 DEF TypeOK, Upload, Entry, NoUpload, Sizes, Ids, Whole, Present,
            LeaksAccounted, Known, Crash
<1> QED
    BY <1>1, <1>2, <1>3, <1>4, <1>5, <1>6, <1>7, <1>8, <1>9, <1>10, <1>11, <1>12, <1>13 DEF Next

LEMMA DownloadStep == FInv /\ [Next]_vars => (Found /\ Progress /\ Missing)'
<1> DEFINE Downs == Found /\ Progress /\ Missing
<1> SUFFICES ASSUME FInv, [Next]_vars PROVE Downs'
    OBVIOUS
<1> USE SizesAssumption, NothingAssumption, EntryAssumption
<1>0. TypeOK /\ Ids /\ Whole /\ Present /\ Downs /\ TypeOK'
    BY TypeStep DEF FInv
<1>1. CASE UNCHANGED vars
    BY <1>0, <1>1 DEF Found, Progress, Advance, Missing, vars
<1>2. ASSUME NEW u \in Uploads, NEW f \in Files, NEW o \in Owners, NEW n \in Sizes, NEW d \in Sizes, NEW last \in BOOLEAN,
             UploadFirst(u, f, o, n, d, last)
      PROVE  Downs'
    BY <1>2, <1>0 DEF TypeOK, Download, Upload, Entry, NoDownload, Sizes, Ids, Whole,
            Present, Known, Found, Progress, Advance, Missing, UploadFirst, Declare
<1>3. ASSUME NEW u \in Uploads, NEW n \in Sizes, NEW d \in Sizes, NEW last \in BOOLEAN,
             UploadNext(u, n, d, last)
      PROVE  Downs'
    BY <1>3, <1>0 DEF TypeOK, Download, Upload, Entry, NoDownload, Sizes, Ids, Whole,
            Present, Known, Found, Progress, Advance, Missing, UploadNext, Declare
<1>4. ASSUME NEW u \in Uploads, UploadWriteFails(u)
      PROVE  Downs'
    BY <1>4, <1>0 DEF TypeOK, Download, Upload, Entry, NoDownload, Sizes, Ids, Whole,
            Present, Known, Found, Progress, Advance, Missing, UploadWriteFails, Discard
<1>5. ASSUME NEW u \in Uploads, UploadRejected(u)
      PROVE  Downs'
    BY <1>5, <1>0 DEF TypeOK, Download, Upload, Entry, NoDownload, Sizes, Ids, Whole,
            Present, Known, Found, Progress, Advance, Missing, UploadRejected, Discard
<1>6. ASSUME NEW u \in Uploads, UploadClose(u)
      PROVE  Downs'
    BY <1>6, <1>0 DEF TypeOK, Download, Upload, Entry, NoDownload, Sizes, Ids, Whole,
            Present, Known, Found, Progress, Advance, Missing, UploadClose, Complete
<1>7. ASSUME NEW u \in Uploads, UploadPublish(u)
      PROVE  Downs'
    BY <1>7, <1>0 DEF TypeOK, Download, Upload, Entry, NoDownload, Sizes, Ids, Whole,
            Present, Known, Found, Progress, Advance, Missing, UploadPublish
<1>8. ASSUME NEW f \in Files, NEW r \in Owners \union {Anyone},
             Delete(f, r)
      PROVE  Downs'
    <2>1. /\ down' = down /\ torn' = torn /\ files[f] \in Entry
          /\ files' = [files EXCEPT ![f] = [files[f] EXCEPT !.deleted = TRUE]]
        BY <1>8, <1>0 DEF TypeOK, Delete, Known
    <2>2. \A g \in Files :
              files[g] # Nothing =>
                  /\ files'[g] # Nothing /\ files'[g].size = files[g].size
                  /\ files[g].deleted => files'[g].deleted
        <3> SUFFICES ASSUME NEW g \in Files, files[g] # Nothing
                     PROVE  /\ files'[g] # Nothing /\ files'[g].size = files[g].size
                            /\ files[g].deleted => files'[g].deleted
            OBVIOUS
        <3>1. CASE g = f
            <4>1. files'[f] = [files[f] EXCEPT !.deleted = TRUE]
                BY <2>1, <1>0 DEF TypeOK
            <4>2. [files[f] EXCEPT !.deleted = TRUE] \in Entry
                BY <2>1 DEF Entry
            <4> QED
                BY <3>1, <4>1, <4>2, <2>1, NothingNoEntry DEF Entry
        <3>2. CASE g # f
            BY <3>2, <2>1, <1>0 DEF TypeOK
        <3> QED
            BY <3>1, <3>2
    <2>3. Found' /\ Progress'
        BY <2>1, <2>2, <1>0 DEF Found, Progress, Advance
    <2>4. Missing'
        <3> SUFFICES ASSUME NEW d \in Downloads, down[d].pc = "missing"
                     PROVE  files'[down[d].id].deleted
            BY <2>1 DEF Missing
        <3> QED
            BY <2>2, <1>0 DEF Found, Missing
    <2> QED
        BY <2>3, <2>4
<1>9. ASSUME NEW d \in Downloads, NEW f \in Files, DownloadFind(d, f)
      PROVE  Downs'
    <2> DEFINE c == [NoDownload EXCEPT !.pc = "open", !.id = f, !.size = files[f].size]
    <2>1. /\ c.pc = "open" /\ c.id = f /\ c.size = files[f].size
          /\ c.sent = 0 /\ c.left = 0 /\ ~c.last /\ ~c.cut
        BY DEF NoDownload
    <2>2. /\ down' = [down EXCEPT ![d] = c] /\ files[f] # Nothing
          /\ files' = files /\ torn' = torn
        BY <1>9 DEF DownloadFind, Known
    <2>3. down'[d] = c /\ \A e \in Downloads : e # d => down'[e] = down[e]
        BY <2>2, <1>0 DEF TypeOK
    <2>4. Found' /\ Missing'
        BY <2>1, <2>2, <2>3, <1>0 DEF Found, Missing
    <2>5. Advance(c)
        BY <2>1 DEF Advance, Sizes
    <2>6. Progress'
        BY <2>2, <2>3, <2>5, <1>0 DEF Progress, Advance
    <2> QED
        BY <2>4, <2>6
<1>10. ASSUME NEW d \in Downloads, DownloadOpen(d)
      PROVE  Downs'
    <2> DEFINE b == down[d]
    <2>1. b \in Download /\ b.pc = "open" /\ b.id \in Files /\ files[b.id] # Nothing
        BY <1>10, <1>0 DEF TypeOK, Found, DownloadOpen
    <2>2. CASE disk[b.id] = Nothing
        <3>1. down' = [down EXCEPT ![d] = [b EXCEPT !.pc = "missing"]]
            BY <2>2, <1>10 DEF DownloadOpen
        <3>2. files[b.id].deleted
            BY <2>1, <2>2, <1>0 DEF Present, Known
        <3>3. Found' /\ Missing'
            BY <3>1, <3>2, <2>1, <1>10, <1>0 DEF TypeOK, Found, Missing, Download, DownloadOpen
        <3>4. Progress'
            BY <3>1, <2>1, <1>10, <1>0 DEF TypeOK, Progress, Advance, Download, DownloadOpen
        <3> QED
            BY <3>3, <3>4
    <2>3. CASE disk[b.id] # Nothing
        <3>1. down' = [down EXCEPT ![d] = [b EXCEPT !.pc = "read", !.left = disk[b.id]]]
            BY <2>3, <1>10 DEF DownloadOpen
        <3>2. /\ disk[b.id] \in Sizes
              /\ b.id \notin torn => disk[b.id] = b.size
            BY <2>1, <2>3, <1>0 DEF TypeOK, Whole, Found
        <3> DEFINE c == [b EXCEPT !.pc = "read", !.left = disk[b.id]]
        <3>4. /\ c.pc = "read" /\ c.left = disk[b.id] /\ c.id = b.id /\ c.size = b.size
              /\ c.sent = 0 /\ ~c.last /\ c.left \in Sizes
            BY <2>1, <3>2, <1>0 DEF Download, Progress, Advance
        <3>5. Advance(c)
            BY <3>2, <3>4 DEF Advance, Sizes
        <3>6. /\ torn' = torn /\ down'[d] = c
              /\ \A e \in Downloads : e # d => down'[e] = down[e]
            BY <3>1, <1>10, <1>0 DEF TypeOK, DownloadOpen
        <3> HIDE DEF c
        <3>7. Progress'
            BY <3>5, <3>6, <1>0 DEF Progress, Advance
        <3>8. files' = files
            BY <1>10 DEF DownloadOpen
        <3>9. Found' /\ Missing'
            BY <3>4, <3>6, <3>8, <2>1, <1>0 DEF Found, Missing
        <3> QED
            BY <3>7, <3>9
    <2> QED
        BY <2>2, <2>3
<1>11. ASSUME NEW d \in Downloads, DownloadChunk(d)
      PROVE  Downs'
    <2>1. /\ ReadBytes(down[d].left) \in 1 .. down[d].left
          /\ LastRead(down[d].left) <=> down[d].left - ReadBytes(down[d].left) = 0
          /\ LastRead(down[d].left) <=> down[d].left <= ChunkSize
        BY <1>11, <1>0, ReadBounds DEF DownloadChunk, TypeOK, Download, LastRead
    <2> DEFINE b == down[d]
               c(cut) == [b EXCEPT !.pc = IF cut \/ b.left <= ChunkSize THEN "done" ELSE "read",
                                   !.left = b.left - ReadBytes(b.left),
                                   !.sent = b.sent + ReadBytes(b.left),
                                   !.last = LastRead(b.left),
                                   !.cut = cut]
    <2>3. PICK cut \in BOOLEAN : down' = [down EXCEPT ![d] = c(cut)]
        BY <1>11 DEF DownloadChunk
    <2>4. b \in Download /\ b.pc = "read" /\ b.left > 0 /\ Advance(b)
        BY <1>11, <1>0 DEF TypeOK, Progress, DownloadChunk
    <2>5. /\ c(cut).pc = IF cut \/ b.left <= ChunkSize THEN "done" ELSE "read"
          /\ c(cut).left = b.left - ReadBytes(b.left)
          /\ c(cut).sent = b.sent + ReadBytes(b.left)
          /\ c(cut).last = LastRead(b.left) /\ c(cut).cut = cut
          /\ c(cut).id = b.id /\ c(cut).size = b.size
        BY <2>4 DEF Download
    <2>6. b.left \in Nat /\ b.sent \in Nat /\ b.size \in Nat /\ ReadBytes(b.left) \in Nat
        BY <2>1, <2>4 DEF Download, Sizes
    <2> HIDE DEF c
    <2>7. Advance(c(cut))
        BY <2>1, <2>4, <2>5, <2>6 DEF Advance
    <2>8. /\ torn' = torn /\ down'[d] = c(cut)
          /\ \A e \in Downloads : e # d => down'[e] = down[e]
        BY <2>3, <1>11, <1>0 DEF TypeOK, DownloadChunk
    <2>9. Progress'
        BY <2>7, <2>8, <1>0 DEF Progress, Advance
    <2>10. Found' /\ Missing'
        <3>1. files' = files
            BY <1>11 DEF DownloadChunk
        <3>2. c(cut).pc # "missing" /\ c(cut).id = b.id /\ c(cut).size = b.size
            BY <2>5
        <3> QED
            BY <3>1, <3>2, <2>4, <2>8, <1>0 DEF Found, Missing
    <2> QED
        BY <2>9, <2>10
<1>12. ASSUME NEW d \in Downloads, DownloadEmpty(d)
      PROVE  Downs'
    <2> DEFINE b == down[d]
               c == [b EXCEPT !.pc = "done"]
    <2>1. /\ b \in Download /\ b.pc = "read" /\ b.left = 0 /\ Advance(b)
          /\ down' = [down EXCEPT ![d] = c] /\ files' = files /\ torn' = torn
        BY <1>12, <1>0 DEF TypeOK, Progress, DownloadEmpty
    <2>2. /\ c.pc = "done" /\ c.id = b.id /\ c.size = b.size /\ c.left = b.left
          /\ c.sent = b.sent /\ c.last = b.last /\ c.cut = b.cut
        BY <2>1 DEF Download
    <2>3. down'[d] = c /\ \A e \in Downloads : e # d => down'[e] = down[e]
        BY <2>1, <1>0 DEF TypeOK
    <2> HIDE DEF c
    <2>4. Advance(c)
        BY <2>1, <2>2 DEF Advance, Download, Sizes
    <2>5. Progress'
        BY <2>1, <2>3, <2>4, <1>0 DEF Progress, Advance
    <2>6. Found' /\ Missing'
        BY <2>1, <2>2, <2>3, <1>0 DEF Found, Missing
    <2> QED
        BY <2>5, <2>6
<1>13. ASSUME Crash
      PROVE  Downs'
    BY <1>13, <1>0 DEF TypeOK, Download, Upload, Entry, NoDownload, Sizes, Ids, Whole,
            Present, Known, Found, Progress, Advance, Missing, Crash
<1> QED
    BY <1>1, <1>2, <1>3, <1>4, <1>5, <1>6, <1>7, <1>8, <1>9, <1>10, <1>11, <1>12, <1>13 DEF Next

LEMMA InvariantStep == FInv /\ [Next]_vars => FInv'
BY TypeStep, BlobStep, DownloadStep DEF FInv

LEMMA InitFInv == Init => FInv
BY SizesAssumption, NothingAssumption, EntryAssumption
   DEF Init, FInv, TypeOK, Upload, Download, NoUpload, NoDownload, Sizes, Ids, Whole, Present,
       LeaksAccounted, Known, Found, Progress, Advance, Missing

LEMMA Invariant == Spec => []FInv
BY InitFInv, InvariantStep, PTL DEF Spec

(* Blobs, table and handlers keep their shapes.                            *)
THEOREM TypeCorrect == Spec => []TypeOK
BY Invariant, PTL DEF FInv

(* A file the service knows has its blob, whole unless its close failed.   *)
THEOREM BlobsListed == Spec => []ListedOnDisk
<1>1. FInv => ListedOnDisk
    BY DEF FInv, Whole, Present, ListedOnDisk, Known
<1> QED
    BY <1>1, Invariant, PTL

(* No path through Upload leaves a blob behind that nobody lists, except   *)
(* through a crash or a remove that failed.                                *)
THEOREM NoLeak == Spec => []LeaksAccounted
BY Invariant, PTL DEF FInv

(* A download that was not cut is the whole file, with the last chunk and  *)
(* only that one flagged.                                                  *)
THEOREM DownloadsWhole == Spec => []DownloadWhole
<1>1. FInv => DownloadWhole
    <2> SUFFICES ASSUME FInv, NEW d \in Downloads
                 PROVE  /\ down[d].last => down[d].left = 0
                        /\ down[d].pc = "done" /\ ~down[d].cut /\ down[d].id \notin torn =>
                               /\ down[d].sent = down[d].size
                               /\ down[d].last <=> down[d].size > 0
        BY DEF DownloadWhole
    <2>1. down[d] \in Download
        BY DEF FInv, TypeOK
    <2> QED
        BY <2>1 DEF FInv, Progress, Advance, Download, Sizes
<1> QED
    BY <1>1, Invariant, PTL

(* A download misses its blob only if the file was deleted.                *)
THEOREM MissingDeleted == Spec => []MissingOnlyIfDeleted
<1>1. FInv => MissingOnlyIfDeleted
    BY DEF FInv, Missing, MissingOnlyIfDeleted
<1> QED
    BY <1>1, Invariant, PTL

=============================================================================
