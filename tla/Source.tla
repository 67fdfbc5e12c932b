------------------------------- MODULE Source -------------------------------
(***************************************************************************)
(* A local source directory that changes while push scans and uploads it:  *)
(* FileSystemScanner and HttpByteTransfer.put, one system call at a time,  *)
(* against a writer, and against a store that may or may not enforce the   *)
(* checksum header of a presigned PUT.                                     *)
(*                                                                         *)
(* A digest is the content it belongs to.  A chunk is one read.  mtimes    *)
(* come from a clock that several writes may share; nobody sets them back. *)
(* Registry and server side are reduced to the blob rows, their sizes and  *)
(* whether they are AVAILABLE: SinglePut has the rest.                     *)
(***************************************************************************)
EXTENDS Integers, Sequences, FiniteSets

CONSTANTS
    FileCount,   \* files of the source tree, in manifest order
    RootFiles,   \* those directly in the root; the others are in directories
    Chunks,      \* what one read may return
    Trees,       \* the contents of the files when push starts
    MaxEvents,   \* bound on changes of the source, lost answers, conflicts
                 \* and other pushes together
    None

\* A file is one or two chunks long.
Contents == {<<a>> : a \in Chunks} \cup {<<a, b>> : a \in Chunks, b \in Chunks}

ASSUME SourceAssumption == FileCount \in Nat \ {0} /\ RootFiles \subseteq 1..FileCount
ASSUME SourceBounds == MaxEvents \in Nat
ASSUME TreesAssumption == Trees \subseteq [1..FileCount -> Contents]
ASSUME SourceNone == None \notin Contents /\ None \notin 1..2

VARIABLES
    \* the file system
    node,       \* content and mtime of each inode, and whether it had other
                \* contents under this mtime
    name,       \* the inode each path names
    rootTime,   \* mtime of the root directory
    clock, writes,
    \* the store and the service
    object,     \* the bytes stored at the key of each digest
    enforces,   \* the store checks x-amz-checksum-sha256
    sizes,      \* size_bytes of the blob row of each digest
    available,  \* digests whose blob is AVAILABLE
    late,       \* PUTs sent in full that nobody waits for
    faults,
    \* the push
    pc, rootSeen, entry, stream, resolved, created

diskVars == <<node, name, rootTime, clock, writes>>
storeVars == <<object, enforces, sizes, available, late, faults>>
pushVars == <<pc, rootSeen, entry, stream, resolved, created>>
srcVars == <<diskVars, storeVars, pushVars>>

Paths == 1..FileCount
\* Every change may bring a new inode.
Nodes == 1..(FileCount + MaxEvents)
Reads == {<<>>} \cup Contents \cup {c \o <<a>> : c \in Contents, a \in Chunks}

MayHappen == writes + faults < MaxEvents

\* FileIdentity: inode, size, mtime.
Identity(n) == [node |-> n, size |-> Len(node[n].content), mtime |-> node[n].mtime]
Identities == [node : Nodes, size : 1..2, mtime : 0..MaxEvents]

\* The size of an entry is that of the first fstat, whatever was hashed.
Entries == [content : Contents, id : Identities]
Scanned == {p \in Paths : entry[p] # None}
Digests == {entry[p].content : p \in Scanned}
\* sources.setdefault: the first file of a digest in manifest order.
IsSource(p) == \A q \in Scanned : entry[q].content = entry[p].content => p <= q

NoStream == [path |-> 0, id |-> None, got |-> <<>>]
Open(p, at) ==
    /\ stream' = [path |-> p, id |-> Identity(name[p]), got |-> <<>>]
    /\ pc' = at

\* One read of the open file at the stream's offset, and its end.
MoreToRead == Len(stream.got) < Len(node[stream.id.node].content)
NextChunk == node[stream.id.node].content[Len(stream.got) + 1]
Unchanged == Identity(stream.id.node) = stream.id

Init ==
    /\ \E c \in Trees :
         node = [n \in Nodes |-> [content |-> IF n \in Paths THEN c[n] ELSE c[1], mtime |-> 0,
                              tied |-> FALSE]]
    /\ name = [p \in Paths |-> p]
    /\ rootTime = 0 /\ clock = 0 /\ writes = 0
    /\ object = [d \in Contents |-> None]
    /\ sizes = [d \in Contents |-> None]
    /\ enforces \in BOOLEAN
    /\ available = {} /\ late = {} /\ faults = 0
    /\ pc = "start" /\ rootSeen = 0
    /\ entry = [p \in Paths |-> None]
    /\ stream = NoStream /\ resolved = {} /\ created = {}

-----------------------------------------------------------------------------
(***************************************************************************)
(* The writer: rewrites a file in place, or renames a new one over it.     *)
(***************************************************************************)

Change(n, file) ==
    /\ MayHappen
    /\ writes' = writes + 1
    /\ clock' = file.mtime
    /\ node' = [node EXCEPT ![n] = file]
    /\ UNCHANGED <<storeVars, pushVars>>

\* A chunk overwritten, appended or cut off.
Edits(old) ==
    {[old EXCEPT ![i] = a] : i \in DOMAIN old, a \in Chunks} \cup
      (IF Len(old) = 1 THEN {Append(old, a) : a \in Chunks} ELSE {<<old[1]>>})

Rewrite(p, tick) ==
    LET file == node[name[p]] IN
    /\ \E c \in Edits(file.content) \ {file.content} :
         Change(name[p], [content |-> c, mtime |-> tick, tied |-> file.mtime = tick])
    /\ UNCHANGED <<name, rootTime>>

\* The new file holds what the old one held, or an edit of it.
Replace(p, tick) ==
    LET n == FileCount + writes + 1
        old == node[name[p]].content
    IN
    /\ \E c \in Edits(old) \cup {old} : Change(n, [content |-> c, mtime |-> tick, tied |-> FALSE])
    /\ name' = [name EXCEPT ![p] = n]
    /\ rootTime' = IF p \in RootFiles THEN tick ELSE rootTime

\* A change happens in the clock tick of the one before it, or later.
Writer == \E p \in Paths, tick \in {clock, clock + 1} : Rewrite(p, tick) \/ Replace(p, tick)

-----------------------------------------------------------------------------
(***************************************************************************)
(* FileSystemScanner.scan.                                                 *)
(***************************************************************************)

OpenRoot ==
    /\ pc = "start"
    /\ rootSeen' = rootTime
    /\ pc' = "scan"
    /\ UNCHANGED <<diskVars, storeVars, entry, stream, resolved, created>>

\* The walk meets the files in the order of scandir.
OpenFile(p) ==
    /\ pc = "scan" /\ entry[p] = None
    /\ Open(p, "hash")
    /\ UNCHANGED <<diskVars, storeVars, rootSeen, entry, resolved, created>>

HashChunk ==
    /\ pc = "hash" /\ MoreToRead
    /\ stream' = [stream EXCEPT !.got = Append(@, NextChunk)]
    /\ UNCHANGED <<diskVars, storeVars, pc, rootSeen, entry, resolved, created>>

\* A scanner that does not compare the second fstat.
CloseFileUnchecked ==
    /\ pc = "hash" /\ ~MoreToRead /\ stream.got \in Contents
    /\ entry' = [entry EXCEPT ![stream.path] = [content |-> stream.got, id |-> stream.id]]
    /\ pc' = "scan" /\ stream' = NoStream
    /\ UNCHANGED <<diskVars, storeVars, rootSeen, resolved, created>>

\* The fstat after the last read decides.
CloseFile ==
    /\ pc = "hash" /\ ~MoreToRead
    /\ IF Unchanged
       THEN /\ entry' = [entry EXCEPT ![stream.path] = [content |-> stream.got, id |-> stream.id]]
            /\ pc' = "scan"
       ELSE entry' = entry /\ pc' = "error"
    /\ stream' = NoStream
    /\ UNCHANGED <<diskVars, storeVars, rootSeen, resolved, created>>

\* register_version: equal digests must have equal sizes.
SizesAgree ==
    \A p \in Paths :
        /\ sizes[entry[p].content] \in {None, entry[p].id.size}
        /\ \A q \in Paths :
             entry[p].content = entry[q].content => entry[p].id.size = entry[q].id.size

EndScan ==
    /\ pc = "scan" /\ Scanned = Paths
    /\ IF SizesAgree
       THEN /\ pc' = "push"
            /\ sizes' = [d \in Contents |->
                 LET same == {p \in Paths : entry[p].content = d}
                 IN  IF same = {} THEN sizes[d] ELSE entry[CHOOSE p \in same : TRUE].id.size]
       ELSE pc' = "error" /\ sizes' = sizes
    /\ UNCHANGED <<diskVars, object, enforces, available, late, faults, rootSeen, entry, stream,
                   resolved, created>>

-----------------------------------------------------------------------------
(***************************************************************************)
(* HttpByteTransfer.put for each digest that is not AVAILABLE.             *)
(***************************************************************************)

Skip(d) ==
    /\ pc = "push" /\ d \in Digests \ resolved
    /\ d \in available
    /\ resolved' = resolved \cup {d}
    /\ UNCHANGED <<diskVars, storeVars, pc, rootSeen, entry, stream, created>>

\* _open_scanned_file: the root and the file must still be the scanned ones.
OpenScanned(p) ==
    /\ pc = "push" /\ entry[p].content \notin resolved \cup available /\ IsSource(p)
    /\ IF rootTime = rootSeen /\ Identity(name[p]) = entry[p].id
       THEN Open(p, "put") ELSE pc' = "error" /\ stream' = stream
    /\ UNCHANGED <<diskVars, storeVars, rootSeen, entry, resolved, created>>

Expected == entry[stream.path].content
SentInFull == Len(stream.got) = entry[stream.path].id.size

\* A body longer than its Content-Length fails the request.
SendChunk ==
    /\ pc = "put" /\ MoreToRead
    /\ IF SentInFull THEN pc' = "error" /\ stream' = NoStream
       ELSE pc' = pc /\ stream' = [stream EXCEPT !.got = Append(@, NextChunk)]
    /\ late' = IF SentInFull THEN late \cup {<<Expected, stream.got>>} ELSE late
    /\ UNCHANGED <<diskVars, object, enforces, sizes, available, faults, rootSeen, entry, resolved,
                   created>>

\* The end of _iter_verified.  By then the store may have the whole body.
EndBody ==
    /\ pc = "put" /\ ~MoreToRead
    /\ IF Unchanged /\ SentInFull
       THEN pc' = "answer" /\ stream' = stream /\ late' = late
       ELSE /\ pc' = "error" /\ stream' = NoStream
            /\ late' = IF SentInFull THEN late \cup {<<Expected, stream.got>>} ELSE late
    /\ UNCHANGED <<diskVars, object, enforces, sizes, available, faults, rootSeen, entry, resolved,
                   created>>

\* A presigned PUT without the checksum header.
TakesUnbound(d, bytes) == object[d] = None

\* presign_put: create-only, bound to the SHA-256 and to a Content-Length that
\* every body sent in full has.
Takes(d, bytes) ==
    /\ object[d] = None
    /\ enforces => bytes = d

\* A 200 believed without hashing what was sent.
AnswerCreatedUnhashed ==
    /\ pc = "answer" /\ Takes(Expected, stream.got)
    /\ object' = [object EXCEPT ![Expected] = stream.got]
    /\ pc' = "complete" /\ created' = created \cup {Expected}
    /\ UNCHANGED <<diskVars, enforces, sizes, available, late, faults, rootSeen, entry, stream,
                   resolved>>

\* 200: the bytes that were sent must be the scanned ones.
AnswerCreated ==
    /\ pc = "answer" /\ Takes(Expected, stream.got)
    /\ object' = [object EXCEPT ![Expected] = stream.got]
    /\ IF stream.got = Expected
       THEN pc' = "complete" /\ created' = created \cup {Expected}
       ELSE pc' = "error" /\ created' = created
    /\ UNCHANGED <<diskVars, enforces, sizes, available, late, faults, rootSeen, entry, stream,
                   resolved>>

\* 412, which may come before the body is consumed.
AnswerExists ==
    /\ pc \in {"put", "answer"} /\ object[Expected] # None
    /\ pc' = "complete"
    /\ UNCHANGED <<diskVars, storeVars, rootSeen, entry, stream, resolved, created>>

\* 400: wrong checksum.
AnswerRejected ==
    /\ pc = "answer" /\ object[Expected] = None /\ ~Takes(Expected, stream.got)
    /\ pc' = "error"
    /\ UNCHANGED <<diskVars, storeVars, rootSeen, entry, stream, resolved, created>>

\* 409: another conditional write is under way.
AnswerConflict ==
    /\ pc \in {"put", "answer"} /\ MayHappen
    /\ faults' = faults + 1
    /\ pc' = "complete"
    /\ UNCHANGED <<diskVars, object, enforces, sizes, available, late, rootSeen, entry, stream,
                   resolved, created>>

\* No answer, or a retryable status.
AnswerLost ==
    /\ pc = "answer" /\ MayHappen
    /\ faults' = faults + 1
    /\ late' = late \cup {<<Expected, stream.got>>}
    /\ pc' = "error"
    /\ UNCHANGED <<diskVars, object, enforces, sizes, available, rootSeen, entry, stream, resolved,
                   created>>

\* complete_upload: the service looks at the object itself.
Complete ==
    /\ pc = "complete"
    /\ IF object[Expected] = Expected /\ Len(Expected) = sizes[Expected]
       THEN /\ available' = available \cup {Expected}
            /\ resolved' = resolved \cup {Expected}
            /\ pc' = "push"
       ELSE pc' = "error" /\ UNCHANGED <<available, resolved>>
    /\ stream' = NoStream
    /\ UNCHANGED <<diskVars, object, enforces, sizes, late, faults, rootSeen, entry, created>>

Finish ==
    /\ pc = "push" /\ Digests = resolved
    /\ pc' = "done"
    /\ UNCHANGED <<diskVars, storeVars, rootSeen, entry, stream, resolved, created>>

\* A rerun that uploads what an earlier scan found.
RerunWithoutScan ==
    /\ pc = "error"
    /\ pc' = IF Scanned = Paths THEN "push" ELSE "start"
    /\ entry' = IF Scanned = Paths THEN entry ELSE [p \in Paths |-> None]
    /\ stream' = NoStream /\ resolved' = {} /\ created' = {}
    /\ UNCHANGED <<diskVars, storeVars, rootSeen>>

\* The user runs push again.
Rerun ==
    /\ pc = "error"
    /\ pc' = "start"
    /\ entry' = [p \in Paths |-> None]
    /\ stream' = NoStream /\ resolved' = {} /\ created' = {}
    /\ UNCHANGED <<diskVars, storeVars, rootSeen>>

-----------------------------------------------------------------------------
(***************************************************************************)
(* Others: a late PUT lands, another push publishes the same bytes.        *)
(***************************************************************************)

Land(d, bytes) ==
    /\ late' = late \ {<<d, bytes>>}
    /\ object' = IF Takes(d, bytes) THEN [object EXCEPT ![d] = bytes] ELSE object
    /\ UNCHANGED <<diskVars, enforces, sizes, available, faults, pushVars>>

OtherPush(d) ==
    /\ MayHappen
    /\ object[d] \in {None, d} /\ sizes[d] \in {None, Len(d)} /\ d \notin available
    /\ faults' = faults + 1
    /\ object' = [object EXCEPT ![d] = d]
    /\ sizes' = [sizes EXCEPT ![d] = Len(d)]
    /\ available' = available \cup {d}
    /\ UNCHANGED <<diskVars, enforces, late, pushVars>>

PushStep ==
    \/ OpenRoot \/ HashChunk \/ CloseFile \/ EndScan
    \/ \E p \in Paths : OpenFile(p) \/ OpenScanned(p)
    \/ \E d \in Digests : Skip(d)
    \/ SendChunk \/ EndBody
    \/ AnswerCreated \/ AnswerExists \/ AnswerRejected
    \/ Complete \/ Finish \/ Rerun

Others ==
    \/ \E r \in late : Land(r[1], r[2])
    \/ \E d \in Digests : OtherPush(d)
    \/ AnswerConflict \/ AnswerLost

Next == PushStep \/ Writer \/ Others

Spec == Init /\ [][Next]_srcVars

\* The push runs and is rerun; changes and faults need not happen.
FairSpec == Spec /\ WF_srcVars(PushStep)
-----------------------------------------------------------------------------
(***************************************************************************)
(* Properties.                                                             *)
(***************************************************************************)

\* A manifest entry is a snapshot of its file: the bytes that were hashed were
\* all in the file at one moment, with the size and mtime the entry carries,
\* unless two changes of the file share that mtime.
EntriesAreSnapshots ==
    [][\A p \in Paths : entry[p] = None /\ entry'[p] # None =>
         LET id == entry'[p].id
         IN /\ id = Identity(id.node)
            /\ ~node[id.node].tied => entry'[p].content = node[id.node].content]_srcVars

\* A store that enforces the checksum holds no object but its digest's bytes,
\* whatever the source did while it was streamed, late requests included.
StoredMatchesDigest ==
    enforces => \A d \in Contents : object[d] \in {None, d}

\* A push reports CREATED, and a blob is AVAILABLE, only with the scanned bytes
\* at the key, also against a store that ignores the checksum.
CreatedIsStored ==
    \A d \in created \cup available : object[d] = d

\* Once the source stops changing, a push that is rerun finishes, against a
\* store that enforces the checksum (a wrong object would stop it) and unless a
\* file that was changed twice within one mtime tick has left a blob row whose
\* size is not that of the hashed bytes: such a row stops every later version
\* with these bytes.
PushesSettle ==
    enforces ~> pc = "done" \/ \E d \in Contents : sizes[d] \notin {None, Len(d)}
\* A push that reports success has published what it scanned: every file has an
\* entry whose exact bytes are at the key of their digest, under an AVAILABLE
\* blob row, and whose size is theirs, also when the file was changed twice
\* within one mtime tick while it was hashed.
DoneIsPublished ==
    pc = "done" =>
      \A p \in Paths :
        /\ entry[p] # None
        /\ entry[p].content \in available
        /\ object[entry[p].content] = entry[p].content
        /\ sizes[entry[p].content] = Len(entry[p].content)
        /\ entry[p].id.size = Len(entry[p].content)
=============================================================================
