---------------------------- MODULE SourceProofs ----------------------------
(***************************************************************************)
(* Proofs about Source, for any files, contents of one or two chunks and   *)
(* any number of changes, faults and reruns: what a manifest says of a     *)
(* file is a snapshot of it, a key holds its digest's bytes, and a push    *)
(* that reports success has published what it scanned.                     *)
(***************************************************************************)
EXTENDS Source, SequenceTheorems, TLAPS

-----------------------------------------------------------------------------
(***************************************************************************)
(* The invariant.                                                          *)
(***************************************************************************)

FileRecords == [content : Contents, mtime : Nat, tied : BOOLEAN]
FileIds == [node : Nodes, size : 1..2, mtime : Nat]

\* Inodes above FileCount + writes are still to come, and no mtime is ahead of
\* the clock.
DiskOK ==
    /\ node \in [Nodes -> FileRecords]
    /\ name \in [Paths -> Nodes]
    /\ clock \in Nat /\ writes \in Nat /\ faults \in Nat
    /\ \A p \in Paths : name[p] <= FileCount + writes
    /\ \A n \in Nodes : node[n].mtime <= clock

\* What has been read of a file is a prefix of it, or it has changed since: then
\* its mtime is above the one first seen, or its changes share that mtime.
Tracks(st, f) ==
    \/ f.mtime > st.id.mtime
    \/ /\ f.mtime = st.id.mtime
       /\ ~f.tied => /\ Len(st.got) <= Len(f.content)
                     /\ \A i \in 1..Len(st.got) : st.got[i] = f.content[i]

HashOK ==
    pc = "hash" =>
      /\ stream.path \in Paths
      /\ stream.id \in FileIds /\ stream.id.node <= FileCount + writes
      /\ stream.got \in Seq(Chunks) /\ Len(stream.got) <= 2
      /\ Tracks(stream, node[stream.id.node])

\* Uploads follow a complete scan.
EntriesOK ==
    /\ entry \in [Paths -> [content : Contents, id : FileIds] \cup {None}]
    /\ pc \in {"push", "put", "answer", "complete"} => \A p \in Paths : entry[p] # None
    /\ pc \in {"put", "answer", "complete"} => stream.path \in Paths
    /\ stream = [path |-> stream.path, id |-> stream.id, got |-> stream.got]

StoreOK ==
    /\ object = [d \in Contents |-> object[d]]
    /\ created \subseteq Contents /\ available \subseteq Contents
    /\ StoredMatchesDigest /\ CreatedIsStored

SrcInv == DiskOK /\ HashOK /\ EntriesOK /\ StoreOK

-----------------------------------------------------------------------------
(***************************************************************************)
(* Contents.                                                               *)
(***************************************************************************)

\* The contents are the sequences of one or two chunks.
LEMMA ContentsAreShort ==
  ASSUME NEW c
  PROVE  c \in Contents <=> c \in Seq(Chunks) /\ Len(c) \in 1..2
<1>1. ASSUME c \in Contents PROVE c \in Seq(Chunks) /\ Len(c) \in 1..2
  <2>1. CASE \E a \in Chunks : c = <<a>>
    BY <2>1
  <2>2. CASE \E a, b \in Chunks : c = <<a, b>>
    BY <2>2
  <2> QED BY <1>1, <2>1, <2>2 DEF Contents
<1>2. ASSUME c \in Seq(Chunks), Len(c) = 1 PROVE c \in Contents
  <2>1. c[1] \in Chunks
    BY <1>2
  <2>2. c = <<c[1]>>
    BY <1>2, <2>1
  <2> QED BY <2>1, <2>2 DEF Contents
<1>3. ASSUME c \in Seq(Chunks), Len(c) = 2 PROVE c \in Contents
  <2>1. c[1] \in Chunks /\ c[2] \in Chunks
    BY <1>3
  <2>2. c = <<c[1], c[2]>>
    BY <1>3, <2>1
  <2> QED BY <2>1, <2>2 DEF Contents
<1> QED BY <1>1, <1>2, <1>3

\* What the writer leaves is a content again.
LEMMA EditedContents == \A old \in Contents : Edits(old) \subseteq Contents
<1> SUFFICES ASSUME NEW old \in Contents, NEW c \in Edits(old)
             PROVE  c \in Seq(Chunks) /\ Len(c) \in 1..2
  BY ContentsAreShort
<1>1. old \in Seq(Chunks) /\ Len(old) \in 1..2
  BY ContentsAreShort
<1>2. ASSUME NEW i \in DOMAIN old, NEW a \in Chunks, c = [old EXCEPT ![i] = a]
      PROVE  c \in Seq(Chunks) /\ Len(c) \in 1..2
  BY <1>1, <1>2, ExceptSeq
<1>3. ASSUME NEW a \in Chunks, Len(old) = 1, c = Append(old, a)
      PROVE  c \in Seq(Chunks) /\ Len(c) \in 1..2
  <2>1. Append(old, a) \in Seq(Chunks) /\ Len(Append(old, a)) = Len(old) + 1
    BY <1>1, AppendProperties
  <2> QED BY <1>3, <2>1
<1>4. ASSUME c = <<old[1]>>
      PROVE  c \in Seq(Chunks) /\ Len(c) \in 1..2
  BY <1>1, <1>4
<1> QED BY <1>2, <1>3, <1>4 DEF Edits

-----------------------------------------------------------------------------
(***************************************************************************)
(* Changes of the source.                                                  *)
(***************************************************************************)

\* Whoever reads an inode sees its change by its mtime or by its tie.
LEMMA WriterStep ==
  ASSUME SrcInv, Writer
  PROVE  SrcInv'
<1>0. DiskOK /\ HashOK /\ EntriesOK /\ StoreOK
  BY DEF SrcInv
<1>1. PICK p \in Paths, tick \in {clock, clock + 1} : Rewrite(p, tick) \/ Replace(p, tick)
  BY DEF Writer
<1>2. /\ tick \in Nat /\ clock <= tick
      /\ name[p] \in Nodes /\ name[p] <= FileCount + writes
      /\ node[name[p]] \in FileRecords /\ node[name[p]].content \in Contents
      /\ FileCount \in Nat /\ MaxEvents \in Nat
  BY <1>0, SourceAssumption, SourceBounds DEF DiskOK, FileRecords
<1>3. PICK n \in Nodes, c \in Contents, tied \in BOOLEAN :
        /\ node' = [node EXCEPT ![n] = [content |-> c, mtime |-> tick, tied |-> tied]]
        /\ name' = name \/ name' = [name EXCEPT ![p] = n]
        /\ n <= FileCount + writes + 1
        /\ n <= FileCount + writes => tied = (node[n].mtime = tick)
        /\ writes' = writes + 1 /\ clock' = tick
        /\ UNCHANGED <<storeVars, pushVars>>
  <2>1. CASE Rewrite(p, tick)
    <3>1. PICK c \in Edits(node[name[p]].content) :
            Change(name[p], [content |-> c, mtime |-> tick, tied |-> node[name[p]].mtime = tick])
      BY <2>1 DEF Rewrite
    <3>2. c \in Contents
      BY <1>2, <3>1, EditedContents
    <3>3. /\ node' = [node EXCEPT ![name[p]] =
                        [content |-> c, mtime |-> tick, tied |-> node[name[p]].mtime = tick]]
          /\ writes' = writes + 1 /\ clock' = tick /\ UNCHANGED <<storeVars, pushVars>>
      BY <3>1 DEF Change
    <3>4. name' = name
      BY <2>1 DEF Rewrite
    <3>5. name[p] <= FileCount + writes + 1
      BY <1>0, <1>2 DEF DiskOK, Nodes
    <3> QED BY <1>2, <3>2, <3>3, <3>4, <3>5
  <2>2. CASE Replace(p, tick)
    <3> DEFINE n == FileCount + writes + 1
    <3>1. PICK c \in Edits(node[name[p]].content) \cup {node[name[p]].content} :
            Change(n, [content |-> c, mtime |-> tick, tied |-> FALSE])
      BY <2>2 DEF Replace
    <3>2. c \in Contents
      BY <1>2, <3>1, EditedContents
    <3>3. /\ node' = [node EXCEPT ![n] = [content |-> c, mtime |-> tick, tied |-> FALSE]]
          /\ writes' = writes + 1 /\ clock' = tick /\ UNCHANGED <<storeVars, pushVars>>
          /\ writes + faults < MaxEvents
      BY <3>1 DEF Change, MayHappen
    <3>4. name' = [name EXCEPT ![p] = n]
      BY <2>2 DEF Replace
    <3>5. n \in Nodes /\ ~(n <= FileCount + writes)
      BY <1>0, <1>2, <3>3 DEF DiskOK, Nodes
    <3>6. n <= FileCount + writes + 1
      BY <1>0, <1>2 DEF DiskOK
    <3> HIDE DEF n
    <3> QED BY <3>2, <3>3, <3>4, <3>5, <3>6
  <2> QED BY <1>1, <2>1, <2>2
<1>4. DiskOK'
  <2>1. [content |-> c, mtime |-> tick, tied |-> tied] \in FileRecords
    BY <1>2 DEF FileRecords
  <2>2. node' \in [Nodes -> FileRecords]
    BY <1>0, <1>3, <2>1 DEF DiskOK
  <2>3. name' \in [Paths -> Nodes]
    BY <1>0, <1>3 DEF DiskOK
  <2>4. clock' \in Nat /\ writes' \in Nat /\ faults' \in Nat
    BY <1>0, <1>2, <1>3 DEF DiskOK, storeVars
  <2>5. ASSUME NEW q \in Paths PROVE name'[q] <= FileCount + writes'
    <3>1. name'[q] = name[q] \/ name'[q] = n
      BY <1>0, <1>3 DEF DiskOK
    <3>2. name[q] \in Nat /\ name[q] <= FileCount + writes /\ n \in Nat /\ writes \in Nat
      BY <1>0, <1>2 DEF DiskOK, Nodes
    <3> QED BY <1>2, <1>3, <3>1, <3>2
  <2>6. ASSUME NEW m \in Nodes PROVE node'[m].mtime <= clock'
    <3>1. node[m].mtime \in Nat /\ node[m].mtime <= clock /\ clock \in Nat
      BY <1>0 DEF DiskOK, FileRecords
    <3>2. CASE m = n
      BY <1>0, <1>2, <1>3, <3>2 DEF DiskOK
    <3>3. CASE m # n
      BY <1>0, <1>2, <1>3, <3>1, <3>3 DEF DiskOK
    <3> QED BY <3>2, <3>3
  <2> QED BY <2>2, <2>3, <2>4, <2>5, <2>6 DEF DiskOK
<1>5. HashOK'
  <2> SUFFICES ASSUME pc = "hash"
               PROVE  /\ stream.id.node <= FileCount + writes'
                      /\ Tracks(stream, node'[stream.id.node])
    BY <1>0, <1>3 DEF HashOK, pushVars
  <2> DEFINE m == stream.id.node
  <2>1. m \in Nodes /\ m \in Nat /\ m <= FileCount + writes /\ stream.id.mtime \in Nat
    BY <1>0, <1>2 DEF HashOK, FileIds, Nodes
  <2>2. /\ node[m].mtime \in Nat /\ node[m].mtime <= clock /\ clock \in Nat /\ writes \in Nat
        /\ Tracks(stream, node[m])
    BY <1>0, <2>1 DEF DiskOK, HashOK, FileRecords
  <2>3. CASE m # n
    BY <1>0, <1>2, <1>3, <2>1, <2>2, <2>3 DEF DiskOK
  <2>4. CASE m = n
    <3>1. /\ node'[m].mtime = tick /\ node'[m].tied = (node[m].mtime = tick)
      BY <1>0, <1>3, <2>1, <2>4 DEF DiskOK
    <3>2. node[m].mtime >= stream.id.mtime
      BY <2>1, <2>2 DEF Tracks
    <3>3. m <= FileCount + writes'
      BY <1>2, <1>3, <2>1, <2>2
    <3>4. CASE tick > stream.id.mtime
      BY <3>1, <3>4, <3>3 DEF Tracks
    <3>5. CASE ~(tick > stream.id.mtime)
      <4>1. tick = stream.id.mtime /\ node[m].mtime = tick
        BY <1>2, <2>1, <2>2, <3>2, <3>5
      <4> QED BY <3>1, <3>3, <4>1 DEF Tracks
    <3> QED BY <3>3, <3>4, <3>5
  <2> QED BY <2>3, <2>4
<1>6. EntriesOK'
  BY <1>0, <1>3 DEF EntriesOK, pushVars
<1>7. StoreOK'
  BY <1>0, <1>3 DEF StoreOK, StoredMatchesDigest, CreatedIsStored, storeVars, pushVars
<1> QED BY <1>4, <1>5, <1>6, <1>7 DEF SrcInv

-----------------------------------------------------------------------------
(***************************************************************************)
(* The push.                                                               *)
(***************************************************************************)

\* The push does not touch the source.
LEMMA DiskStays ==
  ASSUME DiskOK, UNCHANGED diskVars, faults' \in {faults, faults + 1}
  PROVE  DiskOK'
<1>1. faults' \in Nat
  BY DEF DiskOK
<1> QED BY <1>1 DEF DiskOK, diskVars

\* A file that is opened has a size of one or two chunks.
LEMMA OpenedFile ==
  ASSUME DiskOK, NEW p \in Paths
  PROVE  /\ Identity(name[p]) \in FileIds
         /\ name[p] \in Nodes /\ name[p] <= FileCount + writes
         /\ Identity(name[p]).node = name[p]
         /\ Identity(name[p]).mtime = node[name[p]].mtime
         /\ node[name[p]].mtime \in Nat
         /\ Len(node[name[p]].content) \in Nat
<1>1. name[p] \in Nodes /\ name[p] <= FileCount + writes /\ node[name[p]] \in FileRecords
  BY DEF DiskOK
<1>2. Len(node[name[p]].content) \in 1..2
  BY <1>1, ContentsAreShort DEF FileRecords
<1> QED BY <1>1, <1>2 DEF Identity, FileIds, FileRecords

\* A read appends to what was read, and leaves the rest.
LEMMA ExtendedStream ==
  ASSUME NEW st, NEW g, st = [path |-> st.path, id |-> st.id, got |-> st.got]
  PROVE  [st EXCEPT !.got = g] = [path |-> st.path, id |-> st.id, got |-> g]
OBVIOUS

\* A read of a file that has not changed reads on in the same content.
LEMMA ScanStep ==
  ASSUME SrcInv, \/ OpenRoot \/ HashChunk \/ CloseFile \/ EndScan
                 \/ \E p \in Paths : OpenFile(p)
  PROVE  SrcInv'
<1>0. DiskOK /\ HashOK /\ EntriesOK /\ StoreOK
  BY DEF SrcInv
<1>1. DiskOK' /\ StoreOK'
  <2>1. /\ UNCHANGED <<diskVars, object, enforces, available, faults, created>>
    BY DEF OpenRoot, HashChunk, CloseFile, EndScan, OpenFile, storeVars
  <2>2. DiskOK'
    BY <1>0, <2>1, DiskStays
  <2>3. StoreOK'
    BY <1>0, <2>1 DEF StoreOK, StoredMatchesDigest, CreatedIsStored
  <2> QED BY <2>2, <2>3
<1>2. CASE OpenRoot
  BY <1>0, <1>1, <1>2 DEF OpenRoot, SrcInv, HashOK, EntriesOK
<1>3. ASSUME NEW p \in Paths, OpenFile(p) PROVE SrcInv'
  <2>1. /\ stream' = [path |-> p, id |-> Identity(name[p]), got |-> <<>>]
        /\ pc' = "hash" /\ UNCHANGED <<diskVars, entry>>
    BY <1>3 DEF OpenFile, Open
  <2>2. <<>> \in Seq(Chunks) /\ Len(<<>>) = 0
    OBVIOUS
  <2>3. Tracks(stream', node[name[p]])
    BY <1>0, <2>1, <2>2, OpenedFile DEF Tracks
  <2>4. HashOK'
    BY <1>0, <2>1, <2>2, <2>3, OpenedFile DEF HashOK, diskVars
  <2>5. EntriesOK'
    BY <1>0, <2>1 DEF EntriesOK
  <2> QED BY <1>1, <2>4, <2>5 DEF SrcInv
<1>4. CASE HashChunk
  <2> DEFINE n == stream.id.node
             next == node[n].content[Len(stream.got) + 1]
  <2>1. /\ stream' = [stream EXCEPT !.got = Append(stream.got, next)]
        /\ pc = "hash" /\ pc' = "hash" /\ UNCHANGED <<diskVars, entry>>
        /\ stream = [path |-> stream.path, id |-> stream.id, got |-> stream.got]
        /\ Len(stream.got) < Len(node[n].content)
    BY <1>0, <1>4 DEF HashChunk, MoreToRead, NextChunk, EntriesOK
  <2>2. /\ n \in Nodes /\ node[n] \in FileRecords
        /\ stream.got \in Seq(Chunks)
        /\ Tracks(stream, node[n])
    BY <1>0, <2>1 DEF HashOK, FileIds, DiskOK
  <2>3. node[n].content \in Seq(Chunks) /\ Len(node[n].content) \in 1..2
    BY <2>2, ContentsAreShort DEF FileRecords
  <2>4. Len(stream.got) \in Nat /\ next \in Chunks
    BY <2>1, <2>2, <2>3, ElementOfSeq
  <2> HIDE DEF next
  <2>5. /\ Append(stream.got, next) \in Seq(Chunks)
        /\ Len(Append(stream.got, next)) = Len(stream.got) + 1
        /\ \A i \in 1..Len(stream.got) : Append(stream.got, next)[i] = stream.got[i]
        /\ Append(stream.got, next)[Len(stream.got) + 1] = next
    BY <2>2, <2>4, AppendProperties
  <2>6. stream' = [path |-> stream.path, id |-> stream.id, got |-> Append(stream.got, next)]
    BY <2>1, ExtendedStream
  <2>7. Tracks(stream', node[n])
    <3>1. CASE node[n].mtime > stream.id.mtime
      BY <2>6, <3>1 DEF Tracks
    <3>2. CASE node[n].mtime = stream.id.mtime
      <4> SUFFICES ASSUME ~node[n].tied
                   PROVE  /\ Len(stream'.got) <= Len(node[n].content)
                          /\ \A i \in 1..Len(stream'.got) : stream'.got[i] = node[n].content[i]
        BY <2>6, <3>2 DEF Tracks
      <4>1. \A i \in 1..Len(stream.got) : stream.got[i] = node[n].content[i]
        BY <2>1, <2>2, <3>2 DEF Tracks, DiskOK, FileRecords, HashOK
      <4>2. ASSUME NEW i \in 1..(Len(stream.got) + 1)
            PROVE  stream'.got[i] = node[n].content[i]
        BY <2>4, <2>5, <2>6, <4>1 DEF next
      <4> QED BY <2>1, <2>3, <2>4, <2>5, <2>6, <4>2
    <3> QED BY <2>2, <3>1, <3>2 DEF Tracks
  <2>8. HashOK'
    <3>1. Len(stream.got) < Len(node[n].content)
      BY <2>1
    <3>2. Len(stream.got) + 1 <= 2
      <4>1. \A x \in Nat, y \in 1..2 : x < y => x + 1 <= 2
        OBVIOUS
      <4> QED BY <2>3, <2>4, <3>1, <4>1
    <3>3. stream'.got \in Seq(Chunks) /\ Len(stream'.got) <= 2
      BY <2>5, <2>6, <3>2
    <3>4. stream.path \in Paths /\ stream.id \in FileIds /\ n <= FileCount + writes
      BY <1>0, <2>1 DEF HashOK
    <3>5. UNCHANGED <<node, writes>>
      BY <2>1 DEF diskVars
    <3> QED BY <2>6, <2>7, <3>3, <3>4, <3>5 DEF HashOK
  <2>9. EntriesOK'
    BY <1>0, <2>1, <2>6 DEF EntriesOK
  <2> QED BY <1>1, <2>8, <2>9 DEF SrcInv
<1>5. CASE CloseFile
  <2>1. /\ pc = "hash" /\ pc' \in {"scan", "error"}
        /\ \/ entry' = entry
           \/ entry' = [entry EXCEPT ![stream.path] = [content |-> stream.got, id |-> stream.id]]
        /\ ~(Len(stream.got) < Len(node[stream.id.node].content))
    BY <1>5 DEF CloseFile, MoreToRead
  <2>2. /\ stream.path \in Paths /\ stream.id \in FileIds
        /\ stream.got \in Seq(Chunks) /\ Len(stream.got) <= 2
        /\ node[stream.id.node].content \in Contents
    BY <1>0, <2>1 DEF HashOK, DiskOK, FileRecords, FileIds
  <2>3. stream.got \in Contents
    <3>1. Len(node[stream.id.node].content) \in 1..2 /\ Len(stream.got) \in Nat
      BY <2>2, ContentsAreShort
    <3>2. /\ ~(Len(stream.got) < Len(node[stream.id.node].content))
          /\ Len(stream.got) <= 2
      BY <2>1, <2>2
    <3>3. Len(stream.got) \in 1..2
      <4>1. \A x \in Nat, y \in 1..2 : ~(x < y) /\ x <= 2 => x \in 1..2
        OBVIOUS
      <4> QED BY <3>1, <3>2, <4>1
    <3> QED BY <2>2, <3>3, ContentsAreShort
  <2>4. [content |-> stream.got, id |-> stream.id] \in [content : Contents, id : FileIds]
    BY <2>2, <2>3
  <2>5. entry' \in [Paths -> [content : Contents, id : FileIds] \cup {None}]
    BY <1>0, <2>1, <2>4 DEF EntriesOK
  <2>6. stream' = NoStream
    BY <1>5 DEF CloseFile
  <2> QED BY <1>1, <2>1, <2>5, <2>6 DEF SrcInv, HashOK, EntriesOK, NoStream
<1>6. CASE EndScan
  <2>1. pc' \in {"push", "error"} /\ Scanned = Paths /\ UNCHANGED <<entry, stream>>
    BY <1>6 DEF EndScan
  <2> QED BY <1>0, <1>1, <2>1 DEF SrcInv, HashOK, EntriesOK, Scanned
<1> QED BY <1>2, <1>3, <1>4, <1>5, <1>6

\* Of a request that the push has under way.
LEMMA Expecting ==
  ASSUME EntriesOK, pc \in {"put", "answer", "complete"}
  PROVE  stream.path \in Paths /\ Expected \in Contents
BY DEF EntriesOK, Expected

\* A digest of the manifest is a content.
LEMMA DigestsAreContents == EntriesOK => Digests \subseteq Contents
BY DEF EntriesOK, Digests, Scanned

\* A body the store takes is stored at a free key, and is the digest's if the
\* store compares.
LEMMA TakenBody ==
  ASSUME StoreOK, NEW d, NEW bytes, Takes(d, bytes),
         object' = [object EXCEPT ![d] = bytes],
         UNCHANGED <<enforces, available>>,
         created' = created \/ (d \in Contents /\ bytes = d /\ created' = created \cup {d})
  PROVE  StoreOK'
<1>1. object' = [e \in Contents |-> object'[e]]
  BY DEF StoreOK
<1>2. \A e \in Contents : object'[e] = IF e = d THEN bytes ELSE object[e]
  BY DEF StoreOK
<1>3. object[d] = None /\ (enforces => bytes = d)
  BY DEF Takes
<1>4. StoredMatchesDigest'
  BY <1>2, <1>3 DEF StoreOK, StoredMatchesDigest
<1>5. CreatedIsStored' /\ created' \subseteq Contents
  BY <1>2, <1>3, SourceNone DEF StoreOK, CreatedIsStored
<1> QED BY <1>1, <1>4, <1>5 DEF StoreOK

\* Only AnswerCreated stores, and only Complete attests.
LEMMA PutStep ==
  ASSUME SrcInv, \/ \E d \in Digests : Skip(d)
                 \/ \E p \in Paths : OpenScanned(p)
                 \/ SendChunk \/ EndBody \/ AnswerCreated \/ AnswerExists \/ AnswerRejected
                 \/ AnswerConflict \/ AnswerLost \/ Complete \/ Finish \/ Rerun
  PROVE  SrcInv'
<1>0. DiskOK /\ HashOK /\ EntriesOK /\ StoreOK
  BY DEF SrcInv
<1>1. DiskOK'
  <2>1. UNCHANGED diskVars /\ faults' \in {faults, faults + 1}
    BY DEF Skip, OpenScanned, SendChunk, EndBody, AnswerCreated, AnswerExists, AnswerRejected,
           AnswerConflict, AnswerLost, Complete, Finish, Rerun, storeVars
  <2> QED BY <1>0, <2>1, DiskStays
<1>2. HashOK'
  <2>1. pc' # "hash"
    BY DEF Skip, OpenScanned, Open, SendChunk, EndBody, AnswerCreated, AnswerExists,
           AnswerRejected, AnswerConflict, AnswerLost, Complete, Finish, Rerun
  <2> QED BY <2>1 DEF HashOK
<1>3. EntriesOK'
  <2>1. stream' = [path |-> stream'.path, id |-> stream'.id, got |-> stream'.got]
    <3>1. \/ stream' = stream \/ stream' = NoStream
          \/ stream' = [stream EXCEPT !.got = Append(@, NextChunk)]
          \/ \E p \in Paths : stream' = [path |-> p, id |-> Identity(name[p]), got |-> <<>>]
      BY DEF Skip, OpenScanned, Open, SendChunk, EndBody, AnswerCreated, AnswerExists,
             AnswerRejected, AnswerConflict, AnswerLost, Complete, Finish, Rerun
    <3> QED BY <1>0, <3>1, ExtendedStream DEF EntriesOK, NoStream
  <2>2. CASE Rerun
    <3>1. pc' = "start" /\ entry' = [p \in Paths |-> None]
      BY <2>2 DEF Rerun
    <3> QED BY <2>1, <3>1 DEF EntriesOK
  <2>3. ASSUME NEW p \in Paths, OpenScanned(p) PROVE EntriesOK'
    <3>1. /\ pc = "push" /\ UNCHANGED entry
          /\ pc' = "error" \/ (pc' = "put" /\ stream'.path = p)
      BY <2>3 DEF OpenScanned, Open
    <3> QED BY <1>0, <2>1, <3>1 DEF EntriesOK
  <2>4. ASSUME NEW d \in Digests, Skip(d) PROVE EntriesOK'
    BY <1>0, <2>4 DEF EntriesOK, Skip
  <2>5. CASE SendChunk
    <3>1. /\ pc = "put" /\ UNCHANGED entry
          /\ pc' = "error" \/ (pc' = "put" /\ stream' = [stream EXCEPT !.got = Append(@, NextChunk)])
      BY <2>5 DEF SendChunk
    <3>2. CASE pc' = "error"
      BY <1>0, <2>1, <3>1, <3>2 DEF EntriesOK
    <3>3. CASE pc' = "put" /\ stream' = [stream EXCEPT !.got = Append(@, NextChunk)]
      <4>1. stream'.path = stream.path
        BY <1>0, <3>3, ExtendedStream DEF EntriesOK
      <4> QED BY <1>0, <2>1, <3>1, <3>3, <4>1 DEF EntriesOK
    <3> QED BY <3>1, <3>2, <3>3
  <2>6. CASE EndBody \/ AnswerCreated \/ AnswerExists \/ AnswerRejected \/ AnswerConflict
             \/ AnswerLost \/ Complete \/ Finish
    <3>1. /\ pc \in {"push", "put", "answer", "complete"} /\ UNCHANGED entry
          /\ \/ pc' \in {"error", "push", "done"}
             \/ pc' \in {"answer", "complete"} /\ pc \in {"put", "answer"} /\ UNCHANGED stream
      BY <2>6 DEF EndBody, AnswerCreated, AnswerExists, AnswerRejected, AnswerConflict,
                  AnswerLost, Complete, Finish
    <3> QED BY <1>0, <2>1, <3>1 DEF EntriesOK
  <2> QED BY <2>2, <2>3, <2>4, <2>5, <2>6
<1>4. StoreOK'
  <2>1. CASE AnswerCreated
    <3>1. /\ Takes(Expected, stream.got) /\ object' = [object EXCEPT ![Expected] = stream.got]
          /\ UNCHANGED <<enforces, available>>
          /\ \/ created' = created
             \/ stream.got = Expected /\ created' = created \cup {Expected}
          /\ pc = "answer"
      BY <2>1 DEF AnswerCreated
    <3>2. Expected \in Contents
      BY <1>0, <3>1, Expecting
    <3> QED BY <1>0, <3>1, <3>2, TakenBody
  <2>2. CASE Complete
    <3>1. /\ pc = "complete" /\ UNCHANGED <<object, enforces, created>>
          /\ \/ available' = available
             \/ object[Expected] = Expected /\ available' = available \cup {Expected}
      BY <2>2 DEF Complete
    <3>2. Expected \in Contents
      BY <1>0, <3>1, Expecting
    <3> QED BY <1>0, <3>1, <3>2 DEF StoreOK, StoredMatchesDigest, CreatedIsStored
  <2>3. CASE \/ \E d \in Digests : Skip(d)
             \/ \E p \in Paths : OpenScanned(p)
             \/ SendChunk \/ EndBody \/ AnswerExists \/ AnswerRejected
             \/ AnswerConflict \/ AnswerLost \/ Finish \/ Rerun
    <3>1. UNCHANGED <<object, enforces, available>> /\ created' \in {created, {}}
      BY <2>3 DEF Skip, OpenScanned, SendChunk, EndBody, AnswerExists, AnswerRejected,
                  AnswerConflict, AnswerLost, Finish, Rerun, storeVars
    <3> QED BY <1>0, <3>1 DEF StoreOK, StoredMatchesDigest, CreatedIsStored
  <2> QED BY <2>1, <2>2, <2>3
<1> QED BY <1>1, <1>2, <1>3, <1>4 DEF SrcInv

\* Late requests and other pushes meet the same store.
LEMMA OtherStep ==
  ASSUME SrcInv, \/ \E r \in late : Land(r[1], r[2])
                 \/ \E d \in Digests : OtherPush(d)
  PROVE  SrcInv'
<1>0. DiskOK /\ HashOK /\ EntriesOK /\ StoreOK
  BY DEF SrcInv
<1>1. UNCHANGED <<diskVars, pushVars, enforces>> /\ faults' \in {faults, faults + 1}
  BY DEF Land, OtherPush
<1>2. DiskOK'
  BY <1>0, <1>1, DiskStays
<1>3. HashOK' /\ EntriesOK'
  BY <1>0, <1>1 DEF HashOK, EntriesOK, diskVars, pushVars
<1>4. ASSUME NEW r \in late, Land(r[1], r[2]) PROVE StoreOK'
  <2>1. /\ UNCHANGED <<enforces, available, created>>
        /\ \/ object' = object
           \/ Takes(r[1], r[2]) /\ object' = [object EXCEPT ![r[1]] = r[2]]
    BY <1>4 DEF Land, pushVars
  <2>2. CASE object' = object
    BY <1>0, <2>1, <2>2 DEF StoreOK, StoredMatchesDigest, CreatedIsStored
  <2>3. CASE Takes(r[1], r[2]) /\ object' = [object EXCEPT ![r[1]] = r[2]]
    BY <1>0, <2>1, <2>3, TakenBody
  <2> QED BY <2>1, <2>2, <2>3
<1>5. ASSUME NEW d \in Digests, OtherPush(d) PROVE StoreOK'
  <2>1. /\ object[d] \in {None, d} /\ object' = [object EXCEPT ![d] = d]
        /\ available' = available \cup {d} /\ UNCHANGED <<enforces, created>>
    BY <1>5 DEF OtherPush, pushVars
  <2>2. d \in Contents
    BY <1>0, DigestsAreContents
  <2> QED BY <1>0, <2>1, <2>2 DEF StoreOK, StoredMatchesDigest, CreatedIsStored
<1> QED BY <1>2, <1>3, <1>4, <1>5 DEF SrcInv

-----------------------------------------------------------------------------
(***************************************************************************)
(* The theorems.                                                           *)
(***************************************************************************)

LEMMA SrcInitially == Init => SrcInv
<1> SUFFICES ASSUME Init PROVE SrcInv
  OBVIOUS
<1>1. PICK c \in Trees :
        node = [n \in Nodes |-> [content |-> IF n \in Paths THEN c[n] ELSE c[1], mtime |-> 0,
                             tied |-> FALSE]]
  BY DEF Init
<1>2. c \in [Paths -> Contents] /\ 1 \in Paths /\ Paths \subseteq Nodes
  BY SourceAssumption, SourceBounds, TreesAssumption DEF Paths, Nodes
<1>3. node \in [Nodes -> FileRecords] /\ \A n \in Nodes : node[n].mtime = 0
  BY <1>1, <1>2 DEF FileRecords
<1>4. DiskOK
  BY <1>2, <1>3, SourceAssumption DEF Init, DiskOK, Paths
<1>5. HashOK /\ EntriesOK
  BY DEF Init, HashOK, EntriesOK, NoStream
<1>6. StoreOK
  BY DEF Init, StoreOK, StoredMatchesDigest, CreatedIsStored
<1> QED BY <1>4, <1>5, <1>6 DEF SrcInv

LEMMA SrcStep == SrcInv /\ [Next]_srcVars => SrcInv'
<1> SUFFICES ASSUME SrcInv, [Next]_srcVars PROVE SrcInv'
  OBVIOUS
<1>1. CASE Next
  BY <1>1, WriterStep, ScanStep, PutStep, OtherStep DEF Next, PushStep, Others
<1>2. CASE UNCHANGED srcVars
  BY <1>2 DEF srcVars, diskVars, storeVars, pushVars, SrcInv, DiskOK, HashOK, EntriesOK, StoreOK,
              StoredMatchesDigest, CreatedIsStored
<1> QED BY <1>1, <1>2

\* The inductive invariant of a push from a source that changes.
THEOREM SourceInvariant == Spec => []SrcInv
BY SrcInitially, SrcStep, PTL DEF Spec

\* A store that enforces the checksum header of put never holds other bytes than
\* the digest of their key.
THEOREM StoredAlwaysMatches == Spec => []StoredMatchesDigest
<1>1. SrcInv => StoredMatchesDigest
  BY DEF SrcInv, StoreOK
<1> QED BY <1>1, SourceInvariant, PTL

\* put reports CREATED, and complete_upload attests, only the scanned bytes.
THEOREM CreatedAlwaysStored == Spec => []CreatedIsStored
<1>1. SrcInv => CreatedIsStored
  BY DEF SrcInv, StoreOK
<1> QED BY <1>1, SourceInvariant, PTL

\* scan accepts what it hashed as the entry of a file only if the file held all
\* of it at that moment, but for changes within one tick of its mtime.
THEOREM ScansAreSnapshots == Spec => EntriesAreSnapshots
<1>1. ASSUME SrcInv, Next, NEW p \in Paths, entry[p] = None, entry'[p] # None
      PROVE  LET id == entry'[p].id
             IN  /\ id = Identity(id.node)
                 /\ ~node[id.node].tied => entry'[p].content = node[id.node].content
  <2>0. DiskOK /\ HashOK /\ EntriesOK
    BY <1>1 DEF SrcInv
  <2>1. CloseFile
    BY <1>1 DEF Next, PushStep, Others, Writer, Rewrite, Replace, Change, OpenRoot, HashChunk,
                EndScan, OpenFile, Open, OpenScanned, Skip, SendChunk, EndBody, AnswerCreated,
                AnswerExists, AnswerRejected, AnswerConflict, AnswerLost, Complete, Finish, Rerun,
                Land, OtherPush, pushVars, storeVars
  <2>2. /\ pc = "hash" /\ ~(Len(stream.got) < Len(node[stream.id.node].content))
        /\ Identity(stream.id.node) = stream.id
        /\ entry' = [entry EXCEPT ![stream.path] = [content |-> stream.got, id |-> stream.id]]
    BY <1>1, <2>1 DEF CloseFile, MoreToRead, Unchanged
  <2>3. entry'[p] = [content |-> stream.got, id |-> stream.id]
    BY <1>1, <2>0, <2>2 DEF EntriesOK
  <2>4. ASSUME ~node[stream.id.node].tied
        PROVE  stream.got = node[stream.id.node].content
    <3> DEFINE c == node[stream.id.node].content
    <3>1. /\ stream.id \in FileIds /\ stream.got \in Seq(Chunks)
          /\ node[stream.id.node] \in FileRecords
          /\ Tracks(stream, node[stream.id.node])
      BY <2>0, <2>2 DEF HashOK, DiskOK, FileIds
    <3>2. stream.id.mtime = node[stream.id.node].mtime
      BY <2>2 DEF Identity
    <3>3. /\ Len(stream.got) <= Len(c)
          /\ \A i \in 1..Len(stream.got) : stream.got[i] = c[i]
      BY <2>4, <3>1, <3>2 DEF Tracks, FileRecords
    <3>4. c \in Seq(Chunks) /\ Len(c) \in Nat /\ Len(stream.got) \in Nat
      BY <3>1, ContentsAreShort DEF FileRecords
    <3>5. Len(stream.got) = Len(c)
      BY <2>2, <3>3, <3>4
    <3> HIDE DEF c
    <3> QED BY <3>1, <3>3, <3>4, <3>5, SeqEqual DEF c
  <2> QED BY <2>2, <2>3, <2>4
<1>2. SrcInv /\ [Next]_srcVars =>
        [\A p \in Paths : entry[p] = None /\ entry'[p] # None =>
           LET id == entry'[p].id
           IN /\ id = Identity(id.node)
              /\ ~node[id.node].tied => entry'[p].content = node[id.node].content]_srcVars
  BY <1>1
<1> QED BY <1>2, SourceInvariant, PTL DEF Spec, EntriesAreSnapshots
-----------------------------------------------------------------------------
(***************************************************************************)
(* What a finished push has published.                                     *)
(***************************************************************************)

Pushing == {"push", "put", "answer", "complete", "done"}

\* From the end of the scan on every file has an entry and a blob row with the
\* entry's size; what was skipped or completed is AVAILABLE, and AVAILABLE rows
\* have the size of their digest's bytes.
PublishInv ==
    /\ sizes = [d \in Contents |-> sizes[d]]
    /\ resolved \subseteq available
    /\ \A d \in available : sizes[d] = Len(d)
    /\ pc \in Pushing =>
         \A p \in Paths : entry[p] # None /\ sizes[entry[p].content] = entry[p].id.size
    /\ pc = "done" => \A p \in Paths : entry[p].content \in resolved

\* A content has one or two chunks, and no size is None.
LEMMA SizeOfContent ==
  ASSUME NEW d \in Contents
  PROVE  Len(d) \in 1..2 /\ Len(d) # None
BY ContentsAreShort, SourceNone

\* The contents and sizes of the entries.
LEMMA EntryValues ==
  ASSUME SrcInv, NEW p \in Paths, entry[p] # None
  PROVE  /\ entry[p].content \in Contents /\ entry[p].content \in Digests
         /\ entry[p].id.size \in 1..2 /\ entry[p].id.size # None
<1>1. entry[p] \in [content : Contents, id : FileIds]
  BY DEF SrcInv, EntriesOK
<1>2. entry[p].content \in Contents /\ entry[p].id.size \in 1..2
  BY <1>1 DEF FileIds
<1>3. entry[p].content \in Digests
  BY DEF Digests, Scanned
<1>4. entry[p].id.size # None
  BY <1>2, SourceNone
<1> QED BY <1>2, <1>3, <1>4

\* The steps that touch neither blob rows nor entries, nor finish the push.
LEMMA PublishStands ==
  ASSUME PublishInv, UNCHANGED <<sizes, available, entry>>, resolved' \in {resolved, {}},
         pc' \in Pushing => pc \in Pushing,
         pc' = "done" => pc = "done" /\ resolved' = resolved
  PROVE  PublishInv'
BY DEF PublishInv

\* register_version: the rows get the sizes of the entries, which agree with
\* each other and with what the rows had.
LEMMA ScanPublishes ==
  ASSUME SrcInv, PublishInv, EndScan
  PROVE  PublishInv'
<1>1. pc = "scan" /\ (\A p \in Paths : entry[p] # None)
      /\ UNCHANGED <<available, entry, resolved>>
  BY DEF EndScan, Scanned, storeVars
<1>2. CASE ~SizesAgree
  <2>1. pc' = "error" /\ sizes' = sizes
    BY <1>2 DEF EndScan
  <2> QED BY <1>1, <2>1, PublishStands DEF Pushing
<1>3. CASE SizesAgree
  <2> DEFINE Same(d) == {p \in Paths : entry[p].content = d}
  <2>1. pc' = "push" /\ sizes' = [d \in Contents |->
            IF Same(d) = {} THEN sizes[d] ELSE entry[CHOOSE p \in Same(d) : TRUE].id.size]
    BY <1>3, Zenon DEF EndScan
  <2>2. ASSUME NEW d \in Contents, NEW p \in Same(d)
        PROVE  sizes'[d] = entry[p].id.size /\ sizes[d] \in {None, entry[p].id.size}
    <3>1. PICK q \in Same(d) : sizes'[d] = entry[q].id.size
      BY <2>1
    <3>2. entry[p].content = entry[q].content /\ entry[p].content = d
      OBVIOUS
    <3> QED BY <1>3, <3>1, <3>2 DEF SizesAgree
  <2>3. \A d \in Contents : Same(d) = {} => sizes'[d] = sizes[d]
    BY <2>1
  <2>4. ASSUME NEW d \in available PROVE sizes'[d] = Len(d)
    <3>1. d \in Contents /\ sizes[d] = Len(d)
      BY DEF PublishInv, SrcInv, StoreOK
    <3>2. CASE Same(d) = {}
      BY <2>3, <3>1, <3>2
    <3>3. CASE Same(d) # {}
      BY <2>2, <3>1, <3>3, SizeOfContent
    <3> QED BY <3>2, <3>3
  <2>5. ASSUME NEW p \in Paths PROVE sizes'[entry[p].content] = entry[p].id.size
    <3>1. entry[p].content \in Contents
      BY <1>1, EntryValues
    <3>2. p \in Same(entry[p].content)
      OBVIOUS
    <3> QED BY <2>2, <3>1, <3>2
  <2>6. sizes' = [d \in Contents |-> sizes'[d]]
    BY <2>1
  <2> HIDE DEF Same
  <2> QED BY <1>1, <2>1, <2>4, <2>5, <2>6 DEF PublishInv
<1> QED BY <1>2, <1>3

\* complete_upload compares the stored object with the row's size; another push
\* completes a row only with the size of the bytes.
LEMMA RowsPublish ==
  ASSUME SrcInv, PublishInv, Complete \/ \E d \in Digests : OtherPush(d)
  PROVE  PublishInv'
<1>1. CASE Complete
  <2>1. pc = "complete" /\ pc' \in {"push", "error"} /\ UNCHANGED <<sizes, entry>>
    BY <1>1 DEF Complete
  <2>2. \/ UNCHANGED <<available, resolved>>
        \/ /\ sizes[Expected] = Len(Expected)
           /\ available' = available \cup {Expected} /\ resolved' = resolved \cup {Expected}
    BY <1>1 DEF Complete
  <2> QED BY <2>1, <2>2 DEF PublishInv, Pushing
<1>2. ASSUME NEW d \in Digests, OtherPush(d) PROVE PublishInv'
  <2>1. /\ sizes[d] \in {None, Len(d)} /\ sizes' = [sizes EXCEPT ![d] = Len(d)]
        /\ available' = available \cup {d} /\ UNCHANGED <<pc, entry, resolved>>
    BY <1>2 DEF OtherPush, pushVars
  <2>2. d \in Contents /\ \A c \in Contents : sizes'[c] = IF c = d THEN Len(d) ELSE sizes[c]
    <3>1. d \in Contents
      BY DigestsAreContents DEF SrcInv
    <3> QED BY <2>1, <3>1 DEF PublishInv
  <2>3. ASSUME NEW c \in available' PROVE sizes'[c] = Len(c)
    BY <2>1, <2>2 DEF PublishInv, SrcInv, StoreOK
  <2>4. ASSUME pc \in Pushing, NEW p \in Paths PROVE sizes'[entry[p].content] = entry[p].id.size
    <3>1. entry[p] # None /\ sizes[entry[p].content] = entry[p].id.size
      BY <2>4 DEF PublishInv
    <3>2. entry[p].content \in Contents /\ entry[p].id.size # None
      BY <3>1, EntryValues
    <3> QED BY <2>1, <2>2, <3>1, <3>2
  <2>5. sizes' = [c \in Contents |-> sizes'[c]]
    BY <2>1 DEF PublishInv
  <2> QED BY <2>1, <2>3, <2>4, <2>5 DEF PublishInv
<1> QED BY <1>1, <1>2
\* Every step keeps what has been published.
LEMMA PublishStep == SrcInv /\ PublishInv /\ [Next]_srcVars => PublishInv'
<1> SUFFICES ASSUME SrcInv, PublishInv, [Next]_srcVars PROVE PublishInv'
  OBVIOUS
<1>1. CASE \/ UNCHANGED srcVars
           \/ Writer
           \/ \E r \in late : Land(r[1], r[2])
  <2>1. UNCHANGED <<sizes, available, entry, resolved, pc>>
    BY <1>1 DEF srcVars, storeVars, pushVars, Writer, Rewrite, Replace, Change, Land
  <2> QED BY <2>1, PublishStands
<1>2. CASE \/ OpenRoot \/ HashChunk \/ SendChunk \/ EndBody
           \/ AnswerCreated \/ AnswerExists \/ AnswerRejected \/ AnswerConflict \/ AnswerLost
           \/ \E p \in Paths : OpenFile(p) \/ OpenScanned(p)
  <2>1. UNCHANGED <<sizes, available, entry, resolved>>
    BY <1>2 DEF OpenRoot, HashChunk, SendChunk, EndBody, AnswerCreated, AnswerExists,
                AnswerRejected, AnswerConflict, AnswerLost, OpenFile, OpenScanned, storeVars
  <2>2. pc' # "done" /\ (pc' \in Pushing => pc \in Pushing)
    BY <1>2 DEF OpenRoot, HashChunk, SendChunk, EndBody, AnswerCreated, AnswerExists,
                AnswerRejected, AnswerConflict, AnswerLost, OpenFile, OpenScanned, Open, Pushing
  <2> QED BY <2>1, <2>2, PublishStands
<1>3. CASE CloseFile \/ Rerun
  <2>1. UNCHANGED <<sizes, available>> /\ resolved' \in {resolved, {}} /\ pc' \notin Pushing
    BY <1>3 DEF CloseFile, Rerun, storeVars, Pushing
  <2> QED BY <2>1 DEF PublishInv, Pushing
<1>4. CASE EndScan
  BY <1>4, ScanPublishes
<1>5. CASE Complete \/ \E d \in Digests : OtherPush(d)
  BY <1>5, RowsPublish
<1>6. ASSUME NEW d \in Digests, Skip(d) PROVE PublishInv'
  <2>1. /\ pc = "push" /\ d \in available /\ resolved' = resolved \cup {d}
        /\ UNCHANGED <<sizes, available, entry, pc>>
    BY <1>6 DEF Skip, storeVars
  <2> QED BY <2>1 DEF PublishInv
<1>7. CASE Finish
  <2>1. /\ pc = "push" /\ pc' = "done" /\ Digests = resolved
        /\ UNCHANGED <<sizes, available, entry, resolved>>
    BY <1>7 DEF Finish, storeVars
  <2>2. \A p \in Paths : entry[p] # None
    BY <2>1 DEF PublishInv, Pushing
  <2>3. \A p \in Paths : entry[p].content \in resolved
    BY <2>1, <2>2, EntryValues
  <2> QED BY <2>1, <2>2, <2>3 DEF PublishInv, Pushing
<1> QED BY <1>1, <1>2, <1>3, <1>4, <1>5, <1>6, <1>7 DEF Next, PushStep, Others

\* A push that reports success has published the bytes it scanned under their
\* digest and their size: what register_version, put and complete_upload each
\* compare is enough, whatever the source did meanwhile.
THEOREM FinishedPushesArePublished == Spec => []DoneIsPublished
<1>1. Init => PublishInv
  BY DEF Init, PublishInv, Pushing
<1>2. SrcInv /\ PublishInv => DoneIsPublished
  <2> SUFFICES ASSUME SrcInv, PublishInv, pc = "done", NEW p \in Paths
               PROVE  /\ entry[p] # None
                      /\ entry[p].content \in available
                      /\ object[entry[p].content] = entry[p].content
                      /\ sizes[entry[p].content] = Len(entry[p].content)
                      /\ entry[p].id.size = Len(entry[p].content)
    BY DEF DoneIsPublished
  <2>1. /\ entry[p] # None /\ sizes[entry[p].content] = entry[p].id.size
        /\ entry[p].content \in resolved
    BY DEF PublishInv, Pushing
  <2>2. entry[p].content \in available
    BY <2>1 DEF PublishInv
  <2>3. object[entry[p].content] = entry[p].content
    BY <2>2 DEF SrcInv, StoreOK, CreatedIsStored
  <2> QED BY <2>1, <2>2, <2>3 DEF PublishInv
<1>3. SrcInv /\ PublishInv /\ [Next]_srcVars => PublishInv'
  BY PublishStep
<1> QED BY <1>1, <1>2, <1>3, SourceInvariant, PTL DEF Spec
=============================================================================
