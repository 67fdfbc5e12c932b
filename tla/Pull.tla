-------------------------------- MODULE Pull --------------------------------
(***************************************************************************)
(* `robolake pull`: PullWorkflow over AtomicTreeDownloader.  Each run      *)
(* stages a private tree beside the output, downloads one manifest ordinal *)
(* at a time through a fresh capability, and renames the complete tree     *)
(* onto the output without replacing anything.  Pulls run concurrently, to *)
(* the same output or to others, next to programs that create and remove   *)
(* outputs; they are interrupted (abort runs, and may itself be cut short) *)
(* or killed (it does not run).                                            *)
(***************************************************************************)
EXTENDS Integers

CONSTANTS
    Pulls,      \* pull commands, rerun by their user
    Versions,   \* dataset versions
    Outputs,    \* output paths
    VersionOf,  \* [Pulls -> Versions]
    OutputOf,   \* [Pulls -> Outputs]
    FileCount,  \* [Versions -> Nat]
    Foreign,    \* an output made by another program
    None

ASSUME PullAssumption ==
    /\ VersionOf \in [Pulls -> Versions]
    /\ OutputOf \in [Pulls -> Outputs]
    /\ FileCount \in [Versions -> Nat]

\* None is neither a cursor nor a staged tree.
ASSUME NoneAssumption ==
    /\ None \notin [version : Versions, ordinal : Nat]
    /\ \A v \in Versions : \A S \in SUBSET (0..(FileCount[v] - 1)) : None # [i \in S |-> "good"]

VARIABLES
    ready,    \* versions that are READY
    output,   \* what is at each output path
    pc,       \* where each pull is
    ordinal,  \* enumerate(manifest.entries) of each pull
    cursor,   \* the cursor of its next plan request
    item,     \* the manifest ordinal its capability is for
    part,     \* its .part file
    tree,     \* its staging directory: contents by placed ordinal
    cut       \* observer: this run was kept from cleaning up

vars == <<ready, output, pc, ordinal, cursor, item, part, tree, cut>>
stagingVars == <<ordinal, cursor, item, part, tree>>

-----------------------------------------------------------------------------
Count(p) == FileCount[VersionOf[p]]
Ordinals(v) == 0..(FileCount[v] - 1)
Complete(v) == [n \in Ordinals(v) |-> "good"]
Published(v, files) == [version |-> v, files |-> files]
EmptyTree == [n \in {} |-> "good"]

Goto(p, l) == pc' = [pc EXCEPT ![p] = l]

Init ==
    /\ ready = {}
    /\ output = [o \in Outputs |-> None]
    /\ pc = [p \in Pulls |-> "idle"]
    /\ ordinal = [p \in Pulls |-> 0]
    /\ cursor = [p \in Pulls |-> None]
    /\ item = [p \in Pulls |-> None]
    /\ part = [p \in Pulls |-> None]
    /\ tree = [p \in Pulls |-> None]
    /\ cut = [p \in Pulls |-> FALSE]

\* finalize_version: READY is permanent.
Publish(v) ==
    /\ ready' = ready \cup {v}
    /\ UNCHANGED <<output, pc, stagingVars, cut>>

-----------------------------------------------------------------------------
(***************************************************************************)
(* PullWorkflow.run.  An exception anywhere goes to abort.                 *)
(***************************************************************************)

\* A run of its own: it never looks at what an earlier one left, its staging
\* directory has a new name.
Resolve(p) ==
    /\ pc[p] \in {"idle", "done", "error"}
    /\ Goto(p, IF VersionOf[p] \in ready THEN "begin" ELSE "error")
    /\ tree' = [tree EXCEPT ![p] = None]
    /\ part' = [part EXCEPT ![p] = None]
    /\ cut' = [cut EXCEPT ![p] = FALSE]
    /\ UNCHANGED <<ready, output, ordinal, cursor, item>>

\* begin checks the output and makes the directory ...
MakeStaging(p) ==
    /\ pc[p] = "begin"
    /\ \/ /\ output[OutputOf[p]] = None
          /\ tree' = [tree EXCEPT ![p] = EmptyTree]
          /\ Goto(p, "made")
       \/ /\ output[OutputOf[p]] # None
          /\ Goto(p, "abort")
          /\ UNCHANGED tree
    /\ UNCHANGED <<ready, output, ordinal, cursor, item, part, cut>>

\* ... and then writes down what abort needs to remove it.
RecordStaging(p) ==
    /\ pc[p] = "made"
    /\ ordinal' = [ordinal EXCEPT ![p] = 0]
    /\ cursor' = [cursor EXCEPT ![p] = None]
    /\ Goto(p, "entry")
    /\ UNCHANGED <<ready, output, item, part, tree, cut>>

\* tree.prepare: an exclusive, empty part file.
PrepareEntry(p) ==
    /\ pc[p] = "entry"
    /\ ordinal[p] < Count(p)
    /\ part' = [part EXCEPT ![p] = "empty"]
    /\ Goto(p, "plan")
    /\ UNCHANGED <<ready, output, ordinal, cursor, item, tree, cut>>

\* decode_cursor, None when it raises InvalidCursorError.
Decoded(c, v) ==
    CASE c = None -> IF FileCount[v] = 0 THEN None ELSE 0
      [] OTHER -> IF c.version = v /\ c.ordinal < FileCount[v] THEN c.ordinal ELSE None

\* A cursor for the ordinal the plan is about, instead of the next one.
NextCursorSame(v, n) ==
    IF n + 1 < FileCount[v] THEN [version |-> v, ordinal |-> n] ELSE None

NextCursor(v, n) ==
    IF n + 1 < FileCount[v] THEN [version |-> v, ordinal |-> n + 1] ELSE None

\* download_plan and the checks of its answer.
PlanEntry(p) ==
    /\ pc[p] = "plan"
    /\ LET v == VersionOf[p]
           n == Decoded(cursor[p], v)
           next == NextCursor(v, n)
           accepted == /\ v \in ready
                       /\ n = ordinal[p]
                       /\ (next = None) <=> (n + 1 = FileCount[v])
       IN  \/ /\ accepted
              /\ item' = [item EXCEPT ![p] = n]
              /\ cursor' = [cursor EXCEPT ![p] = next]
              /\ Goto(p, "get")
           \/ /\ ~accepted
              /\ Goto(p, "abort")
              /\ UNCHANGED <<item, cursor>>
    /\ UNCHANGED <<ready, output, ordinal, part, tree, cut>>

\* A GET whose end is taken for the end of the object.
StreamTruncated(p, bytes) ==
    /\ pc[p] = "get"
    /\ part' = [part EXCEPT ![p] = "truncated"]
    /\ Goto(p, "place")
    /\ UNCHANGED <<ready, output, ordinal, cursor, item, tree, cut>>

\* The GET streams into the part file: the object's bytes, or others.
Stream(p, bytes) ==
    /\ pc[p] = "get"
    /\ part' = [part EXCEPT ![p] = bytes]
    /\ Goto(p, "place")
    /\ UNCHANGED <<ready, output, ordinal, cursor, item, tree, cut>>

\* A downloader that checks nothing it has streamed.
PlaceUnverified(p) ==
    /\ pc[p] = "place"
    /\ tree' = [tree EXCEPT ![p] =
                  [n \in DOMAIN @ \cup {item[p]} |-> IF n = item[p] THEN part[p] ELSE @[n]]]
    /\ part' = [part EXCEPT ![p] = None]
    /\ ordinal' = [ordinal EXCEPT ![p] = @ + 1]
    /\ Goto(p, "entry")
    /\ UNCHANGED <<ready, output, cursor, item, cut>>

\* Verified bytes are renamed into place, others are unlinked.
Place(p) ==
    /\ pc[p] = "place"
    /\ \/ /\ part[p] = "good"
          /\ tree' = [tree EXCEPT ![p] =
                        [n \in DOMAIN @ \cup {item[p]} |-> IF n = item[p] THEN part[p] ELSE @[n]]]
          /\ ordinal' = [ordinal EXCEPT ![p] = @ + 1]
          /\ Goto(p, "entry")
       \/ /\ part[p] # "good"
          /\ Goto(p, "abort")
          /\ UNCHANGED <<tree, ordinal>>
    /\ part' = [part EXCEPT ![p] = None]
    /\ UNCHANGED <<ready, output, cursor, item, cut>>

\* A commit that trusts the check begin made.
CommitReplacing(p) ==
    /\ pc[p] = "entry"
    /\ ordinal[p] = Count(p)
    /\ output' = [output EXCEPT ![OutputOf[p]] = Published(VersionOf[p], tree[p])]
    /\ tree' = [tree EXCEPT ![p] = None]
    /\ Goto(p, "return")
    /\ UNCHANGED <<ready, ordinal, cursor, item, part, cut>>

\* A commit that takes an output that is there for its own.
CommitIdempotent(p) ==
    /\ pc[p] = "entry"
    /\ ordinal[p] = Count(p)
    /\ output' = [output EXCEPT ![OutputOf[p]] =
                    IF @ = None THEN Published(VersionOf[p], tree[p]) ELSE @]
    /\ tree' = [tree EXCEPT ![p] = None]
    /\ Goto(p, "return")
    /\ UNCHANGED <<ready, ordinal, cursor, item, part, cut>>

\* commit: renameat2(RENAME_NOREPLACE) of a complete tree.
Commit(p) ==
    /\ pc[p] = "entry"
    /\ ordinal[p] = Count(p)
    /\ \/ /\ DOMAIN tree[p] = Ordinals(VersionOf[p])
          /\ output[OutputOf[p]] = None
          /\ output' = [output EXCEPT ![OutputOf[p]] = Published(VersionOf[p], tree[p])]
          /\ tree' = [tree EXCEPT ![p] = None]
          /\ Goto(p, "return")
       \/ /\ DOMAIN tree[p] # Ordinals(VersionOf[p]) \/ output[OutputOf[p]] # None
          /\ Goto(p, "abort")
          /\ UNCHANGED <<output, tree>>
    /\ UNCHANGED <<ready, ordinal, cursor, item, part, cut>>

Return(p) ==
    /\ pc[p] = "return"
    /\ Goto(p, "done")
    /\ UNCHANGED <<ready, output, stagingVars, cut>>

\* An abort that only unlinks the part files it knows of.
AbortKeepingStaging(p) ==
    /\ pc[p] = "abort"
    /\ part' = [part EXCEPT ![p] = None]
    /\ Goto(p, "error")
    /\ UNCHANGED <<ready, output, ordinal, cursor, item, tree, cut>>

\* abort: the staging directory and all it holds, if it is still there.
Abort(p) ==
    /\ pc[p] = "abort"
    /\ part' = [part EXCEPT ![p] = None]
    /\ tree' = [tree EXCEPT ![p] = None]
    /\ Goto(p, "error")
    /\ UNCHANGED <<ready, output, ordinal, cursor, item, cut>>

\* abort refuses the path, cannot remove an entry, is interrupted or killed: any
\* part of what it was to remove stays.
AbortCut(p) ==
    /\ pc[p] = "abort"
    /\ tree[p] # None
    /\ \E S \in SUBSET DOMAIN tree[p] : tree' = [tree EXCEPT ![p] = [n \in S |-> @[n]]]
    /\ \E f \in {None, part[p]} : part' = [part EXCEPT ![p] = f]
    /\ cut' = [cut EXCEPT ![p] = TRUE]
    /\ Goto(p, "error")
    /\ UNCHANGED <<ready, output, ordinal, cursor, item>>

-----------------------------------------------------------------------------
Working == {"begin", "made", "entry", "plan", "get", "place", "return"}

\* KeyboardInterrupt, a failing GET, a refused request: abort runs.
Interrupt(p) ==
    /\ pc[p] \in Working \ {"made"}
    /\ Goto(p, "abort")
    /\ UNCHANGED <<ready, output, stagingVars, cut>>

\* The same before the directory is recorded: abort has nothing to remove.
InterruptUnrecorded(p) ==
    /\ pc[p] = "made"
    /\ cut' = [cut EXCEPT ![p] = TRUE]
    /\ Goto(p, "error")
    /\ UNCHANGED <<ready, output, stagingVars>>

\* The process is gone, its staging directory stays.
Kill(p) ==
    /\ pc[p] \in Working
    /\ cut' = [cut EXCEPT ![p] = TRUE]
    /\ Goto(p, "error")
    /\ UNCHANGED <<ready, output, stagingVars>>

\* Other programs create and remove outputs.
Occupy(o) ==
    /\ output[o] = None
    /\ output' = [output EXCEPT ![o] = Foreign]
    /\ UNCHANGED <<ready, pc, stagingVars, cut>>

Remove(o) ==
    /\ output[o] # None
    /\ output' = [output EXCEPT ![o] = None]
    /\ UNCHANGED <<ready, pc, stagingVars, cut>>

PullStep(p) ==
    \/ Resolve(p) \/ MakeStaging(p) \/ RecordStaging(p) \/ PrepareEntry(p) \/ PlanEntry(p)
    \/ \E bytes \in {"good", "bad"} : Stream(p, bytes)
    \/ Place(p) \/ Commit(p) \/ Return(p) \/ Abort(p)

Cutoff(p) == AbortCut(p) \/ Interrupt(p) \/ InterruptUnrecorded(p) \/ Kill(p)

Next ==
    \/ \E v \in Versions : Publish(v)
    \/ \E p \in Pulls : PullStep(p) \/ Cutoff(p)
    \/ \E o \in Outputs : Occupy(o) \/ Remove(o)

Spec == Init /\ [][Next]_vars

-----------------------------------------------------------------------------
(***************************************************************************)
(* Properties.                                                             *)
(***************************************************************************)

\* Type correctness of pulls, staging directories and outputs.
PullTypeOK ==
    /\ ready \subseteq Versions
    /\ \A o \in Outputs : output[o] \in {None, Foreign} \/ output[o].version \in Versions
    /\ pc \in [Pulls -> Working \cup {"idle", "abort", "done", "error"}]
    /\ ordinal \in [Pulls -> Nat]
    /\ \A p \in Pulls :
         /\ cursor[p] = None \/ cursor[p] \in [version : Versions, ordinal : Nat]
         /\ item[p] = None \/ item[p] \in Ordinals(VersionOf[p])
         /\ part[p] \in {None, "empty", "good", "bad"}
         /\ tree[p] # None => DOMAIN tree[p] \subseteq Ordinals(VersionOf[p])
    /\ cut \in [Pulls -> BOOLEAN]

\* What appears at an output path is the whole of a READY version with verified
\* bytes, never a part of one, wherever pulls are interrupted or killed.
OutputsAreComplete ==
    \A o \in Outputs : output[o] \notin {None, Foreign} =>
      /\ output[o].version \in ready
      /\ output[o].files = Complete(output[o].version)

\* No pull replaces what is at its output, even if it appeared after the check
\* that begin makes: an occupied path changes only by being removed.
NothingIsReplaced ==
    [][\A o \in Outputs : output[o] # None => output'[o] \in {output[o], None}]_vars

\* A pull reports success only for a tree it put in place itself: of two pulls
\* to one output, the one that comes second fails.
SuccessIsEarned ==
    [][\A p \in Pulls : pc[p] # "return" /\ pc'[p] = "return" =>
         /\ output[OutputOf[p]] = None
         /\ output'[OutputOf[p]] = Published(VersionOf[p], Complete(VersionOf[p]))]_vars

\* Staging lives no longer than its pull: a run that has ended, in success, by an
\* interrupt, a refused answer or a lost race for the output, holds no staging
\* directory and no part file, unless it was killed, was hit before begin had
\* recorded the directory, or was hit again in its abort.
StagingIsAccounted ==
    \A p \in Pulls :
      /\ tree[p] # None => cut[p] \/ pc[p] \in {"made", "entry", "plan", "get", "place", "abort"}
      /\ part[p] # None => tree[p] # None

\* Cursors issued by the service lead a pull through its manifest: every plan
\* request is answered for the entry the loop is at, and the loop's position
\* is the number of files it has placed.
PlansFollowTheManifest ==
    \A p \in Pulls :
      /\ pc[p] = "plan" => Decoded(cursor[p], VersionOf[p]) = ordinal[p]
      /\ pc[p] \in {"get", "place"} => item[p] = ordinal[p]
      /\ pc[p] \in {"entry", "plan", "get", "place"} => DOMAIN tree[p] = 0..(ordinal[p] - 1)
=============================================================================
