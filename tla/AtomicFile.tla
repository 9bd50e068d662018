----------------------------- MODULE AtomicFile -----------------------------
(***************************************************************************)
(* write_json_atomic of output.rs, system call by system call: create (or  *)
(* truncate) the sibling temporary file, write it in pieces, fsync it, and *)
(* rename it over the final name.  Writers of one path share one temporary *)
(* name.  Names refer to inodes; an open file keeps its inode whatever     *)
(* happens to the name.  A process can be killed and the node can crash    *)
(* between any two calls; any call can fail.                               *)
(*                                                                         *)
(* OldText, AllButLast and NoSync are used by no action: they are the slips*)
(* (no truncation, no flush, no fsync) that the properties must notice.    *)
(***************************************************************************)
EXTENDS Naturals

CONSTANTS
  Writers,       \* processes that write this path
  Chunks,        \* the most pieces a document is written in
  Inodes,        \* enough inodes for both names and every open file
  NoInode,       \* a name that does not exist
  MaxDocuments   \* bound: documents written in a behaviour

ASSUME ChunksAssumption == Chunks \in Nat \ {0}
ASSUME InodeAssumption == NoInode \notin Inodes
ASSUME DocumentsAssumption == MaxDocuments \in Nat

VARIABLES
  pc,        \* where each writer is in write_json_atomic
  doc,       \* the document it is writing
  fd,        \* the inode it has open
  pos,       \* the next piece it writes
  tmp,       \* the inode under the temporary name
  final,     \* the inode under the final name
  content,   \* the pieces of each inode; 0 is a hole or past the end
  durable,   \* the pieces that survive a crash of the node
  written,   \* documents whose writing has begun
  size       \* pieces of each document; never changes

vars == <<pc, doc, fd, pos, tmp, final, content, durable, written, size>>

Documents == 1..MaxDocuments
Pieces    == 1..Chunks
Empty     == [p \in Pieces |-> 0]

Init ==
  /\ pc = [w \in Writers |-> "idle"]
  /\ doc = [w \in Writers |-> 0]
  /\ fd = [w \in Writers |-> NoInode]
  /\ pos = [w \in Writers |-> 1]
  /\ tmp = NoInode /\ final = NoInode
  /\ content = [i \in Inodes |-> Empty]
  /\ durable = [i \in Inodes |-> Empty]
  /\ written = 0
  /\ size \in [Documents -> Pieces]

(* An inode no name and no open file refers to.                            *)
Free(i) == i # tmp /\ i # final /\ \A w \in Writers : fd[w] # i

(* File::create: the existing temporary file is truncated, not replaced.   *)
OldText(i) == content[i]
Truncated(i) == Empty

CreateAs(w, i) ==
  /\ pc[w] = "idle" /\ written < MaxDocuments
  /\ IF tmp = NoInode THEN Free(i) ELSE i = tmp
  /\ tmp' = i
  /\ fd' = [fd EXCEPT ![w] = i]
  /\ content' = [content EXCEPT ![i] = Truncated(i)]
  /\ durable' = [durable EXCEPT ![i] = Empty]
  /\ written' = written + 1
  /\ doc' = [doc EXCEPT ![w] = written + 1]
  /\ pos' = [pos EXCEPT ![w] = 1]
  /\ pc' = [pc EXCEPT ![w] = "writing"]
  /\ UNCHANGED <<final, size>>

Create(w) == \E i \in Inodes : CreateAs(w, i)

(* to_writer_pretty, write_all and flush: pieces at this file's own offset.*)
AllButLast(w) == pos[w] >= size[doc[w]]
AllWritten(w) == pos[w] > size[doc[w]]

WritePiece(w) ==
  /\ pc[w] = "writing" /\ ~AllWritten(w)
  /\ content' = [content EXCEPT ![fd[w]][pos[w]] = doc[w]]
  /\ pos' = [pos EXCEPT ![w] = @ + 1]
  /\ UNCHANGED <<pc, doc, fd, tmp, final, durable, written, size>>

(* sync_all, then the file is closed; the mode is relaxed and ignored here.*)
NoSync(w) == UNCHANGED durable
ToDisk(w) == durable' = [durable EXCEPT ![fd[w]] = content[fd[w]]]

Sync(w) ==
  /\ pc[w] = "writing" /\ AllWritten(w)
  /\ ToDisk(w)
  /\ fd' = [fd EXCEPT ![w] = NoInode]
  /\ pc' = [pc EXCEPT ![w] = "synced"]
  /\ UNCHANGED <<doc, pos, tmp, final, content, written, size>>

(* rename: whatever is under the temporary name by now; ENOENT if nothing. *)
Rename(w) ==
  /\ pc[w] = "synced"
  /\ IF tmp = NoInode THEN UNCHANGED <<tmp, final>>
     ELSE final' = tmp /\ tmp' = NoInode
  /\ pc' = [pc EXCEPT ![w] = "idle"]
  /\ UNCHANGED <<doc, fd, pos, content, durable, written, size>>

(* Any call fails: the error is returned and the temporary file stays.     *)
CallFails(w) ==
  /\ pc[w] \in {"writing", "synced"}
  /\ pc' = [pc EXCEPT ![w] = "idle"]
  /\ fd' = [fd EXCEPT ![w] = NoInode]
  /\ UNCHANGED <<doc, pos, tmp, final, content, durable, written, size>>

(* SIGKILL, or exit(130) from the handler thread.                          *)
Killed(w) ==
  /\ pc[w] # "dead"
  /\ pc' = [pc EXCEPT ![w] = "dead"]
  /\ fd' = [fd EXCEPT ![w] = NoInode]
  /\ UNCHANGED <<doc, pos, tmp, final, content, durable, written, size>>

(* The node goes down with every writer: an inode keeps what was synced,   *)
(* and of the rest what happened to reach the servers.                     *)
NodeCrash ==
  /\ \E w \in Writers : pc[w] # "dead"
  /\ pc' = [w \in Writers |-> "dead"]
  /\ fd' = [w \in Writers |-> NoInode]
  /\ \E kept \in SUBSET Inodes :
       content' = [i \in Inodes |-> IF i \in kept THEN content[i] ELSE durable[i]]
  /\ UNCHANGED <<doc, pos, tmp, final, durable, written, size>>

(* A later process writes the same path: the next measured region of the   *)
(* script, or a merge tried again.                                         *)
Relaunched(w) ==
  /\ pc[w] = "dead"
  /\ pc' = [pc EXCEPT ![w] = "idle"]
  /\ UNCHANGED <<doc, fd, pos, tmp, final, content, durable, written, size>>

NothingLeft ==
  /\ written = MaxDocuments
  /\ \A w \in Writers : pc[w] = "idle"
  /\ UNCHANGED vars

Next ==
  \/ \E w \in Writers : \/ Create(w) \/ WritePiece(w) \/ Sync(w) \/ Rename(w)
                        \/ CallFails(w) \/ Killed(w) \/ Relaunched(w)
  \/ NodeCrash \/ NothingLeft

Spec == Init /\ [][Next]_vars
-----------------------------------------------------------------------------
TypeOK ==
  /\ pc \in [Writers -> {"idle", "writing", "synced", "dead"}]
  /\ doc \in [Writers -> 0..MaxDocuments]
  /\ fd \in [Writers -> Inodes \union {NoInode}]
  /\ pos \in [Writers -> 1..(Chunks + 1)]
  /\ tmp \in Inodes \union {NoInode}
  /\ final \in Inodes \union {NoInode}
  /\ content \in [Inodes -> [Pieces -> 0..MaxDocuments]]
  /\ durable \in [Inodes -> [Pieces -> 0..MaxDocuments]]
  /\ written \in 0..MaxDocuments
  /\ size \in [Documents -> Pieces]

(* The text of document d, and its first n pieces.                         *)
FirstPieces(d, n) == [p \in Pieces |-> IF p <= n THEN d ELSE 0]
Text(d) == FirstPieces(d, size[d])

(* write_json_atomic: "a dashboard polling this directory never observes a *)
(* half-written file under the final name", nor a mixture of two documents.*)
NeverHalfWritten ==
  final # NoInode => \E d \in Documents : content[final] = Text(d)

(* "The fsync matters on Lustre": what is visible is on disk, so a crash   *)
(* at any instant leaves the same whole document behind.                   *)
VisibleIsDurable == final # NoInode => durable[final] = content[final]

(* Readers see whole documents, and only newer ones: a text that is not    *)
(* one whole document counts as none of them.                              *)
Visible == IF final = NoInode THEN 0 ELSE content[final][1]
Shown == IF NeverHalfWritten THEN Visible ELSE MaxDocuments + 1
Reader == INSTANCE PublishedDocument WITH visible <- Shown
OnlyNewer == Reader!Spec

(* The inductive invariant behind them: a writer's open file is the   *)
(* temporary one and holds the pieces written so far; a synced temporary   *)
(* file is whole, durable and newer than what is visible.                  *)
Writing(w) ==
  pc[w] = "writing" =>
    /\ doc[w] \in Documents /\ doc[w] > Visible
    /\ tmp # NoInode /\ fd[w] = tmp
    /\ pos[w] <= size[doc[w]] + 1
    /\ content[tmp] = FirstPieces(doc[w], pos[w] - 1)

Synced(w) ==
  pc[w] = "synced" =>
    /\ doc[w] \in Documents /\ doc[w] > Visible
    /\ tmp # NoInode
    /\ content[tmp] = Text(doc[w])
    /\ durable[tmp] = content[tmp]

Numbered == Visible <= written /\ \A w \in Writers : doc[w] <= written

Inductive ==
  /\ TypeOK /\ Numbered
  /\ NeverHalfWritten /\ VisibleIsDurable
  /\ tmp # NoInode => tmp # final
  /\ \A w \in Writers : /\ Writing(w) /\ Synced(w)
                        /\ pc[w] # "writing" => fd[w] = NoInode
=============================================================================
