-------------------------- MODULE AtomicFile_proofs --------------------------
(***************************************************************************)
(* With one writer per path, for any number and length of documents, any   *)
(* failures and any crashes: the file under the final name is always a     *)
(* whole document on disk, and readers see documents that only get newer.  *)
(***************************************************************************)
EXTENDS AtomicFile, TLAPS

ASSUME OneWriter == \A v, w \in Writers : v = w

USE InodeAssumption, DocumentsAssumption

(* The ranges behind the names, stated once: the provers do better when    *)
(* they need not look into the intervals at every step.                    *)
LEMMA Ranges ==
  /\ Documents \subseteq 0..MaxDocuments /\ Documents \subseteq Nat \ {0}
  /\ \A n \in 0..MaxDocuments : n < MaxDocuments => n + 1 \in Documents
  /\ 1 \in Pieces /\ \A p \in Pieces : p \in Nat /\ 1 <= p
  /\ \A p \in 1..(Chunks + 1) : p \in Nat
  /\ 1 \in 1..(Chunks + 1)
  /\ \A p \in Pieces : p + 1 \in 1..(Chunks + 1)
  /\ \A p \in 1..(Chunks + 1), q \in Pieces : p <= q => p \in Pieces
BY ChunksAssumption DEF Documents, Pieces

(* Initially there is nothing to see and nobody writes.                    *)
LEMMA InitInductive == Init => Inductive
BY Ranges DEF Init, Inductive, TypeOK, NeverHalfWritten, VisibleIsDurable, Visible,
       Writing, Synced, Empty, Numbered

(* What stays true of the visible document when its inode, its text and    *)
(* what is on disk of it are left alone.                                   *)
LEMMA VisibleUntouched ==
  ASSUME NeverHalfWritten, VisibleIsDurable, size' = size, final' = final,
         final # NoInode => /\ content'[final] = content[final]
                            /\ durable'[final] = durable[final]
  PROVE  (NeverHalfWritten /\ VisibleIsDurable)' /\ Visible' = Visible
BY DEF NeverHalfWritten, VisibleIsDurable, Visible, Text, FirstPieces

(* A document is seen by its first piece.                                  *)
LEMMA SeenByFirstPiece ==
  ASSUME TypeOK, NEW d \in Documents
  PROVE  Text(d)[1] = d /\ Text(d) \in [Pieces -> 0..MaxDocuments]
<1>1. size[d] \in Pieces /\ d \in 0..MaxDocuments /\ 0 \in 0..MaxDocuments
  <2>1. size[d] \in Pieces
    BY DEF TypeOK
  <2>2. QED
    BY <2>1, Ranges
<1>2. 1 \in Pieces /\ 1 <= size[d]
  BY <1>1, Ranges
<1>3. QED
  BY <1>1, <1>2 DEF Text, FirstPieces

LEMMA VisibleNat == ASSUME TypeOK PROVE Visible \in Nat
BY Ranges DEF TypeOK, Visible

(* File::create begins a document in an inode nobody can see.              *)
LEMMA CreateInductive ==
  ASSUME Inductive, NEW w \in Writers, Create(w) PROVE Inductive'
<1>1. PICK i \in Inodes : CreateAs(w, i)
  BY DEF Create
<1>2. i # final /\ i # NoInode
  BY <1>1 DEF CreateAs, Free, Inductive
<1>3. /\ written' = written + 1 /\ written + 1 \in Documents
      /\ written \in Nat /\ Visible <= written
      /\ Visible \in Nat
  BY <1>1, Ranges, VisibleNat DEF CreateAs, Inductive, TypeOK, Numbered
<1>4. Empty \in [Pieces -> 0..MaxDocuments]
  BY DEF Empty
<1>5. /\ content' = [content EXCEPT ![i] = Empty]
      /\ durable' = [durable EXCEPT ![i] = Empty]
      /\ content' \in [Inodes -> [Pieces -> 0..MaxDocuments]]
      /\ durable' \in [Inodes -> [Pieces -> 0..MaxDocuments]]
  BY <1>1, <1>4 DEF CreateAs, Truncated, Inductive, TypeOK
<1>6. content'[i] = Empty /\ final' = final /\ size' = size
  BY <1>1, <1>5 DEF CreateAs, Inductive, TypeOK
<1>7. (NeverHalfWritten /\ VisibleIsDurable)' /\ Visible' = Visible
  <2>1. final # NoInode => /\ content'[final] = content[final]
                           /\ durable'[final] = durable[final]
    BY <1>2, <1>5 DEF Inductive, TypeOK
  <2>2. QED
    BY <1>6, <2>1, VisibleUntouched DEF Inductive
<1>8. TypeOK'
  BY <1>1, <1>3, <1>5, Ranges DEF CreateAs, Inductive, TypeOK
<1>9. /\ pc'[w] = "writing" /\ doc'[w] = written + 1 /\ pos'[w] = 1
      /\ fd'[w] = i /\ tmp' = i
  BY <1>1 DEF CreateAs, Inductive, TypeOK
<1>10. Empty = FirstPieces(written + 1, 0)
  <2>1. \A p \in Pieces : ~(p <= 0)
    BY Ranges
  <2>2. QED
    BY <2>1 DEF Empty, FirstPieces
<1>11. 1 <= size'[written + 1] + 1 /\ 1 - 1 = 0
  <2>1. size'[written + 1] \in Pieces
    BY <1>3, <1>6 DEF Inductive, TypeOK
  <2>2. QED
    BY <2>1, Ranges
<1>12. Writing(w)'
  BY <1>2, <1>3, <1>6, <1>7, <1>9, <1>10, <1>11 DEF Writing
<1>13. \A v \in Writers : (/\ Writing(v) /\ Synced(v)
                           /\ pc[v] # "writing" => fd[v] = NoInode)'
  BY <1>9, <1>12, OneWriter DEF Synced
<1>14. Numbered'
  <2>1. \A v \in Writers : v = w
    BY OneWriter
  <2>2. QED
    BY <1>3, <1>7, <1>9, <2>1 DEF Numbered
<1>15. QED
  BY <1>2, <1>6, <1>7, <1>8, <1>9, <1>13, <1>14 DEF Inductive

(* A piece goes to the temporary inode, right after the previous one.      *)
LEMMA WriteInductive ==
  ASSUME Inductive, NEW w \in Writers, WritePiece(w) PROVE Inductive'
<1>1. /\ doc[w] \in Documents /\ doc[w] > Visible
      /\ tmp # NoInode /\ fd[w] = tmp /\ tmp # final
      /\ content[tmp] = FirstPieces(doc[w], pos[w] - 1)
      /\ pc[w] = "writing" /\ tmp \in Inodes
  BY DEF WritePiece, Writing, Inductive, TypeOK
<1>2. /\ pos[w] \in 1..(Chunks + 1) /\ size[doc[w]] \in Pieces
      /\ size[doc[w]] \in Nat /\ pos[w] \in Nat
  <2>1. pos[w] \in 1..(Chunks + 1) /\ size[doc[w]] \in Pieces
    BY <1>1 DEF Inductive, TypeOK
  <2>2. QED
    BY <2>1, Ranges
<1>3. pos[w] <= size[doc[w]]
  BY <1>2 DEF WritePiece, AllWritten
<1>4. pos[w] \in Pieces /\ pos[w] + 1 \in 1..(Chunks + 1)
  BY <1>2, <1>3, Ranges
<1>5. /\ content' = [content EXCEPT ![tmp][pos[w]] = doc[w]]
      /\ pos' = [pos EXCEPT ![w] = @ + 1]
      /\ UNCHANGED <<pc, doc, fd, tmp, final, durable, written, size>>
  BY <1>1 DEF WritePiece
<1>6. content' \in [Inodes -> [Pieces -> 0..MaxDocuments]]
  BY <1>1, <1>4, <1>5, Ranges DEF Inductive, TypeOK
<1>7. content'[tmp] = FirstPieces(doc[w], pos[w])
  <2>1. content'[tmp] = [content[tmp] EXCEPT ![pos[w]] = doc[w]]
    BY <1>1, <1>5 DEF Inductive, TypeOK
  <2>2. \A p \in Pieces :
          p \in Nat /\ (p <= pos[w] <=> (p = pos[w] \/ p <= pos[w] - 1))
    BY <1>2, Ranges
  <2>3. QED
    BY <1>1, <1>4, <2>1, <2>2 DEF FirstPieces
<1>8. (NeverHalfWritten /\ VisibleIsDurable)' /\ Visible' = Visible
  <2>1. final # NoInode => /\ content'[final] = content[final]
                           /\ durable'[final] = durable[final]
    BY <1>1, <1>5 DEF Inductive, TypeOK
  <2>2. QED
    BY <1>5, <2>1, VisibleUntouched DEF Inductive
<1>9. TypeOK'
  <2>1. pos' \in [Writers -> 1..(Chunks + 1)]
    BY <1>4, <1>5 DEF Inductive, TypeOK
  <2>2. QED
    BY <1>5, <1>6, <2>1 DEF Inductive, TypeOK
<1>10. pos'[w] = pos[w] + 1 /\ pos'[w] - 1 = pos[w]
       /\ pos'[w] <= size[doc[w]] + 1
  <2>1. pos'[w] = pos[w] + 1
    BY <1>5 DEF Inductive, TypeOK
  <2>2. QED
    BY <1>2, <1>3, <2>1
<1>11. Writing(w)'
  BY <1>1, <1>5, <1>7, <1>8, <1>10 DEF Writing
<1>12. \A v \in Writers : (/\ Writing(v) /\ Synced(v)
                           /\ pc[v] # "writing" => fd[v] = NoInode)'
  BY <1>1, <1>5, <1>11, OneWriter DEF Synced
<1>13. QED
  BY <1>5, <1>8, <1>9, <1>12 DEF Inductive, Numbered

(* fsync: by then the temporary inode holds the whole document.            *)
LEMMA SyncInductive ==
  ASSUME Inductive, NEW w \in Writers, Sync(w) PROVE Inductive'
<1>1. /\ doc[w] \in Documents /\ doc[w] > Visible
      /\ tmp # NoInode /\ fd[w] = tmp /\ tmp # final
      /\ content[tmp] = FirstPieces(doc[w], pos[w] - 1)
      /\ pos[w] <= size[doc[w]] + 1 /\ tmp \in Inodes
  BY DEF Sync, Writing, Inductive, TypeOK
<1>2. pos[w] \in Nat /\ size[doc[w]] \in Nat /\ pos[w] > size[doc[w]]
  <2>1. pos[w] \in 1..(Chunks + 1) /\ size[doc[w]] \in Pieces
    BY <1>1 DEF Inductive, TypeOK
  <2>2. QED
    BY <2>1, Ranges DEF Sync, AllWritten
<1>3. pos[w] - 1 = size[doc[w]]
  BY <1>1, <1>2
<1>4. /\ durable' = [durable EXCEPT ![tmp] = content[tmp]]
      /\ fd' = [fd EXCEPT ![w] = NoInode]
      /\ pc' = [pc EXCEPT ![w] = "synced"]
      /\ UNCHANGED <<doc, pos, tmp, final, content, written, size>>
  BY <1>1 DEF Sync, ToDisk
<1>5. (NeverHalfWritten /\ VisibleIsDurable)' /\ Visible' = Visible
  <2>1. final # NoInode => /\ content'[final] = content[final]
                           /\ durable'[final] = durable[final]
    BY <1>1, <1>4 DEF Inductive, TypeOK
  <2>2. QED
    BY <1>4, <2>1, VisibleUntouched DEF Inductive
<1>6. TypeOK'
  BY <1>1, <1>4 DEF Inductive, TypeOK
<1>7. content'[tmp] = Text(doc[w])' /\ durable'[tmp] = content'[tmp]
  BY <1>1, <1>3, <1>4 DEF Text, Inductive, TypeOK
<1>8. \A v \in Writers : (/\ Writing(v) /\ Synced(v)
                          /\ pc[v] # "writing" => fd[v] = NoInode)'
  <2>1. pc'[w] = "synced" /\ fd'[w] = NoInode
    BY <1>4 DEF Inductive, TypeOK
  <2>2. Synced(w)'
    BY <1>1, <1>4, <1>5, <1>7, <2>1 DEF Synced
  <2>3. QED
    BY <2>1, <2>2, OneWriter DEF Writing
<1>9. QED
  BY <1>4, <1>5, <1>6, <1>8 DEF Inductive, Numbered

(* rename publishes a document that is whole, durable and newer.           *)
LEMMA RenameInductive ==
  ASSUME Inductive, NEW w \in Writers, Rename(w)
  PROVE  Inductive' /\ doc[w] \in Documents /\ doc[w] > Visible
         /\ Visible' = doc[w]
<1>1. /\ doc[w] \in Documents /\ doc[w] > Visible
      /\ tmp # NoInode /\ tmp \in Inodes
      /\ content[tmp] = Text(doc[w]) /\ durable[tmp] = content[tmp]
      /\ TypeOK
  BY DEF Rename, Synced, Inductive, TypeOK
<1>2. /\ final' = tmp /\ tmp' = NoInode
      /\ pc' = [pc EXCEPT ![w] = "idle"]
      /\ UNCHANGED <<doc, fd, pos, content, durable, written, size>>
  BY <1>1 DEF Rename
<1>3. Visible' = doc[w]
  BY <1>1, <1>2, SeenByFirstPiece DEF Visible
<1>4. (NeverHalfWritten /\ VisibleIsDurable)'
  BY <1>1, <1>2 DEF NeverHalfWritten, VisibleIsDurable, Text
<1>5. TypeOK'
  BY <1>1, <1>2 DEF TypeOK
<1>6. Numbered'
  BY <1>1, <1>2, <1>3 DEF Inductive, Numbered
<1>7. \A v \in Writers : (/\ Writing(v) /\ Synced(v)
                          /\ pc[v] # "writing" => fd[v] = NoInode)'
  <2>1. pc'[w] = "idle" /\ fd'[w] = NoInode
    BY <1>1, <1>2 DEF Inductive, TypeOK, Rename
  <2>2. QED
    BY <2>1, OneWriter DEF Writing, Synced
<1>8. QED
  BY <1>1, <1>2, <1>3, <1>4, <1>5, <1>6, <1>7 DEF Inductive

(* A failed call, a kill and a relaunch touch no file.                     *)
LEMMA ProcessInductive ==
  ASSUME Inductive, NEW w \in Writers,
         CallFails(w) \/ Killed(w) \/ Relaunched(w)
  PROVE  Inductive' /\ Visible' = Visible
<1>1. /\ pc'[w] \in {"idle", "dead"} /\ fd'[w] = NoInode
      /\ pc' \in [Writers -> {"idle", "writing", "synced", "dead"}]
      /\ fd' \in [Writers -> Inodes \union {NoInode}]
      /\ UNCHANGED <<doc, pos, tmp, final, content, durable, written, size>>
  BY DEF CallFails, Killed, Relaunched, Inductive, TypeOK
<1>2. (NeverHalfWritten /\ VisibleIsDurable)' /\ Visible' = Visible
  BY <1>1, VisibleUntouched DEF Inductive
<1>3. TypeOK'
  BY <1>1 DEF Inductive, TypeOK
<1>4. \A v \in Writers : (/\ Writing(v) /\ Synced(v)
                          /\ pc[v] # "writing" => fd[v] = NoInode)'
  BY <1>1, OneWriter DEF Writing, Synced
<1>5. QED
  BY <1>1, <1>2, <1>3, <1>4 DEF Inductive, Numbered

(* A crash keeps what was synced, and what is visible was.                 *)
LEMMA CrashInductive ==
  ASSUME Inductive, NodeCrash PROVE Inductive' /\ Visible' = Visible
<1>1. PICK kept \in SUBSET Inodes :
        content' = [i \in Inodes |-> IF i \in kept THEN content[i]
                                                   ELSE durable[i]]
  BY DEF NodeCrash
<1>2. /\ pc' = [v \in Writers |-> "dead"] /\ fd' = [v \in Writers |-> NoInode]
      /\ UNCHANGED <<doc, pos, tmp, final, durable, written, size>>
  BY DEF NodeCrash
<1>3. final # NoInode => content'[final] = content[final]
  BY <1>1 DEF Inductive, TypeOK, VisibleIsDurable
<1>4. (NeverHalfWritten /\ VisibleIsDurable)' /\ Visible' = Visible
  BY <1>2, <1>3, VisibleUntouched DEF Inductive
<1>5. TypeOK'
  BY <1>1, <1>2 DEF Inductive, TypeOK
<1>6. \A v \in Writers : (/\ Writing(v) /\ Synced(v)
                          /\ pc[v] # "writing" => fd[v] = NoInode)'
  BY <1>2 DEF Writing, Synced
<1>7. QED
  BY <1>2, <1>4, <1>5, <1>6 DEF Inductive, Numbered

(* Every system call, failure and crash preserves the inductive invariant, *)
(* and only rename changes what is visible.                                *)
LEMMA StepInductive == Inductive /\ [Next]_vars => Inductive'
<1> SUFFICES ASSUME Inductive, [Next]_vars PROVE Inductive'
  OBVIOUS
<1>1. CASE UNCHANGED vars
  BY <1>1 DEF vars, Inductive, TypeOK, NeverHalfWritten, VisibleIsDurable,
              Visible, Writing, Synced, Text, FirstPieces, Numbered
<1>2. CASE NothingLeft
  BY <1>1, <1>2 DEF NothingLeft
<1>3. QED
  BY <1>1, <1>2, CreateInductive, WriteInductive, SyncInductive,
     RenameInductive, ProcessInductive, CrashInductive DEF Next

(* The inductive invariant holds throughout.                               *)
THEOREM AlwaysInductive == Spec => []Inductive
<1>1. QED
  BY InitInductive, StepInductive, PTL DEF Spec

(* No reader ever finds a half-written or mixed document under the final   *)
(* name, whatever crashes.                                                 *)
THEOREM WholeDocuments == Spec => []NeverHalfWritten
<1>1. Inductive => NeverHalfWritten
  BY DEF Inductive
<1>2. QED
  BY <1>1, AlwaysInductive, PTL

(* What is visible survives a crash of the node.                           *)
THEOREM DurableDocuments == Spec => []VisibleIsDurable
<1>1. Inductive => VisibleIsDurable
  BY DEF Inductive
<1>2. QED
  BY <1>1, AlwaysInductive, PTL

(* The system calls of output.rs implement a register that is replaced by  *)
(* newer documents in one step.                                            *)
THEOREM Implements == Spec => OnlyNewer
<1>1. Init => Reader!Init
  BY DEF Init, Reader!Init, Visible, Shown, NeverHalfWritten
<1>2. ASSUME Inductive, [Next]_vars PROVE [Reader!Publish]_Shown
  <2>0. Shown = Visible /\ Shown' = Visible'
    BY <1>2, StepInductive DEF Inductive, Shown
  <2>1. ASSUME NEW w \in Writers, Rename(w) PROVE Reader!Publish
    BY <1>2, <2>0, <2>1, RenameInductive DEF Reader!Publish
  <2>2. ASSUME NEW w \in Writers, Create(w) PROVE UNCHANGED Visible
    <3>1. PICK i \in Inodes : CreateAs(w, i)
      BY <2>2 DEF Create
    <3>2. i # final
      BY <1>2, <3>1 DEF CreateAs, Free, Inductive
    <3>3. QED
      BY <1>2, <3>1, <3>2 DEF CreateAs, Visible, Inductive, TypeOK
  <2>3. ASSUME NEW w \in Writers, WritePiece(w) PROVE UNCHANGED Visible
    <3>1. fd[w] = tmp /\ (final # NoInode => tmp # final)
      BY <1>2, <2>3 DEF WritePiece, Writing, Inductive
    <3>2. QED
      BY <1>2, <2>3, <3>1 DEF WritePiece, Visible, Inductive, TypeOK
  <2>4. ASSUME NEW w \in Writers, Sync(w) PROVE UNCHANGED Visible
    BY <2>4 DEF Sync, Visible
  <2>5. ASSUME UNCHANGED vars \/ NothingLeft PROVE Visible' = Visible
    BY <2>5 DEF vars, NothingLeft, Visible
  <2>6. ASSUME NEW w \in Writers, CallFails(w) \/ Killed(w) \/ Relaunched(w)
        PROVE  Visible' = Visible
    BY <1>2, <2>6, ProcessInductive
  <2>7. ASSUME NodeCrash PROVE Visible' = Visible
    BY <1>2, <2>7, CrashInductive
  <2>8. QED
    BY <1>2, <2>0, <2>1, <2>2, <2>3, <2>4, <2>5, <2>6, <2>7 DEF Next
<1>3. QED
  BY <1>1, <1>2, AlwaysInductive, PTL DEF Spec, OnlyNewer, Reader!Spec
=============================================================================
