------------------------------ MODULE JobMerge ------------------------------
(***************************************************************************)
(* One job's manifest and merge, over a directory it shares with other     *)
(* jobs and with its own loggers, some of which may still be publishing:   *)
(* run_write_manifest and run_merge of main.rs, build_manifest of          *)
(* manifest.rs, find_node_summaries and load_node_summaries of merge.rs,   *)
(* and then the loops of MergeSummaries over what was loaded.              *)
(*                                                                         *)
(* A name is its place in sorted order.  As in NodeLogger, an operator     *)
(* just before another one and used by no action is the wrong code the     *)
(* properties must notice.                                                 *)
(***************************************************************************)
EXTENDS MergeSummaries, FiniteSets, Sequences, SequencesExt

CONSTANTS
  LastName,      \* the names of the directory are 1..LastName
  MergedName,    \* the one of the job's merged summary
  Conventional,  \* those that begin with psutil_<job id>_
  ThisJob,
  ThisHost,      \* where --write-manifest runs
  Templates,     \* values of --output: the summary's name for each host
  Written,       \* the bodies a file of each name can have
  OldManifests,  \* what may lie under the manifest's name beforehand
  MaxPublished   \* bound: documents published while the merge runs

ASSUME NamesAssumption ==
  /\ LastName \in Nat /\ LastName <= MaxNodes
  /\ MergedName \in 1..LastName /\ Conventional \subseteq 1..LastName
  /\ IsFiniteSet(Hosts) /\ ThisHost \in Hosts
  /\ Templates \subseteq [Hosts -> 1..LastName]
  /\ \A old \in OldManifests :
       old.ok /\ old.job = ThisJob =>
         \A i \in DOMAIN old.entries : old.entries[i].name \in 1..LastName
  /\ \A n \in 1..LastName : \A file \in Written[n] :
       file.kind = "summary" /\ file.job = ThisJob => file.node \in Summary

VARIABLES
  files,      \* the directory
  manifest,   \* the job's manifest file
  found,      \* find_node_summaries, so far
  from,       \* the names the summaries were loaded from
  failures,   \* the names load_node_summaries gave up on
  published,  \* documents published while the merge runs
  readable    \* history: what a merge had to take when it began

directory == <<files, manifest, published>>
search == <<found, from, failures, readable>>

Names == 1..LastName
NoFile == [kind |-> "absent"]

InitMerge ==
  /\ expected \in SUBSET Hosts
  /\ files \in {f \in [Names -> UNION {Written[n] : n \in Names}] :
                  \A n \in Names : f[n] \in Written[n]}
  /\ manifest \in OldManifests
  /\ found = <<>> /\ from = <<>> /\ failures = {} /\ published = 0
  /\ readable = {} /\ summaries = <<>> /\ phase = "launch" /\ next = 1
  /\ reporting = {} /\ peakMax = 0 /\ peakSum = 0 /\ instant = 0
  /\ worst = None /\ anyUnknown = FALSE /\ merged = NoResult
-----------------------------------------------------------------------------
(* The manifest, before any logger runs: an entry for each allocated node, *)
(* or for this one.  A failure leaves what was there, and the job goes on. *)
ManifestHosts == IF expected = {} THEN {ThisHost} ELSE expected
Entries(template) ==
  LET hosts == SetToSeq(ManifestHosts)
  IN  [i \in DOMAIN hosts |-> [name |-> template[hosts[i]], plain |-> TRUE]]

WriteManifest(template) ==
  /\ phase = "launch" /\ phase' = "ready"
  /\ manifest' = [ok |-> TRUE, job |-> ThisJob, entries |-> Entries(template)]
  /\ UNCHANGED <<summaries, expected, Loop, Outcome, merged, files, published,
                 search>>

ManifestFails ==
  /\ phase = "launch" /\ phase' = "ready"
  /\ UNCHANGED <<summaries, expected, Loop, Outcome, merged, directory, search>>

Good(file) == file.kind = "summary" /\ file.job = ThisJob

(* A logger that is still running, outside the merge: a first document, or *)
(* a later one over its checkpoint, whole in either case (AtomicFile).     *)
Publish(n, file) ==
  /\ phase \in {"list", "load"} /\ published < MaxPublished
  /\ Good(file)
  /\ \/ files[n] = NoFile
     \/ Good(files[n]) /\ files[n].node.partial /\ files[n].node.host = file.node.host
  /\ files' = [files EXCEPT ![n] = file] /\ published' = published + 1
  /\ UNCHANGED <<vars, manifest, search>>
-----------------------------------------------------------------------------
(* find_node_summaries.  A manifest that can be read and is this job's is  *)
(* believed: its basenames that exist, sorted, each once.                  *)
Usable == manifest.ok /\ manifest.job = ThisJob
Entry == manifest.entries
Plain == {i \in DOMAIN Entry : Entry[i].plain}
NamesAt(places) == {Entry[i].name : i \in places}

InOrder(names, number) ==
  {sorted \in [1..number -> names] :
     \A i, j \in 1..number : i < j => sorted[i] <= sorted[j]}
AsPromised(places) == InOrder(NamesAt(places), Cardinality(places))
OnceEach(places) ==
  {sorted \in InOrder(NamesAt(places), Cardinality(NamesAt(places))) :
     \A i, j \in DOMAIN sorted : sorted[i] = sorted[j] => i = j}

(* What the directory holds of this job when the merge begins.             *)
Readable ==
  {n \in Names : Good(files[n]) /\ IF Usable THEN n \in NamesAt(Plain)
                                             ELSE n # MergedName}

FindByManifest ==
  /\ phase = "ready" /\ Usable
  /\ found' \in OnceEach({i \in Plain : files[Entry[i].name] # NoFile})
  /\ readable' = Readable /\ phase' = "load"
  /\ UNCHANGED <<summaries, expected, Loop, Outcome, merged, directory, from,
                 failures>>

ListDirectory ==
  /\ phase = "ready" /\ ~Usable
  /\ readable' = Readable /\ phase' = "list"
  /\ UNCHANGED <<summaries, expected, Loop, Outcome, merged, directory, found,
                 from, failures>>

(* Without it, one name after another: by the prefix, or by the job id the *)
(* file says; never the merge's own output.                                *)
OnlyByPrefix(n) == n \in Conventional
BelongsByName(n) ==
  /\ files[n] # NoFile /\ n # MergedName
  /\ \/ n \in Conventional
     \/ files[n].kind \in {"summary", "other"} /\ files[n].job = ThisJob

LookAtName ==
  /\ phase = "list" /\ next \in Names /\ next' = next + 1
  /\ found' = IF BelongsByName(next) THEN Append(found, next) ELSE found
  /\ UNCHANGED <<summaries, expected, phase, reporting, peakMax, peakSum, instant,
                 Outcome, merged, directory, from, failures, readable>>

AllNamesSeen ==
  /\ phase = "list" /\ next \notin Names /\ next' = 1 /\ phase' = "load"
  /\ UNCHANGED <<summaries, expected, reporting, peakMax, peakSum, instant,
                 Outcome, merged, directory, search>>

(* load_node_summaries: each file is read now, whatever the search saw in  *)
(* it, and a bad one costs only itself.                                    *)
AnySummary(file) == file.kind = "summary"
Loads(file) == file.kind = "summary" /\ file.job = ThisJob
StopAtFailure(names) == <<>>
GoOn(names) == Tail(names)

Load ==
  /\ phase = "load" /\ found # <<>>
  /\ LET n == Head(found)
     IN  IF Loads(files[n])
           THEN /\ summaries' = Append(summaries, files[n].node)
                /\ from' = Append(from, n) /\ failures' = failures
                /\ found' = Tail(found)
           ELSE /\ failures' = failures \union {n} /\ found' = GoOn(found)
                /\ UNCHANGED <<summaries, from>>
  /\ UNCHANGED <<expected, phase, Loop, Outcome, merged, directory, readable>>

(* Nothing found, or nothing that could be read, is refused by Refuse.     *)
AllLoaded ==
  /\ phase = "load" /\ found = <<>> /\ phase' = "start"
  /\ UNCHANGED <<summaries, expected, Loop, Outcome, merged, directory, search>>

Find ==
  \/ \E template \in Templates : WriteManifest(template)
  \/ ManifestFails \/ FindByManifest \/ ListDirectory \/ LookAtName
  \/ AllNamesSeen \/ Load \/ AllLoaded
Merge == Next /\ UNCHANGED <<directory, search>>

NextMerge ==
  \/ Find \/ Merge
  \/ \E n \in Names : \E file \in Written[n] : Publish(n, file)

SpecMerge == InitMerge /\ [][NextMerge]_<<vars, directory, search>>
-----------------------------------------------------------------------------
(* No document is merged twice, though the manifest may promise one name   *)
(* to several nodes (an --output without {host}), and none of another job, *)
(* whatever its name; what is merged was this job's in the directory.      *)
OnlyThisJobOnce ==
  /\ Len(from) = Len(summaries)
  /\ \A i, j \in DOMAIN from : from[i] = from[j] => i = j
  /\ \A i \in DOMAIN from :
       /\ Good(files[from[i]]) /\ from[i] \notin failures
       /\ files[from[i]].node.host = summaries[i].host

(* A summary of this job that could be read when the merge began is in the *)
(* result, a later state of it perhaps, and its host is not missing, what- *)
(* ever else lies in the directory (load_node_summaries: "A single corrupt *)
(* or half-written file must not sink the merge").                         *)
NothingReadableIgnored ==
  /\ phase = "refused" => readable = {}
  /\ phase = "merged" =>
       /\ readable \subseteq ToSet(from)
       /\ \A n \in readable : files[n].node.host \notin merged.missing
=============================================================================
