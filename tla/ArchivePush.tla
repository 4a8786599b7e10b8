---------------------------- MODULE ArchivePush ----------------------------
(***************************************************************************)
(* archive-push (pgbr-command/src/archive.rs) as PostgreSQL's archiver     *)
(* drives it: one invocation at a time, a history file before any segment  *)
(* and otherwise the oldest segment, again and again until the command     *)
(* exits with success.  In synchronous mode the command copies the file to *)
(* every repository; in asynchronous mode it stages the file in the spool, *)
(* drains everything the spool holds to every repository, leaves a .ok or  *)
(* a .error status per file and returns what its own file's status says.   *)
(*                                                                         *)
(* A file's content is abstracted to "none", "torn" or "whole": storage    *)
(* writes truncate the target first and are not atomic, so a write that is *)
(* cut short leaves a torn file.  Sizes count in segments.                 *)
(***************************************************************************)
EXTENDS Naturals, FiniteSets

CONSTANTS
  Seg,        \* WAL segments, numbered in the order PostgreSQL fills them
  Hist,       \* timeline history files
  NRepo,      \* repositories, numbered in configuration order
  Async,      \* archive-async
  ProcessMax, \* process-max
  AllLocal,   \* every repository is a local path
  QueueMax,   \* archive-push-queue-max, in segments; NoLimit when unset
  NoLimit,
  MaxFaults,  \* bound: crashes, I/O errors and PostgreSQL restarts in a behaviour
  NoFile

File == Seg \union Hist
Repo == 1..NRepo
Content == {"none", "torn", "whole"}

ASSUME SegAssumption == Seg \subseteq Nat /\ Seg \intersect Hist = {}
ASSUME RepoAssumption == NRepo \in Nat \ {0}
ASSUME ModeAssumption == Async \in BOOLEAN /\ AllLocal \in BOOLEAN /\ ProcessMax \in Nat \ {0}
ASSUME QueueAssumption == NoLimit \notin Nat /\ QueueMax \in Nat \union {NoLimit}
ASSUME FaultAssumption == MaxFaults \in Nat
ASSUME NoFileAssumption == NoFile \notin File

VARIABLES
  wal,      \* files in pg_wal
  ready,    \* the files among them PostgreSQL still has to archive
  acked,    \* files archive-push has returned success for
  out,      \* out[f]: the copy staged in the spool's out/ directory
  okf,      \* files with a .ok status in the spool
  errf,     \* files with a .error status in the spool
  repo,     \* repo[r][f]: what repository r holds under f's name
  pc,       \* where the running archive-push is
  cur,      \* the file it was invoked for
  batch,    \* the files it transfers
  unmarked, \* the files among them whose outcome it has not recorded yet
  wr,       \* wr[f][r]: state of the copy of f to repository r
  dropped,  \* history: files the queue limit dropped
  tainted,  \* history: files of which a torn staged copy was transferred
  faults    \* bound: faults so far

pgVars == <<wal, ready, acked>>
spoolVars == <<out, okf, errf>>
vars == <<wal, ready, acked, out, okf, errf, repo, pc, cur, batch, unmarked, wr, dropped, tainted, faults>>

PC == {"idle", "check", "consume", "stage", "staging", "copy", "result", "ok", "err"}
CopyState == {"todo", "busy", "done", "failed"}
NoCopy == [f \in File |-> [r \in Repo |-> "todo"]]

Init ==
  /\ wal = {} /\ ready = {} /\ acked = {}
  /\ out = [f \in File |-> "none"] /\ okf = {} /\ errf = {}
  /\ repo = [r \in Repo |-> [f \in File |-> "none"]]
  /\ pc = "idle" /\ cur = NoFile /\ batch = {} /\ unmarked = {} /\ wr = NoCopy
  /\ dropped = {} /\ tainted = {} /\ faults = 0

-----------------------------------------------------------------------------
(* PostgreSQL.                                                             *)

\* A segment is filled, or a history file is written on promotion.
Generate(f) ==
  /\ f \notin wal \union acked
  /\ f \in Seg => \A g \in Seg : g < f => g \in wal \union acked
  /\ wal' = wal \union {f} /\ ready' = ready \union {f}
  /\ UNCHANGED <<acked, spoolVars, repo, pc, cur, batch, unmarked, wr, dropped, tainted, faults>>

\* A checkpoint recycles a segment that has been archived.
Recycle(f) ==
  /\ f \in (wal \intersect Seg) \ ready
  /\ wal' = wal \ {f}
  /\ UNCHANGED <<ready, acked, spoolVars, repo, pc, cur, batch, unmarked, wr, dropped, tainted, faults>>

\* PostgreSQL crashes before it has recorded that f is archived.
Forget(f) ==
  /\ pc = "idle" /\ faults < MaxFaults
  /\ f \in wal \ ready
  /\ ready' = ready \union {f} /\ faults' = faults + 1
  /\ UNCHANGED <<wal, acked, spoolVars, repo, pc, cur, batch, unmarked, wr, dropped, tainted>>

\* The archiver invokes archive-push.
Invoke(f) ==
  /\ pc = "idle" /\ f \in ready
  /\ f \in Hist \/ (ready \intersect Hist = {} /\ \A g \in ready : f <= g)
  /\ pc' = "check" /\ cur' = f
  /\ UNCHANGED <<pgVars, spoolVars, repo, batch, unmarked, wr, dropped, tainted, faults>>

-----------------------------------------------------------------------------
(* archive-push.                                                           *)

\* The backlog the limit is compared with: what is staged in the spool, or
\* every segment in the directory of the file being pushed.
Backlog ==
  IF Async THEN Cardinality({f \in File : out[f] # "none"})
           ELSE Cardinality(wal \intersect Seg)

push_queue_exceeded == QueueMax # NoLimit /\ Backlog >= QueueMax

\* Over the limit the file is dropped and PostgreSQL is told it is archived.
Check ==
  /\ pc = "check"
  /\ IF push_queue_exceeded
     THEN dropped' = dropped \union {cur} /\ pc' = "ok" /\ batch' = {}
     ELSE /\ dropped' = dropped
          /\ IF Async THEN pc' = "consume" /\ batch' = {}
                      ELSE pc' = "copy" /\ batch' = {cur}
  /\ unmarked' = batch'
  /\ UNCHANGED <<pgVars, spoolVars, repo, cur, wr, tainted, faults>>

\* Mutant: a .error status is read but not removed.
ConsumeStatus_keepsError(otherwise) ==
  /\ IF cur \in okf THEN okf' = okf \ {cur} /\ pc' = "ok"
     ELSE IF cur \in errf THEN okf' = okf /\ pc' = "err"
     ELSE okf' = okf /\ pc' = otherwise
  /\ UNCHANGED <<pgVars, out, errf, repo, cur, batch, unmarked, wr, dropped, tainted, faults>>

\* consume_push_status: .ok wins over .error, and only the one read is removed.
ConsumeStatus(otherwise) ==
  /\ IF cur \in okf THEN okf' = okf \ {cur} /\ errf' = errf /\ pc' = "ok"
     ELSE IF cur \in errf THEN errf' = errf \ {cur} /\ okf' = okf /\ pc' = "err"
     ELSE okf' = okf /\ errf' = errf /\ pc' = otherwise
  /\ UNCHANGED <<pgVars, out, repo, cur, batch, unmarked, wr, dropped, tainted, faults>>

Consume == pc = "consume" /\ ConsumeStatus("stage")

\* stage_push_segment: the staged file is truncated, then written.
StageStart ==
  /\ pc = "stage"
  /\ out' = [out EXCEPT ![cur] = "torn"] /\ pc' = "staging"
  /\ UNCHANGED <<pgVars, okf, errf, repo, cur, batch, unmarked, wr, dropped, tainted, faults>>

\* Mutant: the status files in out/ are listed too.
Listed_statuses(staged) ==
  {f \in File : staged[f] # "none"} \union {NoFile : f \in okf \union errf}

\* drain_out_spool lists every staged file of out/, and skips the status files
\* next to them.
Listed(staged) == {f \in File : staged[f] # "none"}

\* The staged file is complete, and the drain starts.
StageEnd ==
  /\ pc = "staging"
  /\ out' = [out EXCEPT ![cur] = "whole"] /\ pc' = "copy"
  /\ batch' = Listed(out') /\ unmarked' = batch'
  /\ UNCHANGED <<pgVars, okf, errf, repo, cur, wr, dropped, tainted, faults>>

\* Where the bytes to copy come from: the spool, or pg_wal.
Source(f) == IF Async THEN out[f] ELSE "whole"

Begun(f) == \E r \in Repo : wr[f][r] # "todo"
Failed(f) == \E r \in Repo : wr[f][r] = "failed"
\* Mutant: one repository is enough.
Copied_anyRepo(f) == \E r \in Repo : wr[f][r] = "done"

Copied(f) == \A r \in Repo : wr[f][r] = "done"

\* drain_out_spool copies several files in parallel, or else
\* drain_one_to_targets the one file to several repositories.
ParallelFiles == Async /\ ProcessMax > 1 /\ AllLocal /\ Cardinality(batch) > 1
ParallelTargets == Async /\ ProcessMax > 1 /\ AllLocal /\ NRepo > 1 /\ ~ParallelFiles

\* f is in every repository, or a copy has failed and no other will start.
Settled(f) ==
  /\ \A r \in Repo : wr[f][r] # "busy"
  /\ Copied(f) \/ (Failed(f) /\ (ParallelTargets => \A r \in Repo : wr[f][r] # "todo"))

\* A worker may start to copy f to r.
MayCopy(f, r) ==
  /\ wr[f][r] = "todo"
  /\ IF ParallelFiles
     THEN Begun(f) \/ Cardinality({g \in batch : Begun(g) /\ ~Settled(g)}) < ProcessMax
     ELSE \A g \in unmarked \ {f} : ~Begun(g)
  /\ IF ParallelTargets
     THEN Cardinality({q \in Repo : wr[f][q] = "busy"}) < ProcessMax
     ELSE \A q \in Repo : q < r => wr[f][q] = "done"

\* write_segment truncates the target ...
CopyStart(f, r) ==
  /\ pc = "copy" /\ f \in unmarked /\ MayCopy(f, r)
  /\ repo' = [repo EXCEPT ![r][f] = "torn"]
  /\ wr' = [wr EXCEPT ![f][r] = "busy"]
  /\ UNCHANGED <<pgVars, spoolVars, pc, cur, batch, unmarked, dropped, tainted, faults>>

\* ... and writes it.
CopyEnd(f, r) ==
  /\ pc = "copy" /\ f \in unmarked /\ wr[f][r] = "busy"
  /\ repo' = [repo EXCEPT ![r][f] = Source(f)]
  /\ wr' = [wr EXCEPT ![f][r] = "done"]
  /\ tainted' = IF Source(f) = "torn" THEN tainted \union {f} ELSE tainted
  /\ UNCHANGED <<pgVars, spoolVars, pc, cur, batch, unmarked, dropped, faults>>

\* Mutant: a failed write is swallowed.
CopyFail_swallowed(f, r) ==
  /\ pc = "copy" /\ f \in unmarked /\ faults < MaxFaults
  /\ wr[f][r] = "busy" \/ MayCopy(f, r)
  /\ wr' = [wr EXCEPT ![f][r] = "done"] /\ faults' = faults + 1
  /\ UNCHANGED <<pgVars, spoolVars, repo, pc, cur, batch, unmarked, dropped, tainted>>

\* The target cannot be opened, or the write fails half way.
CopyFail(f, r) ==
  /\ pc = "copy" /\ f \in unmarked /\ faults < MaxFaults
  /\ wr[f][r] = "busy" \/ MayCopy(f, r)
  /\ wr' = [wr EXCEPT ![f][r] = "failed"] /\ faults' = faults + 1
  /\ UNCHANGED <<pgVars, spoolVars, repo, pc, cur, batch, unmarked, dropped, tainted>>

\* The drain writes a file's status once its copies have settled; when files
\* are copied in parallel, once all of them have.
MayMark(f) ==
  /\ Async /\ pc = "copy" /\ f \in unmarked /\ Settled(f)
  /\ ParallelFiles => \A g \in batch : Settled(g)
  /\ \A g \in unmarked \ {f} : out[g] # "none"

\* Mutant: the staged copy is removed whether or not the copies succeeded.
RemoveStaged_always(f) ==
  /\ MayMark(f) /\ out[f] # "none"
  /\ out' = [out EXCEPT ![f] = "none"]
  /\ UNCHANGED <<pgVars, okf, errf, repo, pc, cur, batch, unmarked, wr, dropped, tainted, faults>>

\* Success: the staged copy goes first, ...
RemoveStaged(f) ==
  /\ MayMark(f) /\ Copied(f) /\ out[f] # "none"
  /\ out' = [out EXCEPT ![f] = "none"]
  /\ UNCHANGED <<pgVars, okf, errf, repo, pc, cur, batch, unmarked, wr, dropped, tainted, faults>>

\* Mutant: the staged copy is left behind.
MarkOk_keepsStaged(f) ==
  /\ MayMark(f) /\ Copied(f)
  /\ okf' = okf \union {f} /\ unmarked' = unmarked \ {f}
  /\ UNCHANGED <<pgVars, out, errf, repo, pc, cur, batch, wr, dropped, tainted, faults>>

\* ... then the .ok status is written.
MarkOk(f) ==
  /\ MayMark(f) /\ Copied(f) /\ out[f] = "none"
  /\ okf' = okf \union {f} /\ unmarked' = unmarked \ {f}
  /\ UNCHANGED <<pgVars, out, errf, repo, pc, cur, batch, wr, dropped, tainted, faults>>

\* Failure: the .error status is written and the staged copy is kept.
MarkError(f) ==
  /\ MayMark(f) /\ Failed(f)
  /\ errf' = errf \union {f} /\ unmarked' = unmarked \ {f}
  /\ UNCHANGED <<pgVars, out, okf, repo, pc, cur, batch, wr, dropped, tainted, faults>>

\* Mutant: in synchronous mode a failed copy leaves the loop without an error.
CopiesOver_ignoresFailure ==
  /\ pc = "copy"
  /\ IF Async
     THEN unmarked = {} /\ pc' = "result"
     ELSE Settled(cur) /\ pc' = "ok"
  /\ wr' = NoCopy /\ batch' = {} /\ unmarked' = {}
  /\ UNCHANGED <<pgVars, spoolVars, repo, cur, dropped, tainted, faults>>

\* Mutant: in synchronous mode a failed copy never ends the command.
CopiesOver_hangs ==
  /\ pc = "copy"
  /\ IF Async
     THEN unmarked = {} /\ pc' = "result"
     ELSE Copied(cur) /\ pc' = "ok"
  /\ wr' = NoCopy /\ batch' = {} /\ unmarked' = {}
  /\ UNCHANGED <<pgVars, spoolVars, repo, cur, dropped, tainted, faults>>

\* The drain is over, or in synchronous mode every repository has the file or
\* one has failed.
CopiesOver ==
  /\ pc = "copy"
  /\ IF Async
     THEN unmarked = {} /\ pc' = "result"
     ELSE Settled(cur) /\ pc' = (IF Copied(cur) THEN "ok" ELSE "err")
  /\ wr' = NoCopy /\ batch' = {} /\ unmarked' = {}
  /\ UNCHANGED <<pgVars, spoolVars, repo, cur, dropped, tainted, faults>>

\* confirm_segment_in_all_repos: asked when the drain left no status.
Confirmed == \A r \in Repo : repo[r][cur] # "none"

Result == pc = "result" /\ ConsumeStatus(IF Confirmed THEN "ok" ELSE "err")

\* The process exits and the archiver reads its exit status.
Exit ==
  /\ pc \in {"ok", "err"}
  /\ pc' = "idle" /\ cur' = NoFile
  /\ IF pc = "ok" THEN ready' = ready \ {cur} /\ acked' = acked \union {cur}
                  ELSE UNCHANGED <<ready, acked>>
  /\ UNCHANGED <<wal, spoolVars, repo, batch, unmarked, wr, dropped, tainted, faults>>

\* The process is killed, or an error of the spool or of archive.info that no
\* step handles ends it: the archiver sees a failure either way.
Abort ==
  /\ pc # "idle" /\ faults < MaxFaults
  /\ pc' = "idle" /\ cur' = NoFile /\ batch' = {} /\ unmarked' = {} /\ wr' = NoCopy
  /\ faults' = faults + 1
  /\ UNCHANGED <<pgVars, spoolVars, repo, dropped, tainted>>

Push ==
  \/ Check \/ Consume \/ StageStart \/ StageEnd
  \/ \E f \in File, r \in Repo : CopyStart(f, r) \/ CopyEnd(f, r)
  \/ \E f \in File : RemoveStaged(f) \/ MarkOk(f) \/ MarkError(f)
  \/ CopiesOver \/ Result \/ Exit

Fault ==
  \/ Abort
  \/ \E f \in File, r \in Repo : CopyFail(f, r)
  \/ \E f \in File : Forget(f)

Next ==
  \/ \E f \in File : Generate(f) \/ Recycle(f) \/ Invoke(f)
  \/ Push \/ Fault

Spec == Init /\ [][Next]_vars

\* The archiver keeps invoking the command and the command keeps running;
\* faults are finitely many by their bound.
FairSpec == Spec /\ WF_vars(Push) /\ WF_vars(\E f \in File : Invoke(f))

-----------------------------------------------------------------------------
(* Properties.                                                             *)

\* Every variable stays in its domain: what a drain transfers and what waits for
\* a status are WAL files, and PostgreSQL waits only for files it still has.
TypeOK ==
  /\ wal \subseteq File /\ ready \subseteq wal /\ acked \subseteq File
  /\ out \in [File -> Content] /\ okf \subseteq File /\ errf \subseteq File
  /\ repo \in [Repo -> [File -> Content]]
  /\ pc \in PC /\ cur \in File \union {NoFile} /\ (pc = "idle" <=> cur = NoFile)
  /\ batch \subseteq File /\ unmarked \subseteq batch
  /\ wr \in [File -> [Repo -> CopyState]]
  /\ dropped \subseteq File /\ tainted \subseteq File /\ faults \in 0..MaxFaults

Archived(f) == \A r \in Repo : repo[r][f] = "whole"

\* push: "the segment is only considered archived when it has reached all of"
\* the repositories.  A file PostgreSQL was told is archived, and is free to
\* recycle, is intact in every repository unless the queue limit dropped it.
AckedIsArchived ==
  \A f \in acked \ (ready \union dropped) : Archived(f)

\* The same for every file of which no torn staged copy was ever drained:
\* whatever crashes, failed writes, retries and stale .ok and .error files
\* come in between.
AckedIsArchivedUnlessTorn ==
  \A f \in acked \ (ready \union dropped \union tainted) : Archived(f)

\* drain_push_spool_multi: the staged copy is removed only when every
\* repository has the file, so the spool never loses the last intact copy of
\* a file whose transfer was not finished.
StagedKeptUntilArchived ==
  [][\A f \in File : out[f] = "whole" /\ out'[f] = "none" => Archived(f)]_vars

\* A .ok status that waits for a later invocation, however many crashes ago it
\* was written, is still true when it is read.
StatusIsTrue == \A f \in okf : Archived(f) \/ f \in tainted

\* PostgreSQL is never stuck on a file: once faults stop, every file it has to
\* archive is acknowledged, stale .error files notwithstanding.
EveryFileAcknowledged == \A f \in File : f \in ready ~> f \notin ready

\* What a failed push leaves in the spool does not stay there.
SpoolDrains == \A f \in File : out[f] # "none" ~> out[f] = "none"
=============================================================================
