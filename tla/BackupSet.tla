----------------------------- MODULE BackupSet ------------------------------
(***************************************************************************)
(* The backups of one repository: backup (pgbr-command/src/backup.rs)      *)
(* builds them into chains, expire (expire.rs) removes backups and WAL by  *)
(* the retention options or by name, and both, with annotate and           *)
(* stanza-upgrade, rewrite the list of backups that backup.info keeps.     *)
(*                                                                         *)
(* Backups are numbered in the order they are taken, which is the order of *)
(* their timestamps and of their labels.  Segments are numbered in the     *)
(* order PostgreSQL fills them.  These commands hold the backup lock, so   *)
(* that one runs at a time; archive-push goes on meanwhile.                *)
(***************************************************************************)
EXTENDS Naturals, Sequences, FiniteSets, FiniteSetsExt

CONSTANTS
  Encrypted,    \* the repository is encrypted
  Parallel,     \* the repository is local and process-max > 1
  ExpireAuto,   \* expire-auto
  Adhoc,        \* the expiry by name that is used: "set" and "oldest"
  Offline,      \* backups are also taken with --no-online
  FullType,     \* repo-retention-full-type: "count" or "time"
  RetainFull,   \* repo-retention-full, Unset when not given
  RetainDiff,   \* repo-retention-diff, or Unset
  RetainWal,    \* repo-retention-archive, or Unset
  WalType,      \* repo-retention-archive-type: the backup types it counts
  Unset,
  MaxBackups,   \* bound: backups taken
  MaxSegments,  \* bound: segments filled
  MaxClusters,  \* bound: clusters the stanza is upgraded through
  MaxFaults     \* bound: commands that die

Type == {"full", "diff", "incr"}
Backup == 1..MaxBackups

ASSUME ModeAssumption ==
  /\ Encrypted \in BOOLEAN /\ Parallel \in BOOLEAN /\ ExpireAuto \in BOOLEAN
  /\ Adhoc \subseteq {"set", "oldest"} /\ Offline \in BOOLEAN
ASSUME RetentionAssumption ==
  /\ FullType \in {"count", "time"} /\ WalType \in SUBSET Type /\ Unset \notin Nat
  /\ {RetainFull, RetainDiff, RetainWal} \subseteq (Nat \ {0}) \union {Unset}
ASSUME BoundAssumption ==
  MaxBackups \in Nat /\ MaxSegments \in Nat /\ MaxClusters \in Nat \ {0} /\ MaxFaults \in Nat

VARIABLES
  made,     \* made[n]: [type, prior, uses, start, stop, id] of the n-th backup
  dir,      \* dir[n]: what is in its directory
  list,     \* the backups backup.info lists
  torn,     \* backup.info was truncated and not yet written
  copy,     \* the backups backup.info.copy lists
  wal,      \* the segments in the archive, <<cluster id, segment>>
  seg,      \* the segment PostgreSQL fills
  id,       \* the current cluster's id
  cmd,      \* where the running command is
  mem,      \* the list of backups it holds in memory
  victims,  \* expire: the backups it removes
  then,     \* what it does after it has saved backup.info
  doomed,   \* history: the backups an expire has chosen
  complete, \* history: the backups whose backup command has saved them
  faults    \* bound: commands that died so far

infoVars == <<list, torn, copy>>
walVars == <<wal, seg, id>>
vars == <<made, dir, list, torn, copy, wal, seg, id, cmd, mem, victims, then, doomed, complete, faults>>

\* A directory is being filled, complete, without some of its files but with
\* its manifest, or gone.
Dir == {"none", "part", "whole", "gutted"}
Cmd == {"idle", "copying", "waiting", "save", "saving", "expire", "removing", "wal"}

Init ==
  /\ made = <<>> /\ dir = [n \in Backup |-> "none"]
  /\ list = {} /\ torn = FALSE /\ copy = {}
  /\ wal = {} /\ seg = 1 /\ id = 1
  /\ cmd = "idle" /\ mem = {} /\ victims = {} /\ then = "idle"
  /\ doomed = {} /\ complete = {} /\ faults = 0

\* load_keyed: a primary that does not parse is read from its .copy.
Load == IF torn THEN copy ELSE list

Fulls(S) == {n \in S : made[n].type = "full"}
Newest(k, S) == {n \in S : Cardinality({m \in S : m > n}) < k}

-----------------------------------------------------------------------------
(* PostgreSQL and the stanza.                                              *)

\* A segment is filled and archived.
Archive ==
  /\ seg <= MaxSegments
  /\ wal' = wal \union {<<id, seg>>} /\ seg' = seg + 1
  /\ UNCHANGED <<made, dir, infoVars, id, cmd, mem, victims, then, doomed, complete, faults>>

\* pg_upgrade and stanza-upgrade, which saves backup.info with its .copy.
StanzaUpgrade ==
  /\ cmd = "idle" /\ id < MaxClusters
  /\ id' = id + 1 /\ copy' = Load /\ list' = Load /\ torn' = FALSE
  /\ UNCHANGED <<made, dir, wal, seg, cmd, mem, victims, then, doomed, complete, faults>>

-----------------------------------------------------------------------------
(* Saving backup.info.                                                     *)

\* Mutant: an encrypted backup.info is truncated in place too.
SaveBegin_inPlace ==
  /\ cmd = "save" /\ cmd' = "saving" /\ torn' = TRUE
  /\ UNCHANGED <<made, dir, list, copy, walVars, mem, victims, then, doomed, complete, faults>>

\* Encrypted: .copy and then the primary, each by an atomic rename.  Otherwise
\* the primary is truncated and written in place, and .copy is left alone.
SaveBegin ==
  /\ cmd = "save" /\ cmd' = "saving"
  /\ IF Encrypted THEN copy' = mem /\ torn' = torn ELSE copy' = copy /\ torn' = TRUE
  /\ UNCHANGED <<made, dir, list, walVars, mem, victims, then, doomed, complete, faults>>

SaveEnd ==
  /\ cmd = "saving" /\ cmd' = then
  /\ list' = mem /\ torn' = FALSE
  /\ complete' = complete \union (mem \ list)
  /\ UNCHANGED <<made, dir, copy, walVars, mem, victims, then, doomed, faults>>

\* annotate: backup.info is loaded and saved; it cannot read an encrypted one.
Annotate ==
  /\ cmd = "idle" /\ ~Encrypted /\ Load # {}
  /\ cmd' = "save" /\ mem' = Load /\ then' = "idle"
  /\ UNCHANGED <<made, dir, infoVars, walVars, victims, doomed, complete, faults>>

-----------------------------------------------------------------------------
(* backup.                                                                 *)

\* resolve_prior: the newest full for a diff, the newest backup for an incr; 0
\* when there is none, and then the backup becomes a full.
Prior(t) ==
  LET base == IF t = "diff" THEN Fulls(Load) ELSE IF t = "incr" THEN Load ELSE {}
  IN  IF base = {} THEN 0 ELSE Max(base)

\* Mutant: a full backup refers to an empty label.
Sources_zero(p) == IF p = 0 THEN {0} ELSE {p} \union made[p].uses

\* An unchanged file stays where the prior backup has it, which is the prior
\* backup itself or any backup whose files that one uses.
Sources(p) == IF p = 0 THEN {} ELSE {p} \union made[p].uses

\* The prior's manifest must be readable.
BackupBegin(t, online) ==
  LET n == Len(made) + 1
      p == Prior(t)
  IN  /\ cmd = "idle" /\ n \in Backup
      /\ p # 0 => dir[p] \in {"whole", "gutted"}
      /\ \E uses \in SUBSET Sources(p) :
           made' = Append(made, [type |-> IF p = 0 THEN "full" ELSE t, prior |-> p, uses |-> uses,
                                 start |-> IF online THEN seg ELSE 0, stop |-> 0, id |-> id])
      /\ dir' = [dir EXCEPT ![n] = "part"] /\ mem' = Load /\ cmd' = "copying"
      /\ UNCHANGED <<infoVars, walVars, victims, then, doomed, complete, faults>>

\* The files are copied and pg_backup_stop returns.
BackupStop ==
  LET n == Len(made)
  IN  /\ cmd = "copying" /\ cmd' = "waiting"
      /\ made' = [made EXCEPT ![n].stop = IF made[n].start # 0 THEN seg ELSE 0]
      /\ UNCHANGED <<dir, infoVars, walVars, mem, victims, then, doomed, complete, faults>>

\* Mutant: only the first segment is waited for.
Arrived_first(n) == made[n].start # 0 => <<made[n].id, made[n].start>> \in wal

\* wait_for_required_wal: every segment from start to stop is in the archive.
Arrived(n) == made[n].start # 0 => \A s \in made[n].start..made[n].stop : <<made[n].id, s>> \in wal

\* archive-timeout: the command ends and its directory stays behind.
BackupTimeout ==
  /\ cmd = "waiting" /\ ~Arrived(Len(made))
  /\ cmd' = "idle" /\ mem' = {}
  /\ UNCHANGED <<made, dir, infoVars, walVars, victims, then, doomed, complete, faults>>

\* Mutant: the list is read again only by the save, that is, not kept.
BackupEnd_forgets ==
  LET n == Len(made)
  IN  /\ cmd = "waiting" /\ Arrived(n)
      /\ dir' = [dir EXCEPT ![n] = "whole"]
      /\ mem' = {n} /\ cmd' = "save" /\ then' = IF ExpireAuto THEN "expire" ELSE "idle"
      /\ UNCHANGED <<made, infoVars, walVars, victims, doomed, complete, faults>>

\* The manifest is saved; backup.info and, with expire-auto, expire are next.
BackupEnd ==
  LET n == Len(made)
  IN  /\ cmd = "waiting" /\ Arrived(n)
      /\ dir' = [dir EXCEPT ![n] = "whole"]
      /\ mem' = mem \union {n} /\ cmd' = "save" /\ then' = IF ExpireAuto THEN "expire" ELSE "idle"
      /\ UNCHANGED <<made, infoVars, walVars, victims, doomed, complete, faults>>

-----------------------------------------------------------------------------
(* expire: which backups.                                                  *)

\* full_retention_keep.  Under time retention any point in time may be the
\* limit of the window, and the newest full stays when none is inside.
KeepFulls(since) ==
  LET inside == {n \in Fulls(Load) : n >= since}
  IN  IF FullType = "count" THEN Newest(RetainFull, Fulls(Load))
      ELSE IF inside = {} THEN Newest(1, Fulls(Load)) ELSE inside

\* Mutant: the backup at the limit goes too.
KeepChains_afterLimit(since) ==
  LET keep == KeepFulls(since)
  IN  keep \union {n \in Load \ Fulls(Load) : keep # {} /\ n > Min(keep) + 1}

\* Every diff and incr taken since the oldest full that is kept.
KeepChains(since) ==
  LET keep == KeepFulls(since)
  IN  keep \union {n \in Load \ Fulls(Load) : keep # {} /\ n >= Min(keep)}

\* apply_diff_retention: the older diffs go, and the incrs right on top of them.
DropDiffs(keep) ==
  LET diffs == {n \in keep : made[n].type = "diff"}
      old == diffs \ Newest(RetainDiff, diffs)
  IN  IF RetainDiff = Unset THEN {}
      ELSE old \union {n \in keep : made[n].type = "incr" /\ made[n].prior \in old}

Expired(since) ==
  IF RetainFull = Unset THEN {}
  ELSE Load \ (KeepChains(since) \ DropDiffs(KeepChains(since)))

\* Mutant: the backups on top of n are not looked for.
Dependents_alone(n) == {n}

\* dependent_closure: the least set that has n and every listed backup whose
\* prior it has.
Dependents(n) ==
  {m \in Load : \A S \in SUBSET Load :
     n \in S /\ (\A k \in Load : made[k].prior \in S => k \in S) => m \in S}

\* Mutant: the full backups are counted with the ones to be removed.
MaySet_countsAll(n) == n \in Load /\ made[n].type # "incr" /\ Fulls(Load) # {}

\* expire_adhoc_set: a full or a diff, and a full must remain.
MaySet(n) ==
  /\ n \in Load /\ made[n].type # "incr"
  /\ Fulls(Load) \ Dependents(n) # {}

\* expire_adhoc_oldest.
MayOldest(n) == Cardinality(Fulls(Load)) > 1 /\ n = Min(Fulls(Load))

\* Nothing is removed and nothing is saved when no backup expires.
ExpireBegin(S) ==
  /\ victims' = S /\ mem' = Load /\ doomed' = doomed \union S
  /\ cmd' = IF S = {} THEN "wal" ELSE "removing"
  /\ UNCHANGED <<made, dir, infoVars, walVars, then, complete, faults>>

\* expire, by itself or at the end of a backup.
Retention(since) == cmd \in {"idle", "expire"} /\ ExpireBegin(Expired(since))
ExpireSet(n) == "set" \in Adhoc /\ cmd = "idle" /\ MaySet(n) /\ ExpireBegin(Dependents(n))
ExpireOldest(n) == "oldest" \in Adhoc /\ cmd = "idle" /\ MayOldest(n) /\ ExpireBegin(Dependents(n))

\* Directories go one after the other, or several at a time.
MayRemove(n) ==
  /\ cmd = "removing" /\ n \in victims /\ dir[n] # "none"
  /\ Parallel \/ \A m \in victims : m < n => dir[m] = "none"

\* Some files of n are gone, its manifest is not.
RemoveSome(n) ==
  /\ MayRemove(n) /\ dir[n] # "gutted"
  /\ dir' = [dir EXCEPT ![n] = "gutted"]
  /\ UNCHANGED <<made, infoVars, walVars, cmd, mem, victims, then, doomed, complete, faults>>

RemoveAll(n) ==
  /\ MayRemove(n)
  /\ dir' = [dir EXCEPT ![n] = "none"]
  /\ UNCHANGED <<made, infoVars, walVars, cmd, mem, victims, then, doomed, complete, faults>>

\* Mutant: the list is saved with the removed backups still on it.
RemoveEnd_keepsList ==
  /\ cmd = "removing" /\ \A n \in victims : dir[n] = "none"
  /\ mem' = mem /\ cmd' = "save" /\ then' = "wal"
  /\ UNCHANGED <<made, dir, infoVars, walVars, victims, doomed, complete, faults>>

\* Only then is the list saved without them.
RemoveEnd ==
  /\ cmd = "removing" /\ \A n \in victims : dir[n] = "none"
  /\ mem' = mem \ victims /\ cmd' = "save" /\ then' = "wal"
  /\ UNCHANGED <<made, dir, infoVars, walVars, victims, doomed, complete, faults>>

-----------------------------------------------------------------------------
(* expire: which WAL, compute_archive_plan.                                *)

Anchors(S) == {n \in S : made[n].type \in WalType}
Local(S, i) == {n \in S : made[n].id = i}

\* Mutant: the newest backup of the cluster, whether it counts or not.
RetentionBackup_newest(S, i) == Max(Local(S, i))

\* The oldest of the counted backups among those of cluster i, or i's newest.
RetentionBackup(S, i) ==
  LET counted == Newest(RetainWal, Anchors(S)) \intersect Local(S, i)
  IN  IF counted = {} THEN Max(Local(S, i)) ELSE Min(counted)

\* Mutant: backups older than the retention backup do not keep their WAL.
InRanges_retentionOnly(S, w) ==
  LET last == RetentionBackup(S, w[1])
  IN  made[last].start # 0 /\ made[last].start <= w[2]

\* segment_in_ranges: from the retention backup's start on, and from start to
\* stop of every older backup of the cluster.
InRanges(S, w) ==
  LET last == RetentionBackup(S, w[1])
  IN  \E n \in Local(S, w[1]) :
        /\ n <= last /\ made[n].start # 0 /\ made[n].start <= w[2]
        /\ n = last \/ w[2] <= made[n].stop

\* A cluster without backups loses all its WAL unless it is the current one;
\* one whose retention backup was taken offline keeps it all.
Expendable(S) ==
  {w \in wal :
     /\ RetainWal # Unset /\ Anchors(S) # {} /\ RetainWal <= Cardinality(Anchors(S))
     /\ IF Local(S, w[1]) = {} THEN w[1] # id
        ELSE made[RetentionBackup(S, w[1])].start # 0 /\ ~InRanges(S, w)}

WalRemove(w) ==
  /\ cmd = "wal" /\ w \in Expendable(mem)
  /\ wal' = wal \ {w}
  /\ UNCHANGED <<made, dir, infoVars, seg, id, cmd, mem, victims, then, doomed, complete, faults>>

ExpireEnd ==
  /\ cmd = "wal" /\ Expendable(mem) = {}
  /\ cmd' = "idle" /\ victims' = {} /\ mem' = {}
  /\ UNCHANGED <<made, dir, infoVars, walVars, then, doomed, complete, faults>>

-----------------------------------------------------------------------------
\* The command is killed, or a timeout or an I/O error ends it.
Die ==
  /\ cmd # "idle" /\ faults < MaxFaults
  /\ cmd' = "idle" /\ victims' = {} /\ mem' = {} /\ faults' = faults + 1
  /\ UNCHANGED <<made, dir, infoVars, walVars, then, doomed, complete>>

Save == SaveBegin \/ SaveEnd
BackupStep == BackupStop \/ BackupTimeout \/ BackupEnd
BackupStart == \E t \in Type : BackupBegin(t, TRUE) \/ (Offline /\ BackupBegin(t, FALSE))
ExpireStep ==
  \/ \E n \in Backup : RemoveSome(n) \/ RemoveAll(n)
  \/ RemoveEnd \/ ExpireEnd
  \/ \E w \in wal : WalRemove(w)
ExpireStart == \E since \in (IF FullType = "time" THEN 1..(MaxBackups + 1) ELSE {1}) : Retention(since)

Next ==
  \/ Archive \/ StanzaUpgrade \/ Annotate
  \/ BackupStart \/ BackupStep \/ Save
  \/ ExpireStart \/ ExpireStep
  \/ \E n \in Backup : ExpireSet(n) \/ ExpireOldest(n)
  \/ Die

Spec == Init /\ [][Next]_vars

\* expire is run again and again, and a running command goes on.
FairSpec == Spec /\ WF_vars(Save \/ BackupStep \/ ExpireStep) /\ WF_vars(ExpireStart) /\ WF_vars(Archive)

-----------------------------------------------------------------------------
(* Properties.                                                             *)

Entry == [type : Type, prior : Nat, uses : SUBSET Backup, start : Nat, stop : Nat, id : Nat]

\* Every variable stays in its domain.
TypeOK ==
  /\ made \in Seq(Entry) /\ Len(made) <= MaxBackups /\ dir \in [Backup -> Dir]
  /\ list \subseteq Backup /\ torn \in BOOLEAN /\ copy \subseteq Backup
  /\ wal \subseteq (1..MaxClusters) \X (1..MaxSegments) /\ seg \in 1..(MaxSegments + 1) /\ id \in 1..MaxClusters
  /\ cmd \in Cmd /\ mem \subseteq Backup /\ victims \subseteq Backup /\ then \in Cmd
  /\ doomed \subseteq Backup /\ complete \subseteq Backup /\ faults \in 0..MaxFaults

Restorable(n) == dir[n] = "whole" /\ \A m \in made[n].uses : dir[m] = "whole"

\* "When a full backup expires, all differential and incremental backups
\* associated with the full backup will also expire", and with --set a backup
\* goes with all that depends on it: a listed backup that no expire has chosen
\* has all its files, those in other backups of its chain too.  It fails with
\* repo-retention-diff, and after an expire --set that died.
KeptAreRestorable == \A n \in Load \ doomed : Restorable(n)

\* A backup command's success is for good: until an expire chooses it, the
\* backup is listed, whatever dies while backup.info is rewritten.
CompleteAreListed == cmd = "idle" => complete \ doomed \subseteq Load

\* A listed backup can be made consistent: the WAL from its start to its stop
\* is in the archive, through upgrades, retention and pushes in between.
KeptHaveTheirWal ==
  \A n \in Load \ doomed : made[n].start # 0 =>
    \A s \in made[n].start..made[n].stop : <<made[n].id, s>> \in wal

\* repo-retention-archive: the backups that count, and the newest backup of an
\* older cluster, can still be rolled forward to the end of their WAL: expire
\* removes no segment that follows the start of one of them.
RollForwardKept ==
  [][\A w \in wal \ wal' : \A n \in mem :
       /\ made[n].id = w[1] /\ made[n].start # 0
       /\ n \in Newest(RetainWal, Anchors(mem)) \/ n = Max(Local(mem, w[1]))
       => w[2] < made[n].start]_vars

\* "at least one full backup must remain in the repository": once a full has
\* completed, no backup and no expire leaves the repository without one that is
\* listed and has its files, by its end or, in an encrypted repository and
\* short of expire --set, by its death.
OneFullRemains == cmd = "idle" /\ Fulls(complete) # {} => \E n \in Fulls(Load) : Restorable(n)

\* What an expire that died has begun, a later one finishes: no backup stays
\* listed for ever after its files are gone.
ExpireFinishes == \A n \in Backup : n \in doomed ~> n \notin Load
=============================================================================
