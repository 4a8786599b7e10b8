-------------------------- MODULE ArchivePushProofs --------------------------
(***************************************************************************)
(* What archive-push guarantees for any number of files, repositories,     *)
(* workers and faults, in synchronous and in asynchronous mode.            *)
(***************************************************************************)
EXTENDS ArchivePush, TLAPS

\* What a finished copy stands for.
CopiesTrue ==
  \A f \in File, r \in Repo : wr[f][r] = "done" =>
    /\ repo[r][f] = "whole" \/ f \in tainted
    /\ Async /\ out[f] # "none" => repo[r][f] = out[f]

\* A staged copy is there until the file is in every repository.
StagedWhileCopied ==
  Async => \A f \in unmarked : out[f] # "none" \/ Copied(f)

\* A file with a .ok status has left the spool and is in every repository.
OkTrue ==
  \A f \in okf :
    /\ out[f] = "none" /\ f \notin unmarked
    /\ Archived(f) \/ f \in tainted

\* Nothing is staged or copied of a file PostgreSQL may recycle, but for the
\* files the queue limit dropped.
AckedTrue ==
  \A f \in acked \ (ready \union dropped) :
    /\ out[f] = "none" /\ f \notin unmarked
    /\ Archived(f) \/ f \in tainted

\* Where the running command is, and what it knows of its own file.
CommandTrue ==
  /\ pc # "idle" => cur \in ready
  /\ pc \notin {"copy"} => unmarked = {} /\ wr = NoCopy
  /\ pc \in {"stage", "staging"} => cur \notin okf
  /\ Async /\ pc = "copy" => cur \in unmarked \union okf \union errf
  /\ ~Async /\ pc = "copy" => unmarked = {cur}
  /\ pc = "result" => cur \in okf \union errf
  /\ pc = "ok" /\ cur \notin dropped =>
       /\ out[cur] = "none"
       /\ Archived(cur) \/ cur \in tainted

\* In synchronous mode the spool is not used.
SpoolUnused ==
  ~Async => /\ \A f \in File : out[f] = "none"
            /\ okf = {} /\ pc \notin {"consume", "stage", "staging", "result"}

IndInv ==
  /\ TypeOK
  /\ CopiesTrue
  /\ StagedWhileCopied
  /\ OkTrue
  /\ AckedTrue
  /\ CommandTrue
  /\ SpoolUnused

-----------------------------------------------------------------------------

\* Initially nothing exists and nothing runs.
LEMMA InitInv == Init => IndInv
  <1> SUFFICES ASSUME Init PROVE IndInv
    OBVIOUS
  <1>1. TypeOK
    BY FaultAssumption, NoFileAssumption DEF Init, TypeOK, Content, PC, CopyState, NoCopy
  <1>2. CopiesTrue /\ StagedWhileCopied /\ OkTrue /\ AckedTrue /\ CommandTrue /\ SpoolUnused
    BY DEF Init, CopiesTrue, StagedWhileCopied, OkTrue, AckedTrue, CommandTrue, SpoolUnused, NoCopy
  <1> QED
    BY <1>1, <1>2 DEF IndInv

\* What PostgreSQL does changes neither the spool nor the repositories.
LEMMA PostgresStep ==
  ASSUME IndInv, NEW f \in File, Generate(f) \/ Recycle(f) \/ Forget(f) \/ Invoke(f)
  PROVE  IndInv'
  <1>1. UNCHANGED <<acked, out, okf, errf, repo, batch, unmarked, wr, dropped, tainted>>
    BY DEF Generate, Recycle, Forget, Invoke, spoolVars, pgVars
  <1>2. TypeOK'
    <2>1. CASE Generate(f)
      BY <2>1 DEF IndInv, TypeOK, Generate, spoolVars
    <2>2. CASE Recycle(f)
      BY <2>2 DEF IndInv, TypeOK, Recycle, spoolVars
    <2>3. CASE Forget(f)
      BY <2>3, FaultAssumption DEF IndInv, TypeOK, Forget, spoolVars
    <2>4. CASE Invoke(f)
      BY <2>4, NoFileAssumption DEF IndInv, TypeOK, Invoke, PC, spoolVars, pgVars
    <2> QED
      BY <2>1, <2>2, <2>3, <2>4
  <1>3. CopiesTrue' /\ StagedWhileCopied' /\ OkTrue'
    BY <1>1 DEF IndInv, CopiesTrue, StagedWhileCopied, OkTrue, Copied, Archived
  <1>4. ready \subseteq ready'
    BY DEF Generate, Recycle, Forget, Invoke, pgVars
  <1>5. AckedTrue'
    BY <1>1, <1>4 DEF IndInv, AckedTrue, Archived
  <1>6. \/ UNCHANGED <<pc, cur>>
        \/ pc = "idle" /\ pc' = "check" /\ cur' \in ready'
    BY DEF Generate, Recycle, Forget, Invoke, pgVars
  <1>7. CommandTrue' /\ SpoolUnused'
    BY <1>1, <1>4, <1>6 DEF IndInv, CommandTrue, SpoolUnused, Archived
  <1> QED
    BY <1>2, <1>3, <1>5, <1>7 DEF IndInv

\* The queue check.
LEMMA CheckStep ==
  ASSUME IndInv, Check
  PROVE  IndInv'
  <1>1. /\ UNCHANGED <<wal, ready, acked, out, okf, errf, repo, cur, wr, tainted, faults>>
        /\ pc = "check" /\ unmarked' = batch' /\ dropped \subseteq dropped'
        /\ dropped' \subseteq dropped \union {cur}
        /\ \/ pc' = "ok" /\ cur \in dropped' /\ batch' = {}
           \/ Async /\ pc' = "consume" /\ batch' = {}
           \/ ~Async /\ pc' = "copy" /\ batch' = {cur}
    BY DEF Check, pgVars, spoolVars
  <1>2. cur \in File /\ cur \in ready /\ wr = NoCopy /\ unmarked = {}
    BY <1>1 DEF IndInv, TypeOK, CommandTrue
  <1>3. TypeOK'
    BY <1>1, <1>2 DEF IndInv, TypeOK, PC
  <1>4. CopiesTrue' /\ StagedWhileCopied'
    BY <1>1, <1>2 DEF IndInv, CopiesTrue, StagedWhileCopied
  <1>5. OkTrue' /\ AckedTrue'
    BY <1>1, <1>2 DEF IndInv, OkTrue, AckedTrue, SpoolUnused, Archived
  <1>6. CommandTrue' /\ SpoolUnused'
    BY <1>1, <1>2 DEF IndInv, CommandTrue, SpoolUnused
  <1> QED
    BY <1>3, <1>4, <1>5, <1>6 DEF IndInv

\* Reading a status, before the file is staged and after the drain.
LEMMA StatusStep ==
  ASSUME IndInv, Consume \/ Result
  PROVE  IndInv'
  <1>1. /\ UNCHANGED <<wal, ready, acked, out, repo, cur, batch, unmarked, wr, dropped, tainted, faults>>
        /\ pc \in {"consume", "result"}
        /\ okf' \subseteq okf /\ errf' \subseteq errf
        /\ \/ pc' = "ok" /\ cur \in okf
           \/ pc' = "err"
           \/ pc = "consume" /\ pc' = "stage" /\ cur \notin okf'
    BY DEF IndInv, CommandTrue, Consume, Result, ConsumeStatus, pgVars
  <1>2. TypeOK'
    BY <1>1 DEF IndInv, TypeOK, PC
  <1>3. CopiesTrue' /\ StagedWhileCopied' /\ OkTrue' /\ AckedTrue'
    BY <1>1 DEF IndInv, CopiesTrue, StagedWhileCopied, OkTrue, AckedTrue, Archived, Copied
  <1>4. CommandTrue' /\ SpoolUnused'
    BY <1>1 DEF IndInv, CommandTrue, SpoolUnused, OkTrue, Archived
  <1> QED
    BY <1>2, <1>3, <1>4 DEF IndInv

\* Staging the file.
LEMMA StageStep ==
  ASSUME IndInv, StageStart \/ StageEnd
  PROVE  IndInv'
  <1>0. ASSUME StageEnd
        PROVE  batch' = {f \in File : f = cur \/ out[f] # "none"}
    <2>1. cur \in File /\ out \in [File -> Content]
      BY <1>0 DEF IndInv, TypeOK, StageEnd
    <2>2. \A f \in File : out'[f] # "none" <=> f = cur \/ out[f] # "none"
      BY <1>0, <2>1 DEF StageEnd
    <2> QED
      BY <1>0, <2>2 DEF StageEnd, Listed
  <1>1. /\ UNCHANGED <<wal, ready, acked, okf, errf, repo, cur, wr, dropped, tainted, faults>>
        /\ \/ /\ pc = "stage" /\ pc' = "staging" /\ UNCHANGED <<batch, unmarked>>
              /\ out' = [out EXCEPT ![cur] = "torn"]
           \/ /\ pc = "staging" /\ pc' = "copy" /\ unmarked' = batch'
              /\ batch' = {f \in File : f = cur \/ out[f] # "none"}
              /\ out' = [out EXCEPT ![cur] = "whole"]
    <2>1. CASE StageStart
      BY <2>1 DEF StageStart, pgVars
    <2>2. CASE StageEnd
      BY <2>2, <1>0 DEF StageEnd, pgVars
    <2> QED
      BY <2>1, <2>2
  <1>2. /\ Async /\ cur \in File /\ cur \in ready /\ cur \notin okf
        /\ wr = NoCopy /\ unmarked = {}
    BY <1>1 DEF IndInv, TypeOK, CommandTrue, SpoolUnused
  <1>3. TypeOK'
    BY <1>1, <1>2 DEF IndInv, TypeOK, PC, Content
  <1>4. \A f \in File : f # cur => out'[f] = out[f]
    BY <1>1 DEF IndInv, TypeOK
  <1>5. out'[cur] # "none"
    BY <1>1, <1>2 DEF IndInv, TypeOK
  <1>6. CopiesTrue'
    BY <1>1, <1>2 DEF CopiesTrue, NoCopy
  <1>7. StagedWhileCopied'
    BY <1>1, <1>2, <1>4, <1>5 DEF StagedWhileCopied
  <1>8. OkTrue' /\ AckedTrue'
    BY <1>1, <1>2, <1>4 DEF IndInv, TypeOK, OkTrue, AckedTrue, Archived
  <1>9. CommandTrue' /\ SpoolUnused'
    BY <1>1, <1>2 DEF IndInv, CommandTrue, SpoolUnused
  <1> QED
    BY <1>3, <1>6, <1>7, <1>8, <1>9 DEF IndInv

\* A copy begins, ends or fails.
LEMMA CopyStep ==
  ASSUME IndInv, NEW f \in File, NEW r \in Repo,
         CopyStart(f, r) \/ CopyEnd(f, r) \/ CopyFail(f, r)
  PROVE  IndInv'
  <1>1. /\ UNCHANGED <<wal, ready, acked, out, okf, errf, pc, cur, batch, unmarked, dropped>>
        /\ pc = "copy" /\ f \in unmarked /\ wr[f][r] \in {"todo", "busy"}
        /\ tainted \subseteq tainted' /\ tainted' \subseteq tainted \union {f}
    BY DEF CopyStart, CopyEnd, CopyFail, MayCopy, pgVars, spoolVars
  <1>2. \/ /\ repo' = [repo EXCEPT ![r][f] = "torn"] /\ wr' = [wr EXCEPT ![f][r] = "busy"]
           /\ faults' = faults
        \/ /\ repo' = [repo EXCEPT ![r][f] = Source(f)] /\ wr' = [wr EXCEPT ![f][r] = "done"]
           /\ (Source(f) = "torn" => f \in tainted') /\ faults' = faults
        \/ /\ repo' = repo /\ wr' = [wr EXCEPT ![f][r] = "failed"]
           /\ faults < MaxFaults /\ faults' = faults + 1
    BY DEF CopyStart, CopyEnd, CopyFail
  <1>3. ~Copied(f)
    BY <1>1 DEF Copied
  <1>4. Source(f) \in {"torn", "whole"} /\ (Async => Source(f) = out[f])
    BY <1>1, <1>3 DEF IndInv, TypeOK, Content, StagedWhileCopied, Source
  <1>5. TypeOK'
    <2>1. repo' \in [Repo -> [File -> Content]]
      <3>1. repo \in [Repo -> [File -> Content]]
        BY DEF IndInv, TypeOK
      <3>2. \A x \in Content : [repo EXCEPT ![r][f] = x] \in [Repo -> [File -> Content]]
        BY <3>1
      <3>3. Source(f) \in Content /\ "torn" \in Content
        BY <1>4 DEF Content
      <3> QED
        BY <1>2, <3>1, <3>2, <3>3
    <2>2. wr' \in [File -> [Repo -> CopyState]]
      <3>1. wr \in [File -> [Repo -> CopyState]]
        BY DEF IndInv, TypeOK
      <3>2. \A x \in CopyState : [wr EXCEPT ![f][r] = x] \in [File -> [Repo -> CopyState]]
        BY <3>1
      <3>3. {"busy", "done", "failed"} \subseteq CopyState
        BY DEF CopyState
      <3> QED
        BY <1>2, <3>2, <3>3
    <2>3. faults' \in 0..MaxFaults
      BY <1>2, FaultAssumption DEF IndInv, TypeOK
    <2> QED
      BY <1>1, <2>1, <2>2, <2>3 DEF IndInv, TypeOK
  <1>6. \A g \in File, q \in Repo : g # f \/ q # r => wr'[g][q] = wr[g][q] /\ repo'[q][g] = repo[q][g]
    BY <1>2 DEF IndInv, TypeOK
  <1>7. wr'[f][r] = "done" => repo'[r][f] = Source(f) /\ (Source(f) = "torn" => f \in tainted')
    BY <1>2 DEF IndInv, TypeOK
  <1>8. CopiesTrue'
    <2> SUFFICES ASSUME NEW g \in File, NEW q \in Repo, wr'[g][q] = "done"
                 PROVE  /\ repo'[q][g] = "whole" \/ g \in tainted'
                        /\ Async /\ out'[g] # "none" => repo'[q][g] = out'[g]
      BY DEF CopiesTrue
    <2>1. CASE g = f /\ q = r
      BY <1>1, <1>4, <1>7, <2>1
    <2>2. CASE g # f \/ q # r
      BY <1>1, <1>6, <2>2 DEF IndInv, CopiesTrue
    <2> QED
      BY <2>1, <2>2
  <1>9. StagedWhileCopied'
    BY <1>1, <1>3, <1>6 DEF IndInv, TypeOK, StagedWhileCopied, Copied
  <1>10. OkTrue' /\ AckedTrue'
    <2>1. f \notin okf /\ f \notin acked \ (ready \union dropped)
      BY <1>1 DEF IndInv, OkTrue, AckedTrue
    <2>2. \A g \in File \ {f} : Archived(g) => Archived(g)'
      BY <1>6 DEF Archived
    <2> QED
      BY <1>1, <2>1, <2>2 DEF IndInv, TypeOK, OkTrue, AckedTrue
  <1>11. CommandTrue' /\ SpoolUnused'
    BY <1>1 DEF IndInv, CommandTrue, SpoolUnused
  <1> QED
    BY <1>5, <1>8, <1>9, <1>10, <1>11 DEF IndInv

\* The staged copy of a file that is in every repository is removed.
LEMMA RemoveStagedStep ==
  ASSUME IndInv, NEW f \in File, RemoveStaged(f)
  PROVE  IndInv'
  <1>1. /\ UNCHANGED <<wal, ready, acked, okf, errf, repo, pc, cur, batch, unmarked, wr, dropped,
                       tainted, faults>>
        /\ out' = [out EXCEPT ![f] = "none"]
        /\ Async /\ pc = "copy" /\ f \in unmarked /\ Copied(f)
    BY DEF RemoveStaged, MayMark, pgVars
  <1>2. TypeOK'
    BY <1>1 DEF IndInv, TypeOK, Content
  <1>3. \A g \in File : out'[g] = IF g = f THEN "none" ELSE out[g]
    BY <1>1 DEF IndInv, TypeOK
  <1>4. CopiesTrue' /\ StagedWhileCopied' /\ OkTrue' /\ AckedTrue'
    BY <1>1, <1>3 DEF IndInv, TypeOK, CopiesTrue, StagedWhileCopied, OkTrue, AckedTrue, Archived, Copied
  <1>5. CommandTrue' /\ SpoolUnused'
    BY <1>1 DEF IndInv, CommandTrue, SpoolUnused
  <1> QED
    BY <1>2, <1>4, <1>5 DEF IndInv

\* A status is written.
LEMMA MarkStep ==
  ASSUME IndInv, NEW f \in File, MarkOk(f) \/ MarkError(f)
  PROVE  IndInv'
  <1>1. /\ UNCHANGED <<wal, ready, acked, out, repo, pc, cur, batch, wr, dropped, tainted, faults>>
        /\ Async /\ pc = "copy" /\ f \in unmarked /\ unmarked' = unmarked \ {f}
        /\ \/ okf' = okf \union {f} /\ errf' = errf /\ Copied(f) /\ out[f] = "none"
           \/ okf' = okf /\ errf' = errf \union {f}
    BY DEF MarkOk, MarkError, MayMark, pgVars
  <1>2. TypeOK'
    BY <1>1 DEF IndInv, TypeOK
  <1>3. CopiesTrue' /\ StagedWhileCopied' /\ AckedTrue'
    BY <1>1 DEF IndInv, CopiesTrue, StagedWhileCopied, AckedTrue, Archived, Copied
  <1>4. Copied(f) => Archived(f) \/ f \in tainted
    BY DEF IndInv, CopiesTrue, Copied, Archived
  <1>5. OkTrue'
    BY <1>1, <1>4 DEF IndInv, OkTrue, Archived
  <1>6. CommandTrue' /\ SpoolUnused'
    BY <1>1 DEF IndInv, CommandTrue, SpoolUnused
  <1> QED
    BY <1>2, <1>3, <1>5, <1>6 DEF IndInv

\* The copies are over.
LEMMA CopiesOverStep ==
  ASSUME IndInv, CopiesOver
  PROVE  IndInv'
  <1>1. /\ UNCHANGED <<wal, ready, acked, out, okf, errf, repo, cur, dropped, tainted, faults>>
        /\ pc = "copy" /\ wr' = NoCopy /\ batch' = {} /\ unmarked' = {}
        /\ \/ Async /\ unmarked = {} /\ pc' = "result"
           \/ ~Async /\ pc' = "ok" /\ Copied(cur)
           \/ ~Async /\ pc' = "err"
    BY DEF CopiesOver, pgVars, spoolVars
  <1>2. cur \in File
    BY <1>1 DEF IndInv, TypeOK
  <1>3. TypeOK'
    BY <1>1 DEF IndInv, TypeOK, PC, NoCopy, CopyState
  <1>4. CopiesTrue' /\ StagedWhileCopied' /\ OkTrue' /\ AckedTrue'
    BY <1>1 DEF IndInv, CopiesTrue, StagedWhileCopied, OkTrue, AckedTrue, Archived, NoCopy
  <1>5. Copied(cur) => Archived(cur) \/ cur \in tainted
    BY <1>2 DEF IndInv, CopiesTrue, Copied, Archived
  <1>6. CommandTrue' /\ SpoolUnused'
    BY <1>1, <1>2, <1>5 DEF IndInv, CommandTrue, SpoolUnused, Archived
  <1> QED
    BY <1>3, <1>4, <1>6 DEF IndInv

\* The command exits, or dies.
LEMMA ExitStep ==
  ASSUME IndInv, Exit \/ Abort
  PROVE  IndInv'
  <1>1. /\ UNCHANGED <<wal, out, okf, errf, repo, dropped, tainted>>
        /\ pc # "idle" /\ pc' = "idle" /\ cur' = NoFile
        /\ \/ pc = "ok" /\ ready' = ready \ {cur} /\ acked' = acked \union {cur}
           \/ ready' = ready /\ acked' = acked
        /\ \/ pc \in {"ok", "err"} /\ UNCHANGED <<batch, unmarked, wr, faults>>
           \/ /\ batch' = {} /\ unmarked' = {} /\ wr' = NoCopy
              /\ faults < MaxFaults /\ faults' = faults + 1
    BY DEF Exit, Abort, pgVars, spoolVars
  <1>2. cur \in File
    BY <1>1 DEF IndInv, TypeOK
  <1>3. unmarked' = {} /\ wr' = NoCopy
    BY <1>1 DEF IndInv, CommandTrue
  <1>4. TypeOK'
    <2>1. faults' \in 0..MaxFaults
      BY <1>1, FaultAssumption DEF IndInv, TypeOK
    <2>2. wr' \in [File -> [Repo -> CopyState]]
      BY <1>3 DEF NoCopy, CopyState
    <2> QED
      BY <1>1, <1>2, <1>3, <2>1, <2>2 DEF IndInv, TypeOK, PC
  <1>5. CopiesTrue' /\ StagedWhileCopied' /\ OkTrue'
    BY <1>1, <1>3 DEF IndInv, CopiesTrue, StagedWhileCopied, OkTrue, Archived, NoCopy
  <1>6. AckedTrue'
    BY <1>1, <1>2, <1>3 DEF IndInv, AckedTrue, CommandTrue, Archived
  <1>7. CommandTrue' /\ SpoolUnused'
    BY <1>1, <1>3 DEF IndInv, CommandTrue, SpoolUnused
  <1> QED
    BY <1>4, <1>5, <1>6, <1>7 DEF IndInv

LEMMA NextInv == IndInv /\ [Next]_vars => IndInv'
  <1> SUFFICES ASSUME IndInv, [Next]_vars PROVE IndInv'
    OBVIOUS
  <1>1. CASE \E f \in File : Generate(f) \/ Recycle(f) \/ Invoke(f)
    BY <1>1, PostgresStep
  <1>2. CASE Push
    BY <1>2, CheckStep, StatusStep, StageStep, CopyStep, RemoveStagedStep, MarkStep,
       CopiesOverStep, ExitStep DEF Push
  <1>3. CASE Fault
    BY <1>3, ExitStep, CopyStep, PostgresStep DEF Fault
  <1>4. CASE UNCHANGED vars
    BY <1>4 DEF vars, IndInv, TypeOK, CopiesTrue, StagedWhileCopied, OkTrue, AckedTrue, CommandTrue,
                SpoolUnused, Archived, Copied
  <1> QED
    BY <1>1, <1>2, <1>3, <1>4 DEF Next

-----------------------------------------------------------------------------
(* The theorems.                                                           *)

\* The invariant holds in every reachable state.
LEMMA Invariance == Spec => []IndInv
  BY InitInv, NextInv, PTL DEF Spec

\* Every variable of archive-push's model stays in its domain.
THEOREM TypeCorrect == Spec => []TypeOK
  <1>1. IndInv => TypeOK
    BY DEF IndInv
  <1> QED
    BY Invariance, <1>1, PTL

\* A file PostgreSQL was told is archived is intact in every repository, unless
\* the limit dropped it or a torn staged copy of it was drained.
THEOREM AckedSafe == Spec => []AckedIsArchivedUnlessTorn
  <1>1. IndInv => AckedIsArchivedUnlessTorn
    BY DEF IndInv, AckedTrue, AckedIsArchivedUnlessTorn
  <1> QED
    BY Invariance, <1>1, PTL

\* A .ok status in the spool never lies, however old it is.
THEOREM StatusSafe == Spec => []StatusIsTrue
  <1>1. IndInv => StatusIsTrue
    BY DEF IndInv, OkTrue, StatusIsTrue
  <1> QED
    BY Invariance, <1>1, PTL

\* drain_out_spool never removes the staged copy of a file before every
\* repository has that copy.
THEOREM StagedSafe == Spec => StagedKeptUntilArchived
  <1>1. IndInv /\ [Next]_vars =>
          [\A f \in File : out[f] = "whole" /\ out'[f] = "none" => Archived(f)]_vars
    <2> SUFFICES ASSUME IndInv, Next, NEW f \in File, out[f] = "whole", out'[f] = "none"
                 PROVE  Archived(f)
      OBVIOUS
    <2>1. RemoveStaged(f)
      <3>1. \A g \in File : RemoveStaged(g) => g = f
        BY DEF RemoveStaged, IndInv, TypeOK
      <3>2. ~StageStart /\ ~StageEnd
        BY DEF StageStart, StageEnd, IndInv, TypeOK
      <3>3. CASE \E g \in File : RemoveStaged(g)
        BY <3>1, <3>3
      <3>4. CASE ~ \E g \in File : RemoveStaged(g)
        <4>1. UNCHANGED out
          BY <3>2, <3>4 DEF Next, Push, Fault, Generate, Recycle, Invoke, Forget, Check, Consume,
             Result, ConsumeStatus, CopyStart, CopyEnd, CopyFail, MarkOk, MarkError, CopiesOver,
             Exit, Abort, pgVars, spoolVars
        <4> QED
          BY <4>1
      <3> QED
        BY <3>3, <3>4
    <2>2. Async /\ Copied(f)
      BY <2>1 DEF RemoveStaged, MayMark
    <2> QED
      BY <2>2 DEF IndInv, CopiesTrue, Copied, Archived
  <1> QED
    BY Invariance, <1>1, PTL DEF Spec, StagedKeptUntilArchived
=============================================================================
