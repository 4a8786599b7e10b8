-------------------------- MODULE BackupSetProofs ---------------------------
(***************************************************************************)
(* Proofs about BackupSet, for any retention options, any number of        *)
(* backups, segments and clusters, and commands that die anywhere.         *)
(***************************************************************************)
EXTENDS BackupSet, WellFoundedInduction, TLAPS

\* Whatever a command knows of has been begun, and the backup that is being
\* taken is not listed yet.
Known == list \union copy \union mem \union victims \subseteq 1..Len(made)
Unlisted == cmd \in {"copying", "waiting"} => Len(made) > 0 /\ Len(made) \notin list \union mem
Follows == then \in {"idle", "expire", "wal"}

\* Online backups start where PostgreSQL is, so that their starts are ordered.
Ordered ==
  /\ \A i \in 1..Len(made) : made[i].start <= seg
  /\ \A i, j \in 1..Len(made) :
       i < j /\ made[i].start # 0 /\ made[j].start # 0 => made[i].start <= made[j].start

Shape == TypeOK /\ Known /\ Unlisted /\ Follows /\ Ordered

-----------------------------------------------------------------------------
(* Least and greatest elements.                                            *)

LEMMA LeastExists ==
  ASSUME NEW S \in SUBSET Nat, S # {}
  PROVE  \E x \in S : \A y \in S : x <= y
  <1>1. PICK x \in S : \A y \in S : ~(<<y, x>> \in OpToRel(<, Nat))
    BY WFMin, NatLessThanWellFounded
  <1>2. \A y \in S : y \in Nat /\ x \in Nat /\ (y < x => <<y, x>> \in OpToRel(<, Nat))
    BY DEF OpToRel
  <1>3. \A y \in S : ~(y < x)
    BY <1>1, <1>2
  <1>4. \A y \in S : x <= y
    <2> SUFFICES ASSUME NEW y \in S PROVE x <= y
      OBVIOUS
    <2>1. x \in Nat /\ y \in Nat /\ ~(y < x)
      BY <1>2, <1>3
    <2> QED BY <2>1
  <1> QED BY <1>4

LEMMA MinIsLeast ==
  ASSUME NEW S \in SUBSET Nat, S # {}
  PROVE  Min(S) \in S /\ \A y \in S : Min(S) <= y
  <1>1. \E x \in S : \A y \in S : x =< y
    BY LeastExists
  <1> QED BY <1>1 DEF Min

LEMMA MaxIsGreatest ==
  ASSUME NEW k \in Nat, NEW S \in SUBSET (1..k), S # {}
  PROVE  Max(S) \in S /\ \A y \in S : Max(S) >= y
  <1> DEFINE D == {k - x : x \in S}
  <1>1. D \in SUBSET Nat /\ D # {}
    <2>1. \A x \in S : k - x \in Nat
      OBVIOUS
    <2>2. PICK x \in S : TRUE
      OBVIOUS
    <2>3. k - x \in D
      OBVIOUS
    <2> QED BY <2>1, <2>3
  <1>2. PICK d \in D : \A e \in D : d <= e
    BY <1>1, LeastExists
  <1>3. PICK x \in S : d = k - x
    BY <1>2
  <1>4. \A y \in S : y \in Nat /\ x \in Nat /\ k - x <= k - y
    BY <1>2, <1>3
  <1>5. \A y \in S : x >= y
    BY <1>4
  <1> QED BY <1>5 DEF Max

-----------------------------------------------------------------------------
(* The sequence of backups.                                                *)

LEMMA AppendMade ==
  ASSUME NEW s \in Seq(Entry), NEW e \in Entry
  PROVE  /\ Append(s, e) \in Seq(Entry) /\ Len(Append(s, e)) = Len(s) + 1
         /\ Append(s, e)[Len(s) + 1] = e
         /\ \A i \in 1..Len(s) : Append(s, e)[i] = s[i]
  OBVIOUS

LEMMA StopMade ==
  ASSUME NEW s \in Seq(Entry), NEW n \in 1..Len(s), NEW v \in Nat
  PROVE  LET t == [s EXCEPT ![n].stop = v]
         IN  /\ t \in Seq(Entry) /\ Len(t) = Len(s)
             /\ \A i \in 1..Len(s) : t[i].start = s[i].start
             /\ \A i \in (1..Len(s)) \ {n} : t[i] = s[i]
  <1> DEFINE e == [s[n] EXCEPT !.stop = v]
             t == [s EXCEPT ![n].stop = v]
  <1>1. s[n] \in Entry
    OBVIOUS
  <1>2. e \in Entry /\ e.start = s[n].start
    BY <1>1 DEF Entry
  <1>3. t = [s EXCEPT ![n] = e]
    OBVIOUS
  <1> HIDE DEF e, t
  <1>4. t \in Seq(Entry) /\ Len(t) = Len(s)
    BY <1>2, <1>3
  <1>5. \A i \in 1..Len(s) : t[i] = IF i = n THEN e ELSE s[i]
    BY <1>3
  <1>6. \A i \in 1..Len(s) : t[i].start = s[i].start
    BY <1>2, <1>5
  <1> QED BY <1>4, <1>5, <1>6 DEF t

LEMMA MadeEntry ==
  ASSUME TypeOK, NEW n \in 1..Len(made)
  PROVE  /\ made[n] \in Entry /\ n \in Backup
         /\ made[n].start \in Nat /\ made[n].stop \in Nat /\ made[n].id \in Nat /\ made[n].uses \subseteq Backup
  <1>1. made[n] \in Entry
    BY DEF TypeOK
  <1>2. n \in Backup
    BY BoundAssumption DEF TypeOK, Backup
  <1> QED BY <1>1, <1>2 DEF Entry

LEMMA LoadKnown ==
  ASSUME Known
  PROVE  Load \subseteq 1..Len(made)
  BY DEF Known, Load

LEMMA PriorKnown ==
  ASSUME TypeOK, Known, NEW t
  PROVE  Prior(t) = 0 \/ Prior(t) \in 1..Len(made)
  <1> DEFINE base == IF t = "diff" THEN Fulls(Load) ELSE IF t = "incr" THEN Load ELSE {}
  <1>1. base \subseteq 1..Len(made) /\ Len(made) \in Nat
    BY LoadKnown DEF Fulls, TypeOK
  <1>2. base # {} => Max(base) \in base
    BY <1>1, MaxIsGreatest
  <1> QED BY <1>1, <1>2 DEF Prior
-----------------------------------------------------------------------------
(* The shape is preserved.                                                 *)

LEMMA ShapeInit == Init => Shape
  <1> SUFFICES ASSUME Init PROVE Shape
    OBVIOUS
  <1>1. made = <<>> /\ Len(made) = 0 /\ 1..Len(made) = {} /\ made \in Seq(Entry)
    BY DEF Init
  <1>2. TypeOK
    <2>1. torn \in BOOLEAN /\ dir \in [Backup -> Dir]
      BY Zenon DEF Init, Dir
    <2>2. seg \in 1..(MaxSegments + 1) /\ id \in 1..MaxClusters /\ faults \in 0..MaxFaults /\ Len(made) <= MaxBackups
      BY <1>1, BoundAssumption DEF Init
    <2> QED BY <1>1, <2>1, <2>2 DEF Init, TypeOK, Cmd
  <1>3. Known /\ Unlisted /\ Follows /\ Ordered
    BY <1>1 DEF Init, Known, Unlisted, Follows, Ordered
  <1> QED BY <1>2, <1>3 DEF Shape

\* A new backup: its entry is well formed and starts no earlier than the others.
LEMMA BeginKeepsShape ==
  ASSUME Shape, NEW t \in Type, NEW online \in BOOLEAN, BackupBegin(t, online)
  PROVE  Shape'
  <1> DEFINE n == Len(made) + 1
             p == Prior(t)
  <1>1. PICK uses \in SUBSET Sources(p) :
          made' = Append(made, [type |-> IF p = 0 THEN "full" ELSE t, prior |-> p, uses |-> uses,
                                start |-> IF online THEN seg ELSE 0, stop |-> 0, id |-> id])
    BY DEF BackupBegin
  <1> DEFINE e == [type |-> IF p = 0 THEN "full" ELSE t, prior |-> p, uses |-> uses,
                   start |-> IF online THEN seg ELSE 0, stop |-> 0, id |-> id]
  <1>2. made \in Seq(Entry) /\ Len(made) \in Nat /\ seg \in Nat /\ id \in Nat
    BY DEF Shape, TypeOK
  <1>3. p \in Nat /\ (p = 0 \/ p \in 1..Len(made))
    BY <1>2, PriorKnown DEF Shape
  <1>4. uses \subseteq Backup
    BY <1>3, MadeEntry DEF Sources, Shape
  <1>5. e \in Entry /\ e.start \in {0, seg}
    BY <1>2, <1>3, <1>4 DEF Entry, Type
  <1>6. made' = Append(made, e)
    BY <1>1
  <1> HIDE DEF e, p
  <1>7. /\ made' \in Seq(Entry) /\ Len(made') = n /\ made'[n] = e
        /\ \A i \in 1..Len(made) : made'[i] = made[i]
    BY <1>2, <1>5, <1>6, AppendMade
  <1>8. /\ n \in Backup /\ dir' = [dir EXCEPT ![n] = "part"] /\ mem' = Load /\ cmd' = "copying"
        /\ UNCHANGED <<infoVars, walVars, victims, then, doomed, complete, faults>>
    BY DEF BackupBegin
  <1>9. TypeOK'
    <2>1. n <= MaxBackups
      BY <1>8, BoundAssumption DEF Backup
    <2>2. Load \subseteq Backup
      BY DEF Load, Shape, TypeOK
    <2> QED BY <1>7, <1>8, <2>1, <2>2 DEF Shape, TypeOK, Dir, Cmd, infoVars, walVars
  <1>10. Known' /\ Unlisted' /\ Follows'
    <2>1. Load \subseteq 1..Len(made) /\ list \subseteq 1..Len(made) /\ copy \subseteq 1..Len(made)
          /\ victims \subseteq 1..Len(made)
      BY LoadKnown DEF Shape, Known
    <2> QED BY <1>2, <1>7, <1>8, <2>1 DEF Known, Unlisted, Follows, Shape, infoVars
  <1>11. Ordered'
    <2>1. seg' = seg
      BY <1>8 DEF walVars
    <2>2. \A i \in 1..n : i \in 1..Len(made) \/ i = n
      BY <1>2
    <2>3. \A i \in 1..Len(made) : made[i].start \in Nat
      BY MadeEntry DEF Shape
    <2>4. \A i \in 1..Len(made') : made'[i].start \in Nat /\ made'[i].start <= seg
      BY <1>2, <1>5, <1>7, <2>2, <2>3 DEF Ordered, Shape
    <2>5. ASSUME NEW i \in 1..n, NEW j \in 1..n, i < j, made'[i].start # 0, made'[j].start # 0
          PROVE  made'[i].start <= made'[j].start
      <3>1. i \in 1..Len(made) /\ made'[i] = made[i]
        BY <1>2, <1>7, <2>5
      <3>2. CASE j = n
        <4>1. made'[j].start = seg
          BY <1>5, <1>7, <2>5, <3>2
        <4> QED BY <1>7, <2>4, <4>1
      <3>3. CASE j \in 1..Len(made)
        <4>1. made'[j] = made[j]
          BY <1>7, <3>3
        <4> QED BY <2>5, <3>1, <3>3, <4>1 DEF Ordered, Shape
      <3> QED BY <2>2, <3>2, <3>3
    <2> QED BY <1>7, <2>1, <2>4, <2>5 DEF Ordered
  <1> QED BY <1>9, <1>10, <1>11 DEF Shape

\* pg_backup_stop changes no start.
LEMMA StopKeepsShape ==
  ASSUME Shape, BackupStop
  PROVE  Shape'
  <1> DEFINE n == Len(made)
             v == IF made[n].start # 0 THEN seg ELSE 0
  <1>1. made \in Seq(Entry) /\ n \in 1..Len(made) /\ v \in Nat
    BY DEF Shape, TypeOK, Unlisted, BackupStop
  <1>2. made' = [made EXCEPT ![n].stop = v]
    BY DEF BackupStop
  <1> HIDE DEF v
  <1>3. /\ made' \in Seq(Entry) /\ Len(made') = Len(made)
        /\ \A i \in 1..Len(made) : made'[i].start = made[i].start
    BY <1>1, <1>2, StopMade
  <1> QED BY <1>1, <1>3 DEF BackupStop, Shape, TypeOK, Known, Unlisted, Follows, Ordered, Cmd, infoVars, walVars

\* The other steps leave the sequence of backups alone.
LEMMA OthersKeepShape ==
  ASSUME Shape, UNCHANGED made, seg' >= seg, seg' \in Nat, TypeOK', Known', Unlisted', Follows'
  PROVE  Shape'
  <1>1. \A i \in 1..Len(made) : made[i].start \in Nat
    BY MadeEntry DEF Shape
  <1>2. seg \in Nat
    BY DEF Shape, TypeOK
  <1>3. Ordered'
    BY <1>1, <1>2 DEF Ordered, Shape
  <1> QED BY <1>3 DEF Shape

LEMMA ExpireBeginKeepsShape ==
  ASSUME Shape, NEW S, S \subseteq Load, cmd \in {"idle", "expire"}, ExpireBegin(S)
  PROVE  Shape'
  <1>1. Load \subseteq 1..Len(made) /\ Load \subseteq Backup
    BY LoadKnown DEF Shape, Load, TypeOK
  <1>2. TypeOK' /\ Known' /\ Unlisted' /\ Follows'
    BY <1>1 DEF ExpireBegin, Shape, TypeOK, Known, Unlisted, Follows, Cmd, infoVars, walVars
  <1>3. UNCHANGED made /\ seg' = seg /\ seg \in Nat
    BY DEF ExpireBegin, walVars, Shape, TypeOK
  <1> QED BY <1>2, <1>3, OthersKeepShape

LEMMA ShapeStep == Shape /\ [Next]_vars => Shape'
  <1> SUFFICES ASSUME Shape, [Next]_vars PROVE Shape'
    OBVIOUS
  <1>1. Len(made) \in Nat /\ seg \in Nat /\ id \in Nat /\ Load \subseteq 1..Len(made) /\ Load \subseteq Backup
    BY LoadKnown DEF Shape, Load, TypeOK
  <1> DEFINE Rest == UNCHANGED made /\ seg' >= seg /\ seg' \in Nat
                     /\ TypeOK' /\ Known' /\ Unlisted' /\ Follows'
  <1>2. Rest => Shape'
    BY OthersKeepShape
  <1>3. CASE Archive
    <2>1. <<id, seg>> \in (1..MaxClusters) \X (1..MaxSegments) /\ seg + 1 \in 1..(MaxSegments + 1)
      BY <1>3, BoundAssumption DEF Archive, Shape, TypeOK
    <2>2. wal' = wal \union {<<id, seg>>} /\ seg' = seg + 1
          /\ UNCHANGED <<made, dir, list, torn, copy, id, cmd, mem, victims, then, doomed, complete, faults>>
      BY <1>3 DEF Archive, infoVars
    <2>3. Rest
      BY <1>1, <2>1, <2>2 DEF Shape, TypeOK, Known, Unlisted, Follows
    <2> QED BY <1>2, <2>3
  <1>4. CASE StanzaUpgrade
    <2>1. id + 1 \in 1..MaxClusters
      BY <1>4, BoundAssumption DEF StanzaUpgrade, Shape, TypeOK
    <2>2. torn' \in BOOLEAN
      BY <1>4, Zenon DEF StanzaUpgrade
    <2>3. id' = id + 1 /\ copy' = Load /\ list' = Load
          /\ UNCHANGED <<made, dir, wal, seg, cmd, mem, victims, then, doomed, complete, faults>>
      BY <1>4 DEF StanzaUpgrade
    <2>4. cmd' = "idle"
      BY <1>4 DEF StanzaUpgrade
    <2>5. Rest
      BY <1>1, <2>1, <2>2, <2>3, <2>4 DEF Shape, TypeOK, Known, Unlisted, Follows
    <2> QED BY <1>2, <2>5
  <1>5. CASE Annotate
    <2>1. Rest
      BY <1>1, <1>5 DEF Annotate, Shape, TypeOK, Known, Unlisted, Follows, Cmd, infoVars, walVars
    <2> QED BY <1>2, <2>1
  <1>6. CASE BackupStart
    BY <1>6, BeginKeepsShape DEF BackupStart
  <1>7. CASE BackupStop
    BY <1>7, StopKeepsShape
  <1>8. CASE BackupTimeout
    <2>1. Rest
      BY <1>1, <1>8 DEF BackupTimeout, Shape, TypeOK, Known, Unlisted, Follows, Cmd, infoVars, walVars
    <2> QED BY <1>2, <2>1
  <1>9. CASE BackupEnd
    <2>1. Len(made) \in 1..Len(made) /\ Len(made) \in Backup
      BY <1>1, <1>9, BoundAssumption DEF BackupEnd, Shape, TypeOK, Unlisted, Backup
    <2>2. mem' \subseteq 1..Len(made) /\ mem' \subseteq Backup
      BY <1>9, <2>1 DEF BackupEnd, Shape, TypeOK, Known
    <2>3. then' \in {"idle", "expire"} /\ cmd' = "save" /\ dir' \in [Backup -> Dir]
      BY <1>9 DEF BackupEnd, Shape, TypeOK, Dir
    <2>4. UNCHANGED <<made, list, torn, copy, wal, seg, id, victims, doomed, complete, faults>>
      BY <1>9 DEF BackupEnd, infoVars, walVars
    <2>5. Rest
      BY <1>1, <2>2, <2>3, <2>4 DEF Shape, TypeOK, Known, Unlisted, Follows, Cmd
    <2> QED BY <1>2, <2>5
  <1>10. CASE Save
    <2>1. torn' \in BOOLEAN
      BY <1>10, Zenon DEF Save, SaveBegin, SaveEnd, Shape, TypeOK
    <2>2. CASE SaveBegin
      <3>1. cmd' = "saving" /\ copy' \in {copy, mem}
            /\ UNCHANGED <<made, dir, list, wal, seg, id, mem, victims, then, doomed, complete, faults>>
        BY <2>2 DEF SaveBegin, walVars
      <3>2. Rest
        BY <1>1, <2>1, <3>1 DEF Shape, TypeOK, Known, Unlisted, Follows, Cmd
      <3> QED BY <1>2, <3>2
    <2>3. CASE SaveEnd
      <3>1. Rest
        BY <1>1, <2>1, <2>3 DEF SaveEnd, Shape, TypeOK, Known, Unlisted, Follows, Cmd, walVars
      <3> QED BY <1>2, <3>1
    <2> QED BY <1>10, <2>2, <2>3 DEF Save
  <1>11. CASE ExpireStart
    <2>1. PICK since : Retention(since)
      BY <1>11 DEF ExpireStart
    <2>2. Expired(since) \subseteq Load
      BY DEF Expired
    <2> QED BY <2>1, <2>2, ExpireBeginKeepsShape DEF Retention
  <1>12. CASE ExpireStep
    <2>1. CASE \E n \in Backup : RemoveSome(n) \/ RemoveAll(n)
      <3>1. dir' \in [Backup -> Dir]
        BY <2>1 DEF RemoveSome, RemoveAll, Shape, TypeOK, Dir
      <3>2. UNCHANGED <<made, list, torn, copy, wal, seg, id, cmd, mem, victims, then, doomed, complete, faults>>
        BY <2>1 DEF RemoveSome, RemoveAll, infoVars, walVars
      <3>3. Rest
        BY <1>1, <3>1, <3>2 DEF Shape, TypeOK, Known, Unlisted, Follows
      <3> QED BY <1>2, <3>3
    <2>2. CASE RemoveEnd
      <3>1. cmd' = "save" /\ then' = "wal" /\ mem' \subseteq mem
            /\ UNCHANGED <<made, dir, list, torn, copy, wal, seg, id, victims, doomed, complete, faults>>
        BY <2>2 DEF RemoveEnd, infoVars, walVars
      <3>2. Rest
        BY <1>1, <3>1 DEF Shape, TypeOK, Known, Unlisted, Follows, Cmd
      <3> QED BY <1>2, <3>2
    <2>3. CASE ExpireEnd
      <3>1. Rest
        BY <1>1, <2>3 DEF ExpireEnd, Shape, TypeOK, Known, Unlisted, Follows, Cmd, infoVars, walVars
      <3> QED BY <1>2, <3>1
    <2>4. CASE \E w \in wal : WalRemove(w)
      <3>1. Rest
        BY <1>1, <2>4 DEF WalRemove, Shape, TypeOK, Known, Unlisted, Follows, infoVars
      <3> QED BY <1>2, <3>1
    <2> QED BY <1>12, <2>1, <2>2, <2>3, <2>4 DEF ExpireStep
  <1>13. CASE \E n \in Backup : ExpireSet(n) \/ ExpireOldest(n)
    <2>1. PICK n \in Backup : ExpireSet(n) \/ ExpireOldest(n)
      BY <1>13
    <2>2. Dependents(n) \subseteq Load
      BY DEF Dependents
    <2>3. cmd = "idle" /\ ExpireBegin(Dependents(n))
      BY <2>1 DEF ExpireSet, ExpireOldest
    <2> QED BY <2>2, <2>3, ExpireBeginKeepsShape
  <1>14. CASE Die
    <2>1. Rest
      BY <1>1, <1>14, BoundAssumption DEF Die, Shape, TypeOK, Known, Unlisted, Follows, Cmd, infoVars, walVars
    <2> QED BY <1>2, <2>1
  <1>15. CASE UNCHANGED vars
    <2>1. Rest
      BY <1>1, <1>15 DEF vars, Shape, TypeOK, Known, Unlisted, Follows
    <2> QED BY <1>2, <2>1
  <1> QED BY <1>3, <1>4, <1>5, <1>6, <1>7, <1>8, <1>9, <1>10, <1>11, <1>12, <1>13, <1>14, <1>15
          DEF Next, BackupStep

\* Every variable of the backup set stays in its domain: the prior of a backup
\* and the backups whose files it uses have been taken, whatever dies.
THEOREM TypeCorrect == Spec => []TypeOK
  <1>1. Spec => []Shape
    BY ShapeInit, ShapeStep, PTL DEF Spec
  <1>2. Shape => TypeOK
    BY DEF Shape
  <1> QED BY <1>1, <1>2, PTL

-----------------------------------------------------------------------------
(* The WAL that expire may remove.                                         *)

\* The retention backup of a cluster is one of its backups, and none of the
\* backups that count is older.
LEMMA RetentionIsLocal ==
  ASSUME TypeOK, NEW S, S \subseteq 1..Len(made), NEW i, Local(S, i) # {}
  PROVE  /\ RetentionBackup(S, i) \in Local(S, i)
         /\ \A n \in Local(S, i) :
              n \in Newest(RetainWal, Anchors(S)) \/ n = Max(Local(S, i)) => RetentionBackup(S, i) <= n
  <1> DEFINE L == Local(S, i)
             counted == Newest(RetainWal, Anchors(S)) \intersect L
  <1>1. Len(made) \in Nat /\ L \in SUBSET (1..Len(made)) /\ L \in SUBSET Nat
    <2>1. Len(made) \in Nat
      BY DEF TypeOK
    <2>2. L \subseteq S
      BY DEF Local
    <2> HIDE DEF L
    <2>3. \A x \in L : x \in 1..Len(made) /\ x \in Nat
      BY <2>1, <2>2
    <2> QED BY <2>1, <2>3
  <1>2. Max(L) \in L /\ \A y \in L : Max(L) >= y
    <2> HIDE DEF L
    <2>1. L # {}
      BY DEF L
    <2> QED BY <1>1, <2>1, MaxIsGreatest
  <1>3. RetentionBackup(S, i) = IF counted = {} THEN Max(L) ELSE Min(counted)
    BY DEF RetentionBackup
  <1> HIDE DEF L
  <1>4. CASE counted = {}
    <2>1. RetentionBackup(S, i) = Max(L)
      BY <1>3, <1>4
    <2>2. \A n \in L : n \in Newest(RetainWal, Anchors(S)) \/ n = Max(L) => n = Max(L) /\ n \in Nat
      BY <1>1, <1>4
    <2> QED BY <1>2, <2>1, <2>2 DEF L
  <1>5. CASE counted # {}
    <2>1. Min(counted) \in counted /\ \A y \in counted : Min(counted) <= y
      BY <1>1, <1>5, MinIsLeast
    <2>2. RetentionBackup(S, i) = Min(counted)
      BY <1>3, <1>5
    <2>3. Min(counted) \in L /\ Min(counted) \in Nat
      BY <1>1, <2>1
    <2>4. \A n \in L : n \in Newest(RetainWal, Anchors(S)) => Min(counted) <= n
      BY <2>1
    <2>5. Min(counted) <= Max(L)
      BY <1>1, <1>2, <2>3
    <2> QED BY <2>2, <2>3, <2>4, <2>5 DEF L
  <1> QED BY <1>4, <1>5

\* A segment from the start of a backup on is expendable only when the backup
\* is older than its cluster's retention backup and did stop before it.
LEMMA ExpendableIsLater ==
  ASSUME Shape, NEW S, S \subseteq 1..Len(made), NEW w \in Expendable(S), NEW n \in S,
         made[n].id = w[1], made[n].start # 0, made[n].start <= w[2]
  PROVE  n < RetentionBackup(S, w[1]) /\ made[n].stop < w[2]
  <1> DEFINE last == RetentionBackup(S, w[1])
  <1>1. n \in Local(S, w[1])
    BY DEF Local
  <1>2. last \in Local(S, w[1]) /\ last \in S
    <2>1. Local(S, w[1]) # {} /\ Local(S, w[1]) \subseteq S
      BY <1>1 DEF Local
    <2> QED BY <2>1, RetentionIsLocal DEF Shape
  <1>3. n \in 1..Len(made) /\ last \in 1..Len(made) /\ Len(made) \in Nat
    <2>1. Len(made) \in Nat
      BY DEF Shape, TypeOK
    <2> HIDE DEF last
    <2> QED BY <1>2, <2>1
  <1>4. made[n].start \in Nat /\ made[n].stop \in Nat /\ made[last].start \in Nat
    BY <1>3, MadeEntry DEF Shape
  <1>5. w[2] \in Nat
    <2>1. w \in (1..MaxClusters) \X (1..MaxSegments)
      BY DEF Expendable, Shape, TypeOK
    <2> QED BY <2>1, BoundAssumption
  <1>6. made[last].start # 0 /\ ~InRanges(S, w)
    BY <1>1 DEF Expendable
  <1> HIDE DEF last
  <1>7. n < last
    <2> SUFFICES ASSUME ~(n < last) PROVE FALSE
      OBVIOUS
    <2>1. made[last].start <= made[n].start
      <3>1. last = n \/ last < n
        BY <1>3
      <3> QED BY <1>3, <1>4, <1>6, <3>1 DEF Shape, Ordered
    <2>2. made[last].start <= w[2]
      BY <1>4, <1>5, <2>1
    <2>3. InRanges(S, w)
      BY <1>2, <1>3, <1>6, <2>2 DEF InRanges, last
    <2> QED BY <1>6, <2>3
  <1>8. made[n].stop < w[2]
    <2> SUFFICES ASSUME ~(made[n].stop < w[2]) PROVE FALSE
      OBVIOUS
    <2>1. w[2] <= made[n].stop /\ n <= last
      BY <1>3, <1>4, <1>5, <1>7
    <2>2. InRanges(S, w)
      BY <1>1, <2>1 DEF InRanges, last
    <2> QED BY <1>6, <2>2
  <1> QED BY <1>7, <1>8 DEF last

\* Only WalRemove takes a segment from the archive.
LEMMA OnlyExpireRemoves ==
  ASSUME Shape, [Next]_vars, NEW w \in wal \ wal'
  PROVE  cmd = "wal" /\ w \in Expendable(mem)
  <1>1. ~(\E v \in wal : WalRemove(v)) => wal \subseteq wal'
    BY DEF Next, vars, Archive, StanzaUpgrade, Annotate, BackupStart, BackupBegin, BackupStep, BackupStop,
      BackupTimeout, BackupEnd, Save, SaveBegin, SaveEnd, ExpireStart, Retention, ExpireSet, ExpireOldest,
      ExpireBegin, ExpireStep, RemoveSome, RemoveAll, RemoveEnd, ExpireEnd, Die, walVars
  <1> QED BY <1>1 DEF WalRemove

LEMMA RollForwardStep ==
  ASSUME Shape, [Next]_vars, NEW w \in wal \ wal', NEW n \in mem,
         made[n].id = w[1], made[n].start # 0,
         n \in Newest(RetainWal, Anchors(mem)) \/ n = Max(Local(mem, w[1]))
  PROVE  w[2] < made[n].start
  <1>1. w \in Expendable(mem)
    BY OnlyExpireRemoves
  <1>2. mem \subseteq 1..Len(made) /\ n \in Local(mem, w[1]) /\ n \in Nat
    BY DEF Shape, Known, TypeOK, Local
  <1>3. RetentionBackup(mem, w[1]) <= n /\ RetentionBackup(mem, w[1]) \in Nat
    <2>1. Local(mem, w[1]) # {} /\ Local(mem, w[1]) \subseteq Nat
      BY <1>2 DEF Local
    <2> QED BY <1>2, <2>1, RetentionIsLocal DEF Shape
  <1>4. w[2] \in Nat /\ made[n].start \in Nat
    <2>1. w \in (1..MaxClusters) \X (1..MaxSegments)
      BY DEF Shape, TypeOK
    <2> QED BY <1>2, <2>1, MadeEntry, BoundAssumption DEF Shape
  <1> SUFFICES ASSUME ~(w[2] < made[n].start) PROVE FALSE
    OBVIOUS
  <1>5. made[n].start <= w[2]
    BY <1>4
  <1>6. n < RetentionBackup(mem, w[1])
    BY <1>1, <1>2, <1>5, ExpendableIsLater
  <1> QED BY <1>2, <1>3, <1>6

\* Point-in-time recovery: compute_archive_plan removes no segment after the
\* start of a backup that counts for WAL retention, nor after the start of a
\* cluster's newest backup, whatever the retention options are.
THEOREM RollForward == Spec => RollForwardKept
  <1>1. Spec => []Shape
    BY ShapeInit, ShapeStep, PTL DEF Spec
  <1>2. Shape /\ [Next]_vars =>
          [\A w \in wal \ wal' : \A n \in mem :
             /\ made[n].id = w[1] /\ made[n].start # 0
             /\ n \in Newest(RetainWal, Anchors(mem)) \/ n = Max(Local(mem, w[1]))
             => w[2] < made[n].start]_vars
    BY RollForwardStep
  <1> QED BY <1>1, <1>2, PTL DEF Spec, RollForwardKept

-----------------------------------------------------------------------------
(* An encrypted repository, whose backup.info is replaced by renames.      *)

\* backup.info always parses; it lists every completed backup no expire has
\* chosen, and what a command is about to save does too.
Listed ==
  /\ torn = FALSE
  /\ complete \ doomed \subseteq list
  /\ cmd \in {"copying", "waiting", "removing", "wal"} => mem = list
  /\ cmd = "removing" => victims \subseteq doomed
  /\ cmd \in {"save", "saving"} => list \ doomed \subseteq mem

HasWal(n) == made[n].start # 0 => \A s \in made[n].start..made[n].stop : <<made[n].id, s>> \in wal

\* A backup that is listed or about to be has all the WAL of its bracket.
WalThere == \A n \in list \union mem : HasWal(n)

Sound == Shape /\ Listed /\ WalThere

LEMMA ListedLoad ==
  ASSUME Listed
  PROVE  Load = list
  BY DEF Listed, Load

LEMMA ListedStep ==
  ASSUME Encrypted = TRUE, Shape, Listed, [Next]_vars
  PROVE  Listed'
  <1>1. Load = list
    BY ListedLoad
  <1>2. CASE Archive \/ BackupStop \/ BackupTimeout \/ UNCHANGED vars
    BY <1>2 DEF Archive, BackupStop, BackupTimeout, vars, Listed, infoVars
  <1>3. CASE StanzaUpgrade
    BY <1>1, <1>3 DEF StanzaUpgrade, Listed
  <1>4. CASE Annotate
    BY <1>4 DEF Annotate
  <1>5. CASE BackupStart
    BY <1>1, <1>5 DEF BackupStart, BackupBegin, Listed, infoVars
  <1>6. CASE BackupEnd
    BY <1>6 DEF BackupEnd, Listed, infoVars
  <1>7. CASE SaveBegin
    BY <1>7 DEF SaveBegin, Listed
  <1>8. CASE SaveEnd
    BY <1>8 DEF SaveEnd, Listed, Shape, Follows
  <1>9. ASSUME NEW S, ExpireBegin(S) PROVE Listed'
    BY <1>1, <1>9 DEF ExpireBegin, Listed, infoVars
  <1>10. CASE ExpireStart \/ \E n \in Backup : ExpireSet(n) \/ ExpireOldest(n)
    BY <1>9, <1>10 DEF ExpireStart, Retention, ExpireSet, ExpireOldest
  <1>11. CASE ExpireStep
    BY <1>11 DEF ExpireStep, RemoveSome, RemoveAll, RemoveEnd, ExpireEnd, WalRemove, Listed, infoVars
  <1>12. CASE Die
    BY <1>12 DEF Die, Listed, infoVars
  <1> QED BY <1>2, <1>3, <1>4, <1>5, <1>6, <1>7, <1>8, <1>10, <1>11, <1>12 DEF Next, BackupStep, Save

\* Steps that change neither a known backup's entry nor take WAL away.
LEMMA SameWal ==
  ASSUME WalThere, wal \subseteq wal', NEW K, K \subseteq list \union mem,
         \A n \in K : made'[n] = made[n]
  PROVE  \A n \in K : HasWal(n)'
  BY DEF WalThere, HasWal

LEMMA WalThereStep ==
  ASSUME Encrypted = TRUE, Shape, Listed, WalThere, [Next]_vars
  PROVE  WalThere'
  <1>1. Load = list
    BY ListedLoad
  <1>2. list \subseteq 1..Len(made) /\ mem \subseteq 1..Len(made) /\ Len(made) \in Nat
    BY DEF Shape, Known, TypeOK
  <1>3. ASSUME UNCHANGED made, wal \subseteq wal', list' \union mem' \subseteq list \union mem
        PROVE  WalThere'
    BY <1>3, SameWal DEF WalThere
  <1>4. CASE \/ Archive \/ StanzaUpgrade \/ BackupTimeout \/ Save \/ ExpireStart \/ RemoveEnd \/ ExpireEnd \/ Die
             \/ (\E n \in Backup : ExpireSet(n) \/ ExpireOldest(n) \/ RemoveSome(n) \/ RemoveAll(n)) \/ UNCHANGED vars
    <2>1. UNCHANGED made /\ wal \subseteq wal' /\ list' \union mem' \subseteq list \union mem
      BY <1>1, <1>4 DEF Archive, StanzaUpgrade, BackupTimeout, Save, SaveBegin, SaveEnd, ExpireStart, Retention,
        ExpireSet, ExpireOldest, ExpireBegin, RemoveSome, RemoveAll, RemoveEnd, ExpireEnd, Die, vars, infoVars, walVars
    <2> QED BY <1>3, <2>1
  <1>5. CASE Annotate
    BY <1>5 DEF Annotate
  <1>6. CASE BackupStart
    <2>1. PICK t \in Type, online \in BOOLEAN : BackupBegin(t, online)
      BY <1>6 DEF BackupStart
    <2>2. /\ mem' = list /\ list' = list /\ wal' = wal
          /\ \E e : made' = Append(made, e)
      BY <1>1, <2>1 DEF BackupBegin, infoVars, walVars
    <2>3. \A n \in 1..Len(made) : made'[n] = made[n]
      BY <2>2 DEF Shape, TypeOK
    <2>4. \A n \in list : HasWal(n)'
      BY <1>2, <2>2, <2>3, SameWal
    <2> QED BY <2>2, <2>4 DEF WalThere
  <1>7. CASE BackupStop
    <2>1. Len(made) \in 1..Len(made) /\ Len(made) \notin list \union mem
      BY <1>2, <1>7 DEF BackupStop, Shape, Unlisted
    <2>2. /\ list' = list /\ mem' = mem /\ wal' = wal
          /\ made' = [made EXCEPT ![Len(made)].stop = IF made[Len(made)].start # 0 THEN seg ELSE 0]
      BY <1>7 DEF BackupStop, infoVars, walVars
    <2>3. \A n \in list \union mem : made'[n] = made[n]
      BY <1>2, <2>1, <2>2 DEF Shape, TypeOK
    <2>4. \A n \in list \union mem : HasWal(n)'
      BY <2>2, <2>3, SameWal
    <2> QED BY <2>2, <2>4 DEF WalThere
  <1>8. CASE BackupEnd
    <2>1. /\ made' = made /\ wal' = wal /\ list' = list /\ mem' = mem \union {Len(made)}
          /\ Arrived(Len(made))
      BY <1>8 DEF BackupEnd, infoVars, walVars
    <2>2. \A n \in list \union mem : HasWal(n)'
      BY <2>1, SameWal
    <2>3. HasWal(Len(made))
      BY <2>1 DEF Arrived, HasWal
    <2>4. HasWal(Len(made))'
      BY <2>1, <2>3 DEF HasWal
    <2> QED BY <2>1, <2>2, <2>4 DEF WalThere
  <1>9. CASE \E w \in wal : WalRemove(w)
    <2>1. PICK w \in wal : WalRemove(w)
      BY <1>9
    <2>2. /\ w \in Expendable(mem) /\ wal' = wal \ {w} /\ mem = list
          /\ made' = made /\ list' = list /\ mem' = mem
      BY <2>1 DEF WalRemove, Listed, infoVars
    <2>3. w \in (1..MaxClusters) \X (1..MaxSegments)
      BY DEF Shape, TypeOK
    <2>4. ASSUME NEW n \in mem, made[n].start # 0, NEW s \in made[n].start..made[n].stop
          PROVE  <<made[n].id, s>> # w
      <3> SUFFICES ASSUME <<made[n].id, s>> = w PROVE FALSE
        OBVIOUS
      <3>1. made[n].start \in Nat /\ made[n].stop \in Nat
        BY <1>2, MadeEntry DEF Shape
      <3>2. made[n].id = w[1] /\ made[n].start <= w[2] /\ w[2] <= made[n].stop /\ w[2] \in Int
        BY <2>4, <3>1
      <3>3. made[n].stop < w[2]
        BY <1>2, <2>2, <2>4, <3>2, ExpendableIsLater
      <3> QED BY <3>1, <3>2, <3>3
    <2>5. \A n \in mem : HasWal(n)
      BY DEF WalThere
    <2>6. \A n \in mem : HasWal(n)'
      BY <2>2, <2>4, <2>5 DEF HasWal
    <2> QED BY <2>2, <2>6 DEF WalThere
  <1> QED BY <1>4, <1>5, <1>6, <1>7, <1>8, <1>9 DEF Next, BackupStep, ExpireStep

LEMMA SoundAlways == Encrypted = TRUE => (Spec => []Sound)
  <1> SUFFICES ASSUME Encrypted = TRUE PROVE Spec => []Sound
    OBVIOUS
  <1>1. Init => Sound
    BY ShapeInit DEF Init, Sound, Listed, WalThere
  <1>2. Sound /\ [Next]_vars => Sound'
    BY ShapeStep, ListedStep, WalThereStep DEF Sound
  <1> QED BY <1>1, <1>2, PTL DEF Spec

\* In an encrypted repository a completed backup is listed until an expire
\* chooses it, wherever the commands that rewrite backup.info die.
THEOREM CompletedStayListed == Encrypted = TRUE => (Spec => []CompleteAreListed)
  <1>1. Sound => CompleteAreListed
    BY ListedLoad DEF Sound, Listed, CompleteAreListed
  <1> QED BY <1>1, SoundAlways, PTL

\* In an encrypted repository no retention setting, upgrade, concurrent push
\* or death leaves a listed backup without the WAL of its bracket.
THEOREM ListedHaveTheirWal == Encrypted = TRUE => (Spec => []KeptHaveTheirWal)
  <1>1. Sound => KeptHaveTheirWal
    BY ListedLoad DEF Sound, WalThere, HasWal, KeptHaveTheirWal
  <1> QED BY <1>1, SoundAlways, PTL
=============================================================================
