---------------------------- MODULE MigrateProofs ----------------------------
(***************************************************************************)
(* What holds of Migrate for every number of windows and of migrations,    *)
(* and every bound on kills, with proofs.                                  *)
(***************************************************************************)
EXTENDS Migrate, TLAPS

USE MigrateAssumption

Pending(r) == pc[r] \in {"execute", "update", "commit"}

\* The run has found the first file above the version it read, or none.
Reached(r) == Pending(r) \/ pc[r] = "serving"

-----------------------------------------------------------------------------
(* The inductive invariant.                                                *)

\* A run is at a file of its release, and has passed them all when it serves.
PlaceInv ==
    \A r \in Runner :
        /\ pc[r] = "read" \/ Reached(r) => version > 0
        /\ Pending(r) => file[r] \in Migration /\ file[r] <= release
        /\ pc[r] = "serving" => file[r] > release

\* Every migration before the file a run is at has its change in place: this
\* is why a slow run may move the version back, and only back to the truth.
PassedInv ==
    \A r \in Runner : Reached(r) =>
        \A m \in Migration : m < file[r] => There(m)

IInv ==
    /\ TypeOK
    /\ version = 0 => first = 0
    /\ PlaceInv
    /\ PassedInv
    /\ NothingSkipped

\* Until two runs overlap, the version is exactly what has been applied, and
\* the one run there is stands right behind it.
AloneInv ==
    ~overlapped =>
        /\ \A r, s \in Runner : Running(r) /\ Running(s) => r = s
        /\ \A m \in Migration : applied[m] <= 1 /\ (m > version => applied[m] = 0)
        /\ \A r \in Runner : Pending(r) => version = file[r] - 1
        /\ \A r \in Runner : pc[r] = "failed" => file[r] <= first

-----------------------------------------------------------------------------
LEMMA InitInv == Init => IInv /\ AloneInv
<1> SUFFICES ASSUME Init PROVE IInv /\ AloneInv
  OBVIOUS
<1>1. TypeOK
  <2>1. /\ 0 \in 0..Last /\ 0 \in 0..2 /\ 0 \in 0..Last + 1 /\ 0 \in 0..MaxCrashes
        /\ FALSE \in BOOLEAN
    OBVIOUS
  <2> QED BY <2>1 DEF Init, TypeOK
<1>2. \A r \in Runner : pc[r] = "off"
  BY DEF Init
<1>3. (version = 0 => first = 0) /\ PlaceInv /\ PassedInv /\ NothingSkipped
  BY <1>2 DEF Init, PlaceInv, PassedInv, NothingSkipped, Reached, Pending, Migration
<1>4. AloneInv
  BY <1>2 DEF Init, AloneInv, Running, Pending
<1> QED BY <1>1, <1>3, <1>4 DEF IInv

-----------------------------------------------------------------------------
(* One step per action. *)

LEMMA TypeStep == IInv /\ [Next]_vars => TypeOK'
<1> SUFFICES ASSUME IInv, [Next]_vars PROVE TypeOK'
  OBVIOUS
<1> USE DEF TypeOK
<1>1. TypeOK /\ PlaceInv
  BY DEF IInv
<1>2. ASSUME NEW r \in Runner, Launch(r) PROVE TypeOK'
  BY <1>1, <1>2 DEF Launch, Goto, database
<1>3. ASSUME NEW r \in Runner, Baseline(r) PROVE TypeOK'
  BY <1>1, <1>3 DEF Baseline, Goto, database
<1>4. ASSUME NEW r \in Runner, BaselineAgain(r) PROVE TypeOK'
  BY <1>1, <1>4 DEF BaselineAgain, Goto, database
<1>5. ASSUME NEW r \in Runner, ReadVersion(r) PROVE TypeOK'
  BY <1>1, <1>5 DEF ReadVersion, NextFile, Goto, database
<1>6. ASSUME NEW r \in Runner, Execute(r) \/ Raise(r) \/ UpdateVersion(r) PROVE TypeOK'
  BY <1>1, <1>6 DEF Execute, Raise, UpdateVersion, Goto, database
<1>7. ASSUME NEW r \in Runner, Commit(r) PROVE TypeOK'
  <2>1. file[r] \in Migration /\ applied[file[r]] \in 0..2
    BY <1>1, <1>7 DEF Commit, PlaceInv, Pending
  <2>2. Twice(applied[file[r]]) \in 0..2
    BY <2>1 DEF Twice
  <2>3. applied' \in [Migration -> 0..2]
    BY <1>1, <1>7, <2>2 DEF Commit
  <2> QED BY <1>1, <1>7, <2>1, <2>3 DEF Commit, NextFile, Goto, Migration
<1>8. ASSUME NEW r \in Runner, Close(r) \/ Kill(r) PROVE TypeOK'
  BY <1>1, <1>8 DEF Close, Kill, Goto, database
<1>9. ASSUME Install PROVE TypeOK'
  BY <1>1, <1>9 DEF Install, database
<1>10. ASSUME UNCHANGED vars PROVE TypeOK'
  BY <1>1, <1>10 DEF vars, database
<1> QED BY <1>2, <1>3, <1>4, <1>5, <1>6, <1>7, <1>8, <1>9, <1>10 DEF Next, Run

\* A step that keeps the database, and after which each run is where it was
\* or at a stage that claims nothing, keeps the claims of the invariant.
Quiet ==
    /\ UNCHANGED <<version, applied, first, release, file>>
    /\ \A r \in Runner : pc[r]' = pc[r] \/ pc[r]' \in {"off", "baseline", "failed"}

LEMMA QuietStep ==
  ASSUME IInv, Quiet PROVE (PlaceInv /\ PassedInv /\ NothingSkipped)'
<1>1. PlaceInv /\ PassedInv /\ NothingSkipped
  BY DEF IInv
<1>2. NothingSkipped'
  BY <1>1 DEF NothingSkipped, There, Quiet, Migration
<1>3. PlaceInv'
  BY <1>1 DEF PlaceInv, Quiet, Reached, Pending, Migration
<1>4. PassedInv'
  BY <1>1 DEF PassedInv, Quiet, Reached, Pending, There, Migration
<1> QED BY <1>2, <1>3, <1>4

\* A step of a run from one statement of its file to the next.
LEMMA StageStep ==
  ASSUME NEW r \in Runner, IInv, Pending(r), NEW stage \in {"update", "commit"},
         Goto(r, stage), UNCHANGED <<database, release, file>>
  PROVE  (PlaceInv /\ PassedInv /\ NothingSkipped)'
<1>1. TypeOK /\ PlaceInv /\ PassedInv /\ NothingSkipped
  BY DEF IInv
<1>2. \A s \in Runner : /\ Pending(s)' <=> Pending(s)
                        /\ Reached(s)' <=> Reached(s)
                        /\ (pc[s] = "read")' => pc[s] = "read"
                        /\ (pc[s] = "serving")' => pc[s] = "serving"
  BY <1>1 DEF Goto, TypeOK, Pending, Reached
<1>3. NothingSkipped'
  BY <1>1 DEF NothingSkipped, There, database, Migration
<1>4. PlaceInv'
  BY <1>1, <1>2 DEF PlaceInv, database, Migration
<1>5. PassedInv'
  BY <1>1, <1>2 DEF PassedInv, There, database, Migration
<1> QED BY <1>3, <1>4, <1>5

\* A run that goes on to the next file, having passed all up to m.
LEMMA OnwardStep ==
  ASSUME IInv, TypeOK', NEW r \in Runner, NEW m \in 1..Last, NextFile(r, m),
         UNCHANGED <<first, release>>, version' > 0,
         \A n \in Migration : There(n) => There(n)',
         \A n \in Migration : n <= m => There(n)'
  PROVE  (PlaceInv /\ PassedInv)'
<1>1. TypeOK /\ PlaceInv /\ PassedInv
  BY DEF IInv
<1>2. /\ file[r]' = m + 1
      /\ pc[r]' = IF m + 1 <= release THEN "execute" ELSE "serving"
      /\ \A s \in Runner \ {r} : file[s]' = file[s] /\ pc[s]' = pc[s]
  BY <1>1 DEF NextFile, Goto, TypeOK
<1>3. release \in 1..Last
  BY <1>1 DEF TypeOK
<1>4. PlaceInv'
  <2> SUFFICES ASSUME NEW s \in Runner
               PROVE  /\ (Pending(s) => file[s] \in Migration /\ file[s] <= release)'
                      /\ (pc[s] = "serving" => file[s] > release)'
    BY DEF PlaceInv
  <2>1. CASE s = r
    BY <1>2, <1>3, <2>1 DEF Pending, Migration
  <2>2. CASE s # r
    BY <1>1, <1>2, <2>2 DEF PlaceInv, Pending, Migration
  <2> QED BY <2>1, <2>2
<1>5. PassedInv'
  <2> SUFFICES ASSUME NEW s \in Runner, Reached(s)', NEW n \in Migration, n < file[s]'
               PROVE  There(n)'
    BY DEF PassedInv, Migration
  <2>1. CASE s = r
    BY <1>2, <2>1 DEF Migration
  <2>2. CASE s # r
    BY <1>1, <1>2, <2>2 DEF PassedInv, Reached, Pending
  <2> QED BY <2>1, <2>2
<1> QED BY <1>4, <1>5

LEMMA NextInv == IInv /\ [Next]_vars => IInv'
<1> SUFFICES ASSUME IInv, [Next]_vars PROVE IInv'
  OBVIOUS
<1>1. TypeOK'
  BY TypeStep
<1>2. TypeOK /\ (version = 0 => first = 0) /\ PlaceInv /\ PassedInv /\ NothingSkipped
  BY DEF IInv
<1> DEFINE Claims == PlaceInv /\ PassedInv /\ NothingSkipped
           Seeded == version = 0 => first = 0
<1>3. ASSUME NEW r \in Runner, Launch(r) \/ Close(r) \/ Kill(r) \/ Raise(r)
      PROVE  Claims' /\ Seeded'
  <2>1. Quiet
    BY <1>2, <1>3 DEF Quiet, TypeOK, Launch, Close, Kill, Raise, Goto, database
  <2> QED BY <1>2, <2>1, QuietStep DEF Quiet
<1>4. ASSUME NEW r \in Runner, Baseline(r) PROVE Claims' /\ Seeded'
  <2>1. /\ version = 0 /\ version' = 1 /\ first = 0 /\ first' = release
        /\ UNCHANGED <<applied, release, file>>
    BY <1>2, <1>4 DEF Baseline
  <2>2. \A s \in Runner : pc[s]' = pc[s] \/ pc[s]' \in {"read", "failed"}
    BY <1>2, <1>4 DEF Baseline, TypeOK
  <2>3. \A m \in Migration : There(m) => There(m)'
    BY <1>2, <2>1 DEF There, TypeOK, Migration
  <2>4. NothingSkipped'
    BY <2>1 DEF NothingSkipped, Migration
  <2>5. PlaceInv'
    BY <1>2, <2>1, <2>2 DEF PlaceInv, Reached, Pending, Migration
  <2>6. PassedInv'
    BY <1>2, <2>1, <2>2, <2>3 DEF PassedInv, Reached, Pending, Migration
  <2> QED BY <2>1, <2>4, <2>5, <2>6
<1>5. ASSUME NEW r \in Runner, BaselineAgain(r) PROVE Claims' /\ Seeded'
  <2>1. /\ version > 0
        /\ UNCHANGED <<version, applied, first, release, file>>
    BY <1>5 DEF BaselineAgain, database
  <2>2. \A s \in Runner : pc[s]' = pc[s] \/ pc[s]' = "read"
    BY <1>2, <1>5 DEF BaselineAgain, Goto, TypeOK
  <2>3. NothingSkipped'
    BY <1>2, <2>1 DEF NothingSkipped, There, Migration
  <2>4. PlaceInv'
    BY <1>2, <2>1, <2>2 DEF PlaceInv, Reached, Pending, Migration
  <2>5. PassedInv'
    BY <1>2, <2>1, <2>2 DEF PassedInv, Reached, Pending, There, Migration
  <2> QED BY <1>2, <2>1, <2>3, <2>4, <2>5
<1>6. ASSUME NEW r \in Runner, ReadVersion(r) PROVE Claims' /\ Seeded'
  <2>1. /\ NextFile(r, version)
        /\ UNCHANGED <<version, applied, first, release>>
        /\ pc[r] = "read"
    BY <1>6 DEF ReadVersion, database
  <2>2. version \in 1..Last
    BY <1>2, <2>1 DEF PlaceInv, TypeOK
  <2>3. \A m \in Migration : (There(m) => There(m)') /\ (m <= version => There(m)')
    BY <1>2, <2>1 DEF NothingSkipped, There
  <2>4. PlaceInv' /\ PassedInv'
    BY <1>1, <2>1, <2>2, <2>3, OnwardStep
  <2>5. NothingSkipped'
    BY <2>1, <2>3 DEF NothingSkipped, Migration
  <2> QED BY <1>2, <2>1, <2>4, <2>5
<1>7. ASSUME NEW r \in Runner, Execute(r) \/ UpdateVersion(r) PROVE Claims' /\ Seeded'
  <2>1. Pending(r) /\ UNCHANGED <<database, release, file>>
    BY <1>7 DEF Execute, UpdateVersion, Pending
  <2>2. \E stage \in {"update", "commit"} : Goto(r, stage)
    BY <1>7 DEF Execute, UpdateVersion
  <2>3. Claims'
    BY <2>1, <2>2, StageStep
  <2> QED BY <1>2, <2>1, <2>3 DEF database
<1>8. ASSUME NEW r \in Runner, Commit(r) PROVE Claims' /\ Seeded'
  <2>1. /\ version' = file[r]
        /\ applied' = [applied EXCEPT ![file[r]] = Twice(@)]
        /\ NextFile(r, file[r])
        /\ UNCHANGED <<first, release>>
    BY <1>8 DEF Commit
  <2>2. Pending(r) /\ file[r] \in Migration /\ file[r] \in 1..Last
    BY <1>2, <1>8 DEF Commit, Pending, PlaceInv, Migration
  <2>3. \A m \in Migration :
          /\ applied[m] \in 0..2
          /\ applied'[m] = IF m = file[r] THEN Twice(applied[m]) ELSE applied[m]
    BY <1>2, <2>1, <2>2 DEF TypeOK
  <2>4. \A m \in Migration : (There(m) \/ m = file[r]) => There(m)'
    BY <2>1, <2>3 DEF There, Twice
  <2>5. \A m \in Migration : m <= file[r] => There(m)'
    <3> SUFFICES ASSUME NEW m \in Migration, m <= file[r] PROVE There(m)'
      OBVIOUS
    <3>1. CASE m = file[r]
      BY <2>4, <3>1
    <3>2. CASE m < file[r]
      BY <1>2, <2>2, <2>4, <3>2 DEF PassedInv, Reached
    <3> QED BY <2>2, <3>1, <3>2 DEF Migration
  <2>6. PlaceInv' /\ PassedInv'
    BY <1>1, <2>1, <2>2, <2>4, <2>5, OnwardStep
  <2>7. NothingSkipped'
    BY <2>1, <2>5 DEF NothingSkipped, Migration
  <2> QED BY <2>1, <2>2, <2>6, <2>7
<1>9. ASSUME Install PROVE Claims' /\ Seeded'
  <2>1. /\ UNCHANGED <<version, applied, first, file, pc>>
        /\ \A r \in Runner : pc[r] \in {"off", "failed"}
    BY <1>9 DEF Install, database
  <2> QED BY <1>2, <2>1
          DEF PlaceInv, PassedInv, NothingSkipped, There, Reached, Pending, Migration
<1>10. ASSUME UNCHANGED vars PROVE Claims' /\ Seeded'
  <2>1. Quiet
    BY <1>10 DEF Quiet, vars, database
  <2> QED BY <1>2, <2>1, QuietStep DEF Quiet
<1>11. Claims' /\ Seeded'
  BY <1>3, <1>4, <1>5, <1>6, <1>7, <1>8, <1>9, <1>10 DEF Next, Run
<1> QED BY <1>1, <1>11 DEF IInv

LEMMA NextAlone == IInv /\ AloneInv /\ [Next]_vars => AloneInv'
<1> SUFFICES ASSUME IInv, AloneInv, [Next]_vars, ~overlapped' PROVE AloneInv'
  BY DEF AloneInv
<1>1. TypeOK /\ PlaceInv
  BY DEF IInv
<1>2. ~overlapped
  BY <1>1 DEF Next, Run, Launch, Baseline, BaselineAgain, ReadVersion, Execute, Raise,
              UpdateVersion, Commit, Close, Kill, Install, vars, TypeOK
<1>3. /\ \A r, s \in Runner : Running(r) /\ Running(s) => r = s
      /\ \A m \in Migration : applied[m] <= 1 /\ (m > version => applied[m] = 0)
      /\ \A r \in Runner : Pending(r) => version = file[r] - 1
      /\ \A r \in Runner : pc[r] = "failed" => file[r] <= first
  BY <1>2 DEF AloneInv
<1>4. ASSUME NEW r \in Runner, Launch(r) PROVE AloneInv'
  <2>1. /\ UNCHANGED <<version, applied, first, file>>
        /\ \A s \in Runner : ~Running(s)
        /\ pc[r]' = "baseline" /\ \A s \in Runner \ {r} : pc[s]' = pc[s]
    BY <1>1, <1>4 DEF Launch, Goto, database, TypeOK
  <2> QED BY <1>3, <2>1 DEF AloneInv, Running, Pending, Migration
<1>5. ASSUME NEW r \in Runner, Baseline(r) PROVE AloneInv'
  <2>1. /\ version = 0 /\ version' = 1
        /\ UNCHANGED <<applied, file>>
    BY <1>5 DEF Baseline
  <2>2. \A s \in Runner \ {r} : ~Running(s)
    BY <1>3, <1>5 DEF Baseline, Running
  <2>3. pc[r]' = "read" /\ \A s \in Runner \ {r} : pc[s]' = pc[s]
    BY <1>5, <2>2 DEF Baseline, Running
  <2>4. first <= first' /\ first \in Nat /\ first' \in Nat /\ file \in [Runner -> Nat]
    BY <1>1, <1>5, <2>1 DEF Baseline, TypeOK, IInv
  <2>5. \A s, t \in Runner : (Running(s) /\ Running(t))' => s = t
    BY <2>2, <2>3 DEF Running
  <2>6. \A s \in Runner : ~Pending(s)'
    BY <2>2, <2>3 DEF Running, Pending
  <2>7. \A s \in Runner : (pc[s] = "failed" => file[s] <= first)'
    BY <1>3, <2>1, <2>3, <2>4
  <2>8. \A m \in Migration : (applied[m] <= 1 /\ (m > version => applied[m] = 0))'
    BY <1>3, <2>1 DEF Migration
  <2> QED BY <2>5, <2>6, <2>7, <2>8 DEF AloneInv, Migration
<1>6. ASSUME NEW r \in Runner, Running(r), UNCHANGED <<version, applied, first>>,
             \A s \in Runner \ {r} : pc[s]' = pc[s] /\ file[s]' = file[s],
             Pending(r)' => version = file[r]' - 1,
             pc[r]' = "failed" => file[r]' <= first
      PROVE  AloneInv'
  <2>1. \A s \in Runner \ {r} : ~Running(s)
    BY <1>3, <1>6
  <2>2. \A s, t \in Runner : (Running(s) /\ Running(t))' => s = t
    BY <1>6, <2>1 DEF Running
  <2>3. \A s \in Runner : (Pending(s) => version = file[s] - 1)'
    BY <1>3, <1>6 DEF Pending
  <2>4. \A s \in Runner : (pc[s] = "failed" => file[s] <= first)'
    BY <1>3, <1>6
  <2>5. \A m \in Migration : (applied[m] <= 1 /\ (m > version => applied[m] = 0))'
    BY <1>3, <1>6
  <2> QED BY <2>2, <2>3, <2>4, <2>5 DEF AloneInv, Migration
<1>7. ASSUME NEW r \in Runner, BaselineAgain(r) \/ Execute(r) \/ UpdateVersion(r) \/ Kill(r)
      PROVE  AloneInv'
  <2>1. /\ Running(r) /\ UNCHANGED <<version, applied, first>>
        /\ \A s \in Runner \ {r} : pc[s]' = pc[s] /\ file[s]' = file[s]
        /\ file[r]' = file[r]
    BY <1>1, <1>7 DEF BaselineAgain, Execute, UpdateVersion, Kill, Goto, database,
                      TypeOK, Running
  <2>2. (Pending(r)' => Pending(r)) /\ pc[r]' # "failed"
    BY <1>1, <1>7 DEF BaselineAgain, Execute, UpdateVersion, Kill, Goto, TypeOK, Pending
  <2> QED BY <1>3, <1>6, <2>1, <2>2
<1>8. ASSUME NEW r \in Runner, Raise(r) PROVE AloneInv'
  <2>1. /\ Running(r) /\ Pending(r) /\ UNCHANGED <<version, applied, first, file>>
        /\ pc[r]' = "failed" /\ \A s \in Runner \ {r} : pc[s]' = pc[s]
    BY <1>1, <1>8 DEF Raise, Goto, database, TypeOK, Running, Pending
  <2>2. file[r] \in Migration /\ version = file[r] - 1 /\ There(file[r])
    BY <1>1, <1>3, <1>8, <2>1 DEF Raise, PlaceInv
  <2>3. file[r] <= first
    BY <1>1, <1>3, <2>2 DEF There, Migration, TypeOK
  <2> QED BY <1>6, <2>1, <2>3 DEF Pending
<1>9. ASSUME NEW r \in Runner, ReadVersion(r) PROVE AloneInv'
  <2>1. /\ Running(r) /\ UNCHANGED <<version, applied, first>>
        /\ \A s \in Runner \ {r} : pc[s]' = pc[s] /\ file[s]' = file[s]
        /\ file[r]' = version + 1 /\ pc[r]' # "failed"
    BY <1>1, <1>9 DEF ReadVersion, NextFile, Goto, database, TypeOK, Running
  <2>2. version = file[r]' - 1
    BY <1>1, <2>1 DEF TypeOK
  <2> QED BY <1>6, <2>1, <2>2
<1>10. ASSUME NEW r \in Runner, Commit(r) PROVE AloneInv'
  <2>1. /\ Pending(r) /\ Running(r) /\ file[r] \in Migration /\ version = file[r] - 1
        /\ version' = file[r] /\ first' = first
        /\ applied' = [applied EXCEPT ![file[r]] = Twice(@)]
    BY <1>1, <1>3, <1>10 DEF Commit, Pending, Running, PlaceInv
  <2>2. /\ \A s \in Runner \ {r} : pc[s]' = pc[s] /\ file[s]' = file[s]
        /\ file[r]' = file[r] + 1 /\ pc[r]' # "failed"
    BY <1>1, <1>10 DEF Commit, NextFile, Goto, TypeOK
  <2>3. \A s \in Runner \ {r} : ~Running(s)
    BY <1>3, <2>1
  <2>4. \A m \in Migration :
          applied'[m] = IF m = file[r] THEN Twice(applied[m]) ELSE applied[m]
    BY <1>1, <2>1 DEF TypeOK
  <2>5. \A m \in Migration : (applied[m] <= 1 /\ (m > version => applied[m] = 0))'
    BY <1>3, <2>1, <2>4 DEF Twice, Migration
  <2>6. \A s, t \in Runner : (Running(s) /\ Running(t))' => s = t
    BY <2>2, <2>3 DEF Running
  <2>7. \A s \in Runner : (Pending(s) => version = file[s] - 1)'
    BY <2>1, <2>2, <2>3 DEF Pending, Running, Migration
  <2>8. \A s \in Runner : (pc[s] = "failed" => file[s] <= first)'
    BY <1>3, <2>1, <2>2
  <2> QED BY <2>5, <2>6, <2>7, <2>8 DEF AloneInv, Migration
<1>11. ASSUME NEW r \in Runner, Close(r) PROVE AloneInv'
  <2>1. /\ UNCHANGED <<version, applied, first, file>>
        /\ \A s \in Runner : pc[s]' = pc[s] \/ pc[s]' = "off"
    BY <1>1, <1>11 DEF Close, Goto, database, TypeOK
  <2> QED BY <1>3, <2>1 DEF AloneInv, Running, Pending, Migration
<1>12. ASSUME Install \/ UNCHANGED vars PROVE AloneInv'
  <2>1. UNCHANGED <<version, applied, first, file, pc>>
    BY <1>12 DEF Install, vars, database
  <2> QED BY <1>3, <2>1 DEF AloneInv, Running, Pending, Migration
<1> QED BY <1>4, <1>5, <1>7, <1>8, <1>9, <1>10, <1>11, <1>12 DEF Next, Run

-----------------------------------------------------------------------------
(* The theorems. *)

\* Every variable keeps its type.
THEOREM TypeCorrect == Spec => []TypeOK
<1>1. IInv => TypeOK
  BY DEF IInv
<1> QED BY <1>1, InitInv, NextInv, PTL DEF Spec

\* migrate.run_all: the stored version never claims a migration whose change
\* is not there, however many runs overlap and wherever one is killed.
THEOREM NothingSkippedAlways == Spec => []NothingSkipped
<1>1. IInv => NothingSkipped
  BY DEF IInv
<1> QED BY <1>1, InitInv, NextInv, PTL DEF Spec

\* main.py: a program that serves has every change of its release.
THEOREM ServesUpToDateAlways == Spec => []ServesUpToDate
<1>1. IInv => ServesUpToDate
  BY DEF IInv, TypeOK, PlaceInv, PassedInv, ServesUpToDate, Reached, Migration
<1> QED BY <1>1, InitInv, NextInv, PTL DEF Spec

\* migrate.run_all: runs that never overlapped apply each migration once, and
\* fail only at one whose change the baseline had brought.
THEOREM OnceIfAloneAlways == Spec => []OnceIfAlone
<1>1. AloneInv => OnceIfAlone
  BY DEF AloneInv, OnceIfAlone
<1> QED BY <1>1, InitInv, NextInv, NextAlone, PTL DEF Spec
=============================================================================
