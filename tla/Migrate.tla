------------------------------- MODULE Migrate -------------------------------
(***************************************************************************)
(* migrate.run_all: the baseline, then the numbered migrations above the   *)
(* version that schema_version had when the run began, each with its       *)
(* UPDATE of the version in one transaction.  Runs of several windows may  *)
(* overlap, a window may be killed, and a new release may be installed.    *)
(*                                                                         *)
(* A migration is reduced to how often it has been committed, and whether  *)
(* the baseline that made the tables had its change already; whether the   *)
(* file of a change that is there raises depends on what it says (ADD      *)
(* COLUMN does, UPDATE does not), so both may happen.  Left out: tables    *)
(* that the baseline of a later release adds.                              *)
(***************************************************************************)
EXTENDS Naturals

CONSTANTS
    Runner,         \* windows of the program that may be open
    Last,           \* the number of the last release's migration
    MaxCrashes      \* bound: how often a window is killed

ASSUME MigrateAssumption == Last \in Nat \ {0} /\ MaxCrashes \in Nat

VARIABLES
    version,        \* schema_version; 0: no such table
    applied,        \* how often each migration has been committed
    first,          \* the release whose baseline made the tables; 0: none
    release,        \* the last migration of the release that is installed
    pc,
    current,        \* the version each run has read
    file,           \* the migration each run is at
    overlapped,     \* has a run begun during another one?
    crashes

database == <<version, applied, first>>
vars == <<database, release, pc, current, file, overlapped, crashes>>

Migration == 2..Last

\* The change of migration m is in the database.
There(m) == m <= first \/ applied[m] > 0

Init ==
    /\ version = 0
    /\ applied = [m \in Migration |-> 0]
    /\ first = 0
    /\ release \in 1..Last
    /\ pc = [r \in Runner |-> "off"]
    /\ current = [r \in Runner |-> 0]
    /\ file = [r \in Runner |-> 0]
    /\ overlapped = FALSE
    /\ crashes = 0

Goto(r, stage) == pc' = [pc EXCEPT ![r] = stage]

\* A run holds the locks of what it has executed until its commit.
Executed(r) == pc[r] \in {"update", "commit"}
Updated(r) == pc[r] = "commit"

Running(r) == pc[r] \notin {"off", "serving", "failed"}

-----------------------------------------------------------------------------
Launch(r) ==
    /\ pc[r] \in {"off", "failed"}
    /\ Goto(r, "baseline")
    /\ overlapped' = (overlapped \/ \E s \in Runner : Running(s))
    /\ UNCHANGED <<database, release, current, file, crashes>>

\* Mutant: each start counts the version up
BaselineCounts(r) ==
    /\ pc[r] = "baseline"
    /\ version' = version + 1
    /\ first' = IF version = 0 THEN release ELSE first
    /\ Goto(r, "read")
    /\ UNCHANGED <<applied, release, current, file, overlapped, crashes>>

\* The tables are there.
BaselineAgain(r) ==
    /\ pc[r] = "baseline" /\ version > 0
    /\ Goto(r, "read")
    /\ UNCHANGED <<database, release, current, file, overlapped, crashes>>

\* schema.sql makes the tables of its release, and seeds the version with 1.
\* Runs that were about to make them too waited for this commit, and raise.
Baseline(r) ==
    /\ pc[r] = "baseline" /\ version = 0
    /\ version' = 1
    /\ first' = release
    /\ \E late \in SUBSET {s \in Runner \ {r} : pc[s] = "baseline"} :
           pc' = [s \in Runner |-> IF s = r THEN "read"
                                  ELSE IF s \in late THEN "failed" ELSE pc[s]]
    /\ UNCHANGED <<applied, release, current, file, overlapped, crashes>>

\* Mutant: version <= current + 1
NextFileSkips(r, m) ==
    /\ file' = [file EXCEPT ![r] = m + 2]
    /\ Goto(r, IF m + 2 <= release THEN "execute" ELSE "serving")

\* On to the first file whose version is above m, if there is one.
NextFile(r, m) ==
    /\ file' = [file EXCEPT ![r] = m + 1]
    /\ Goto(r, IF m + 1 <= release THEN "execute" ELSE "serving")

ReadVersion(r) ==
    /\ pc[r] = "read"
    /\ current' = [current EXCEPT ![r] = version]
    /\ NextFile(r, version)
    /\ UNCHANGED <<database, release, overlapped, crashes>>

\* A run waits for another one that has executed the same file.
Execute(r) ==
    /\ pc[r] = "execute"
    /\ \A s \in Runner \ {r} : ~(Executed(s) /\ file[s] = file[r])
    /\ Goto(r, "update")
    /\ UNCHANGED <<database, release, current, file, overlapped, crashes>>

\* The file's change is there already and its statement raises.
Raise(r) ==
    /\ pc[r] = "execute"
    /\ There(file[r])
    /\ \A s \in Runner \ {r} : ~(Executed(s) /\ file[s] = file[r])
    /\ Goto(r, "failed")
    /\ UNCHANGED <<database, release, current, file, overlapped, crashes>>

\* Mutant: autocommit
UpdateVersionAutocommit(r) ==
    /\ pc[r] = "update"
    /\ \A s \in Runner \ {r} : ~Updated(s)
    /\ version' = file[r]
    /\ Goto(r, "commit")
    /\ UNCHANGED <<applied, first, release, current, file, overlapped, crashes>>

\* The row of schema_version is locked by one run at a time.
UpdateVersion(r) ==
    /\ pc[r] = "update"
    /\ \A s \in Runner \ {r} : ~Updated(s)
    /\ Goto(r, "commit")
    /\ UNCHANGED <<database, release, current, file, overlapped, crashes>>

Twice(n) == IF n < 2 THEN n + 1 ELSE n

\* Mutant: the UPDATE of schema_version is forgotten
CommitNoVersion(r) ==
    /\ pc[r] = "commit"
    /\ applied' = [applied EXCEPT ![file[r]] = Twice(@)]
    /\ NextFile(r, file[r])
    /\ UNCHANGED <<version, first, release, current, overlapped, crashes>>

\* Mutant: the files are looked up again from what was read at the start
CommitRestarts(r) ==
    /\ pc[r] = "commit"
    /\ version' = file[r]
    /\ applied' = [applied EXCEPT ![file[r]] = Twice(@)]
    /\ NextFile(r, current[r])
    /\ UNCHANGED <<first, release, current, overlapped, crashes>>

Commit(r) ==
    /\ pc[r] = "commit"
    /\ version' = file[r]
    /\ applied' = [applied EXCEPT ![file[r]] = Twice(@)]
    /\ NextFile(r, file[r])
    /\ UNCHANGED <<first, release, current, overlapped, crashes>>

Close(r) ==
    /\ pc[r] = "serving"
    /\ Goto(r, "off")
    /\ UNCHANGED <<database, release, current, file, overlapped, crashes>>

\* The server rolls the open transaction back.
Kill(r) ==
    /\ Running(r)
    /\ crashes < MaxCrashes
    /\ crashes' = crashes + 1
    /\ Goto(r, "off")
    /\ UNCHANGED <<database, release, current, file, overlapped>>

\* A newer release, whose migrations have higher numbers.
Install ==
    /\ \A r \in Runner : pc[r] \in {"off", "failed"}
    /\ release < Last
    /\ release' = release + 1
    /\ UNCHANGED <<database, pc, current, file, overlapped, crashes>>

Run(r) ==
    \/ Baseline(r) \/ BaselineAgain(r)
    \/ ReadVersion(r)
    \/ Execute(r)
    \/ Raise(r)
    \/ UpdateVersion(r)
    \/ Commit(r)

Next ==
    \/ \E r \in Runner : Launch(r) \/ Run(r) \/ Close(r) \/ Kill(r)
    \/ Install

Spec == Init /\ [][Next]_vars

\* A run that nobody kills goes on, and what it waits for it gets in turn.
FairSpec == Spec /\ \A r \in Runner : SF_vars(Run(r))

-----------------------------------------------------------------------------
TypeOK ==
    /\ version \in 0..Last
    /\ applied \in [Migration -> 0..2]
    /\ first \in 0..Last
    /\ release \in 1..Last
    /\ pc \in [Runner -> {"off", "baseline", "read", "execute", "update",
                          "commit", "serving", "failed"}]
    /\ current \in [Runner -> 0..Last]
    /\ file \in [Runner -> 0..Last + 1]
    /\ overlapped \in BOOLEAN
    /\ crashes \in 0..MaxCrashes

\* The stored version never claims a migration whose change is not there,
\* even when overlapping runs move it backwards.
NothingSkipped == \A m \in Migration : m <= version => There(m)

\* A program that serves has every change of its release.
ServesUpToDate ==
    \A r \in Runner : pc[r] = "serving" =>
        \A m \in Migration : m <= release => There(m)

\* Runs that have never overlapped apply each migration once, and fail only
\* at one that the baseline had already, whatever was killed in between.
OnceIfAlone ==
    ~overlapped =>
        /\ \A m \in Migration : applied[m] <= 1
        /\ \A r \in Runner : pc[r] = "failed" => file[r] <= first

\* Every run ends: no two runs wait for each other.
EveryRunEnds == \A r \in Runner : Running(r) ~> ~Running(r)
=============================================================================
