--------------------------- MODULE LifecycleProofs ---------------------------
(***************************************************************************)
(* What holds of Lifecycle for every number of windows and every bound on  *)
(* crashes, with proofs.  The inductive invariant has five parts, each     *)
(* about one thing the launches have or share:                             *)
(*                                                                         *)
(*   DiskInv       the data directory, which is never made twice;          *)
(*   SetupInv      the password, on its way through the first-time setup;  *)
(*   FlaskInv      the Flask thread, which comes with a window;            *)
(*   ConnectedInv  the server, under those that rely on it;                *)
(*   CareInv       the server's end, which somebody sees to.               *)
(***************************************************************************)
EXTENDS Lifecycle, FiniteSetTheorems, TLAPS

USE LifecycleAssumption

-----------------------------------------------------------------------------
(* The inductive invariant.                                                *)

\* An instance that has a configuration and goes on with it.
Configured ==
    {"first create", "first create db", "probe", "start", "starting", "wait", "create",
     "create db", "register", "connect", "migrate", "open", "load", "serving", "blank"}

\* From here on the data directory is not made any more.
DiskInv ==
    /\ config # NoPassword => pgdata = "ready"
    /\ \A i \in Instance :
        /\ At(i, "initdb running") => pgdata # "absent"
        /\ pc[i] \in {"write config", "writing config"} \cup Configured => pgdata = "ready"

\* The password that instance i has made is on its way: to the password file,
\* to the cluster, and last to the configuration.
OwnSetup(i) ==
    /\ pc[i] \in SetupStages =>
        /\ secret[i] \in Password
        /\ config = IF At(i, "writing config") THEN Torn ELSE NoPassword
    /\ At(i, "initdb") => pwfile = secret[i]
    /\ pc[i] \in {"initdb running", "write config", "writing config"} \cup Configured
        => secret[i] = cluster

\* One setup at a time: nobody finds a configuration before the cluster has
\* its password.
SetupInv ==
    ~together =>
        /\ config \in Password => config = cluster
        /\ \A i, j \in Instance : pc[i] \in SetupStages /\ pc[j] \in SetupStages => i = j
        /\ \A i \in Instance : OwnSetup(i)

\* Whoever has a connection has a server, and whoever has a window has the
\* database too, until another process ends.
ConnectedInv ==
    /\ \A i \in Instance : Connected(i) => CanConnect(i)
    /\ \A i \in Instance : At(i, "migrate") => database
    /\ \A i \in Instance \ bereft : HasWindow(i) => CanConnect(i) /\ database /\ schema
    /\ \A i \in Instance \ bereft : At(i, "serving") => FlaskUp # {}

\* A Flask thread comes with a window.
FlaskInv ==
    \A i \in Instance : pc[i] \notin {"load", "serving", "blank"} => flask[i] = "off"

\* Instance i will stop the server, or is about to promise it.
Caretaker(i) ==
    \/ atExit[i]
    \/ pc[i] \in {"probe", "starting", "wait", "create", "register"}
    \/ At(i, "create db") /\ ~database

\* Nothing was killed, no setup shared, and no launch gave up on the server.
Undisturbed == crashes = 0 /\ ~together /\ ~late

CareInv ==
    /\ \A i \in Instance : atExit[i] => ~At(i, "off")
    /\ \A i \in Instance :
        pc[i] \in {"connect", "migrate", "open", "load", "serving", "blank"} => atExit[i]
    /\ Running /\ Undisturbed => \E i \in Instance : Caretaker(i)
    /\ server = "starting" /\ Undisturbed => \E i \in Instance : At(i, "starting")

IInv == TypeOK /\ DiskInv /\ SetupInv /\ FlaskInv /\ ConnectedInv /\ CareInv

-----------------------------------------------------------------------------
(* Passwords.                                                              *)

\* secrets.token_urlsafe: there is a password that nothing holds yet.
LEMMA PasswordIsNew ==
  ASSUME TypeOK PROVE NewPassword \in Password /\ NewPassword \notin InUse
<1> DEFINE Known == {secret[i] : i \in Instance}
           Two == Known \cup {pwfile}
           Three == Two \cup {config}
           N == Cardinality(Instance)
<1>1. IsFiniteSet(Known) /\ Cardinality(Known) <= N
  <2>1. secret \in [Instance -> Known]
    BY DEF TypeOK
  <2>2. secret \in Surjection(Instance, Known)
    BY <2>1 DEF Surjection
  <2> QED BY <2>2, FS_Surjection DEF LifecycleAssumption
<1>2. \A S : IsFiniteSet(S) => Cardinality(S) \in Nat
  BY FS_CardinalityType
<1>3. \A S, x : IsFiniteSet(S) =>
        /\ IsFiniteSet(S \cup {x})
        /\ Cardinality(S \cup {x}) <= Cardinality(S) + 1
  <2> SUFFICES ASSUME NEW S, NEW x, IsFiniteSet(S)
               PROVE  /\ IsFiniteSet(S \cup {x})
                      /\ Cardinality(S \cup {x}) <= Cardinality(S) + 1
    OBVIOUS
  <2>1. /\ IsFiniteSet(S \cup {x})
        /\ Cardinality(S \cup {x}) = IF x \in S THEN Cardinality(S) ELSE Cardinality(S) + 1
    BY FS_AddElement
  <2> QED BY <1>2, <2>1
<1> HIDE DEF Known, Two, Three, N
<1>4. /\ IsFiniteSet(Three \cup {cluster})
      /\ Cardinality(Three \cup {cluster}) <= N + 3
  <2>1. IsFiniteSet(Two) /\ Cardinality(Two) <= Cardinality(Known) + 1
    BY <1>1, <1>3 DEF Two
  <2>2. IsFiniteSet(Three) /\ Cardinality(Three) <= Cardinality(Two) + 1
    BY <1>3, <2>1 DEF Three
  <2>3. /\ IsFiniteSet(Three \cup {cluster})
        /\ Cardinality(Three \cup {cluster}) <= Cardinality(Three) + 1
    BY <1>3, <2>2
  <2>4. /\ Cardinality(Known) \in Nat /\ Cardinality(Two) \in Nat
        /\ Cardinality(Three) \in Nat /\ Cardinality(Three \cup {cluster}) \in Nat
        /\ N \in Nat
    BY <1>1, <1>2, <2>1, <2>2, <2>3 DEF LifecycleAssumption, N
  <2> QED BY <1>1, <2>1, <2>2, <2>3, <2>4
<1>5. InUse = Three \cup {cluster}
  BY DEF InUse, Known, Two, Three
<1>6. ~(Password \subseteq InUse)
  <2> SUFFICES ASSUME Password \subseteq InUse PROVE FALSE
    OBVIOUS
  <2>1. Cardinality(Password) <= Cardinality(InUse)
    BY <1>4, <1>5, FS_Subset
  <2>2. Cardinality(Password) \in Nat /\ Cardinality(InUse) \in Nat /\ N \in Nat
    BY <1>2, <1>4, <1>5 DEF LifecycleAssumption, N
  <2>3. Cardinality(Password) > N + 3
    BY DEF LifecycleAssumption, N
  <2> QED BY <1>4, <1>5, <2>1, <2>2, <2>3
<1> QED BY <1>6 DEF NewPassword

-----------------------------------------------------------------------------
(* The types.                                                              *)

LEMMA GotoStage ==
  ASSUME TypeOK, NEW i \in Instance, NEW stage \in Stages, Goto(i, stage)
  PROVE  /\ pc' \in [Instance -> Stages]
         /\ together' \in BOOLEAN
         /\ pc'[i] = stage
         /\ \A j \in Instance \ {i} : pc'[j] = pc[j]
  BY DEF TypeOK, Goto

\* The steps of ensure_running that only look at the server.
Await(i) ==
    \/ Answered(i) \/ Unanswered(i) \/ SeeStarted(i) \/ StartTimesOut(i)
    \/ WaitReady(i) \/ WaitTimesOut(i)

LEMMA AwaitStep ==
  ASSUME TypeOK, NEW i \in Instance, Await(i)
  PROVE  /\ pc[i] \in {"probe", "starting", "wait"}
         /\ \E stage \in {"register", "start", "wait", "create", "failed"} : Goto(i, stage)
         /\ UNCHANGED <<secret, atExit, flask, disk, server, portTaken, crashes, bereft>>
         /\ late' \in BOOLEAN
<1> USE DEF At, Fail, TypeOK, world
<1>1. CASE Answered(i) \/ Unanswered(i)
  BY <1>1 DEF Answered, Unanswered, CanConnect
<1>2. CASE SeeStarted(i) \/ StartTimesOut(i)
  BY <1>2 DEF SeeStarted, StartTimesOut
<1>3. CASE WaitReady(i) \/ WaitTimesOut(i)
  BY <1>3 DEF WaitReady, WaitTimesOut, CanConnect
<1> QED BY <1>1, <1>2, <1>3 DEF Await

LEMMA InitType == Init => TypeOK
<1> SUFFICES ASSUME Init PROVE TypeOK
  OBVIOUS
<1>1. "off" \in Stages /\ 0 \in 0 .. MaxCrashes
  BY DEF Stages, LifecycleAssumption
<1> QED BY <1>1 DEF Init, TypeOK

LEMMA NextType == TypeOK /\ [Next]_vars => TypeOK'
<1> SUFFICES ASSUME TypeOK, [Next]_vars PROVE TypeOK'
  OBVIOUS
<1> USE DEF TypeOK, disk, world
<1>1. ASSUME NEW i \in Instance, Launch(i) \/ LookForDatabase(i) \/ Await(i) PROVE TypeOK'
  <2>1. \E stage \in Stages : Goto(i, stage)
    BY <1>1, AwaitStep DEF Launch, LookForDatabase, AfterCreate, Fail, Stages
  <2>2. /\ UNCHANGED <<secret, atExit, flask, disk, server, portTaken, crashes, bereft>>
        /\ late' \in BOOLEAN
    BY <1>1, AwaitStep DEF Launch, LookForDatabase
  <2> QED BY <2>1, <2>2, GotoStage
<1>2. ASSUME NEW i \in Instance, GetConfig(i) PROVE TypeOK'
  <2>1. \E stage \in Stages : Goto(i, stage)
    BY <1>2 DEF GetConfig, Fail, Stages, SetupStages
  <2>2. /\ \/ secret' = secret
           \/ \E p \in Password : secret' = [secret EXCEPT ![i] = p]
        /\ UNCHANGED <<atExit, flask, disk, world>>
    BY <1>2, PasswordIsNew DEF GetConfig
  <2> QED BY <2>1, <2>2, GotoStage
<1>3. ASSUME NEW i \in Instance, WritePwfile(i) \/ InitdbBegin(i) \/ InitdbEnd(i) PROVE TypeOK'
  <2>1. \E stage \in Stages : Goto(i, stage)
    BY <1>3 DEF WritePwfile, InitdbBegin, InitdbEnd, Fail, Stages, SetupStages
  <2>2. /\ pwfile' \in Password \cup {NoPassword}
        /\ pgdata' \in {"absent", "partial", "ready"}
        /\ cluster' \in Password \cup {NoPassword}
        /\ UNCHANGED <<secret, atExit, flask, config, database, schema, world>>
    BY <1>3 DEF WritePwfile, InitdbBegin, InitdbEnd
  <2> QED BY <2>1, <2>2, GotoStage
<1>4. ASSUME NEW i \in Instance,
             WriteConfigBegin(i) \/ WriteConfigEnd(i) \/ CreateDatabase(i) \/ RunAll(i)
      PROVE  TypeOK'
  <2>1. \E stage \in Stages : Goto(i, stage)
    BY <1>4 DEF WriteConfigBegin, WriteConfigEnd, CreateDatabase, RunAll, AfterCreate, Fail,
                Stages, SetupStages
  <2>2. /\ config' \in Password \cup {NoPassword, Torn}
        /\ database' \in BOOLEAN /\ schema' \in BOOLEAN
        /\ UNCHANGED <<secret, atExit, flask, pwfile, pgdata, cluster, world>>
    BY <1>4 DEF WriteConfigBegin, WriteConfigEnd, CreateDatabase, RunAll
  <2> QED BY <2>1, <2>2, GotoStage
<1>5. ASSUME NEW i \in Instance,
             \/ StartPostgres(i) \/ RegisterStop(i) \/ ConnectToMigrate(i) \/ OpenWindow(i)
             \/ ShowPage(i) \/ StayBlank(i)
      PROVE  TypeOK'
  <2>1. \E stage \in Stages : Goto(i, stage)
    BY <1>5 DEF StartPostgres, RegisterStop, ConnectToMigrate, OpenWindow, ShowPage,
                StayBlank, Fail, Stages
  <2>2. /\ server' \in {"down", "starting", "up", "stopping"}
        /\ atExit' \in [Instance -> BOOLEAN]
        /\ flask' \in [Instance -> {"off", "starting", "up", "dead"}]
        /\ UNCHANGED <<secret, disk, portTaken, crashes, bereft, late>>
    BY <1>5 DEF StartPostgres, RegisterStop, ConnectToMigrate, OpenWindow, ShowPage, StayBlank
  <2> QED BY <2>1, <2>2, GotoStage
<1>6. ASSUME NEW i \in Instance, RunFlask(i) PROVE TypeOK'
  BY <1>6 DEF RunFlask
<1>7. ASSUME NEW i \in Instance, Exit(i) PROVE TypeOK'
  BY <1>7 DEF Exit, Stages
<1>8. ASSUME NEW I \in SUBSET Instance, Vanish(I),
             server' \in {"down", "starting", "up", "stopping"}, portTaken' \in BOOLEAN,
             late' \in BOOLEAN
      PROVE  TypeOK'
  <2>1. /\ pc' \in [Instance -> Stages]
        /\ secret' \in [Instance -> Password \cup {NoPassword}]
        /\ atExit' \in [Instance -> BOOLEAN]
    BY <1>8 DEF Vanish, Stages
  <2>2. /\ flask' \in [Instance -> {"off", "starting", "up", "dead"}]
        /\ bereft' \in SUBSET Instance /\ crashes' \in 0 .. MaxCrashes
    BY <1>8 DEF Vanish, LifecycleAssumption
  <2> QED BY <1>8, <2>1, <2>2 DEF Vanish
<1>9. ASSUME NEW i \in Instance, Kill(i) PROVE TypeOK'
  BY <1>8, <1>9 DEF Kill
<1>10. ASSUME PowerLoss PROVE TypeOK'
  BY <1>8, <1>10 DEF PowerLoss
<1>11. ASSUME ServerStarts \/ ServerStops \/ TakePort \/ FreePort PROVE TypeOK'
  <2>1. CASE TakePort
    <3>1. crashes' \in 0 .. MaxCrashes
      BY <2>1 DEF TakePort, LifecycleAssumption
    <3> QED BY <2>1, <3>1 DEF TakePort
  <2> QED BY <1>11, <2>1 DEF ServerStarts, ServerStops, FreePort
<1>12. CASE UNCHANGED vars
  BY <1>12 DEF vars
<1> QED BY <1>1, <1>2, <1>3, <1>4, <1>5, <1>6, <1>7, <1>9, <1>10, <1>11, <1>12
        DEF Next, Main, Await

-----------------------------------------------------------------------------
(* The steps, as the data directory and the passwords see them.            *)

\* A configured instance goes on, or fails.
Onward(i) ==
    /\ pc[i] \in Configured
    /\ \E stage \in Configured \cup {"failed"} : Goto(i, stage)
    /\ UNCHANGED <<secret, pwfile, config, pgdata, cluster>>

\* Instances begin or end, if anything.
ComeAndGo ==
    /\ \A j \in Instance :
        \/ pc'[j] = pc[j] /\ secret'[j] = secret[j]
        \/ pc'[j] \in {"off", "configure", "failed"}
    /\ UNCHANGED <<together, pwfile, config, pgdata, cluster>>

SetUp(i) ==
    \/ GetConfig(i) \/ WritePwfile(i) \/ InitdbBegin(i) \/ InitdbEnd(i)
    \/ WriteConfigBegin(i) \/ WriteConfigEnd(i)

LEMMA Steps ==
  ASSUME TypeOK, [Next]_vars
  PROVE  ComeAndGo \/ \E i \in Instance : SetUp(i) \/ Onward(i)
<1> USE DEF disk, world
<1>1. ASSUME NEW i \in Instance,
             LookForDatabase(i) \/ CreateDatabase(i) \/ StartPostgres(i) \/ Await(i)
      PROVE  Onward(i)
  <2>1. \E stage \in Configured \cup {"failed"} : Goto(i, stage)
    BY <1>1, AwaitStep DEF LookForDatabase, CreateDatabase, StartPostgres,
                           AfterCreate, Fail, Configured
  <2>2. pc[i] \in Configured /\ UNCHANGED <<secret, pwfile, config, pgdata, cluster>>
    BY <1>1, AwaitStep DEF LookForDatabase, CreateDatabase, StartPostgres, At, Configured
  <2> QED BY <2>1, <2>2 DEF Onward
<1>2. ASSUME NEW i \in Instance,
             \/ RegisterStop(i) \/ ConnectToMigrate(i) \/ RunAll(i) \/ OpenWindow(i)
             \/ ShowPage(i) \/ StayBlank(i)
      PROVE  Onward(i)
  BY <1>2 DEF RegisterStop, ConnectToMigrate, RunAll, OpenWindow, ShowPage, StayBlank,
              Fail, At, Configured, Onward
<1>3. ASSUME NEW i \in Instance, Launch(i) PROVE ComeAndGo
  BY <1>3 DEF Launch, Goto, SetupStages, TypeOK, ComeAndGo
<1>4. ASSUME NEW i \in Instance, Exit(i) PROVE ComeAndGo
  BY <1>4 DEF Exit, TypeOK, ComeAndGo
<1>5. ASSUME NEW I \in SUBSET Instance, Vanish(I) PROVE ComeAndGo
  BY <1>5 DEF Vanish, TypeOK, ComeAndGo
<1>6. ASSUME \/ \E i \in Instance : RunFlask(i)
             \/ ServerStarts \/ ServerStops \/ TakePort \/ FreePort \/ UNCHANGED vars
      PROVE  ComeAndGo
  BY <1>6 DEF RunFlask, ServerStarts, ServerStops, TakePort, FreePort, vars, ComeAndGo
<1>7. (\E i \in Instance : Kill(i)) \/ PowerLoss => ComeAndGo
  BY <1>5 DEF Kill, PowerLoss
<1> QED BY <1>1, <1>2, <1>3, <1>4, <1>6, <1>7 DEF Next, Main, SetUp, Await

-----------------------------------------------------------------------------
(* The data directory and the password.                                    *)

LEMMA NextDisk == TypeOK /\ DiskInv /\ [Next]_vars => DiskInv'
<1> SUFFICES ASSUME TypeOK, DiskInv, [Next]_vars PROVE DiskInv'
  OBVIOUS
<1> USE DEF DiskInv, At
<1>1. ASSUME ComeAndGo PROVE DiskInv'
  BY <1>1 DEF ComeAndGo, Configured
<1>2. ASSUME NEW i \in Instance, Onward(i) PROVE DiskInv'
  BY <1>2 DEF Onward, Goto, TypeOK, Configured
<1>3. ASSUME NEW i \in Instance, SetUp(i) PROVE DiskInv'
  <2>1. CASE GetConfig(i)
    BY <2>1 DEF GetConfig, Fail, Goto, TypeOK, Configured, disk, LifecycleAssumption
  <2>2. CASE WritePwfile(i)
    BY <2>2 DEF WritePwfile, Goto, TypeOK, Configured
  <2>3. CASE InitdbBegin(i)
    BY <2>3 DEF InitdbBegin, Fail, Goto, TypeOK, Configured
  <2>4. CASE InitdbEnd(i)
    BY <2>4 DEF InitdbEnd, Goto, TypeOK, Configured
  <2>5. CASE WriteConfigBegin(i)
    BY <2>5 DEF WriteConfigBegin, Goto, TypeOK, Configured
  <2>6. CASE WriteConfigEnd(i)
    BY <2>6 DEF WriteConfigEnd, Goto, TypeOK, Configured
  <2> QED BY <1>3, <2>1, <2>2, <2>3, <2>4, <2>5, <2>6 DEF SetUp
<1> QED BY <1>1, <1>2, <1>3, Steps

LEMMA StagesApart ==
    /\ Configured \cap SetupStages = {}
    /\ \A stage \in {"off", "configure", "failed"} :
        stage \notin Configured /\ stage \notin SetupStages
    /\ {"initdb", "initdb running", "write config", "writing config"} \subseteq SetupStages
    /\ "probe" \in Configured /\ "first create" \in Configured /\ "pwfile" \in SetupStages
  BY DEF Configured, SetupStages

\* A step of instance i that leaves the others what they rely on keeps the
\* invariant if i does.
LEMMA SetupFrame ==
  ASSUME NEW i \in Instance, SetupInv, ~together,
         \A j \in Instance \ {i} : pc'[j] = pc[j] /\ secret'[j] = secret[j],
         pc'[i] \in SetupStages =>
            pc[i] \in SetupStages \/ \A j \in Instance \ {i} : pc[j] \notin SetupStages,
         \A j \in Instance \ {i} : pc[j] \in SetupStages => UNCHANGED <<config, pwfile>>,
         \A j \in Instance \ {i} :
            pc[j] \in Configured \cup {"initdb running", "write config", "writing config"} =>
                cluster' = cluster,
         config' \in Password => config' = cluster',
         OwnSetup(i)'
  PROVE  SetupInv'
<1>1. /\ \A j, k \in Instance : pc[j] \in SetupStages /\ pc[k] \in SetupStages => j = k
      /\ \A j \in Instance : OwnSetup(j)
  BY DEF SetupInv
<1>2. ASSUME NEW j \in Instance PROVE OwnSetup(j)'
  <2>1. CASE j = i
    BY <2>1
  <2>2. CASE j # i
    BY <1>1, <2>2, StagesApart DEF OwnSetup, At
  <2> QED BY <2>1, <2>2
<1>3. \A j, k \in Instance : pc'[j] \in SetupStages /\ pc'[k] \in SetupStages => j = k
  BY <1>1
<1> QED BY <1>2, <1>3 DEF SetupInv

LEMMA NextSetup == TypeOK /\ DiskInv /\ SetupInv /\ [Next]_vars => SetupInv'
<1> SUFFICES ASSUME TypeOK, DiskInv, SetupInv, [Next]_vars, ~together' PROVE SetupInv'
  BY DEF SetupInv
<1>1. ASSUME ComeAndGo PROVE SetupInv'
  <2>1. ~together /\ (config \in Password => config = cluster)
    BY <1>1 DEF ComeAndGo, SetupInv
  <2>2. \A j \in Instance : pc'[j] = pc[j] \/ (pc'[j] \notin SetupStages /\ pc'[j] \notin Configured)
    BY <1>1, StagesApart DEF ComeAndGo
  <2>3. \A j \in Instance : OwnSetup(j)'
    BY <1>1, <2>1, <2>2, StagesApart DEF ComeAndGo, SetupInv, OwnSetup, At
  <2> QED BY <1>1, <2>1, <2>2, <2>3 DEF ComeAndGo, SetupInv
<1>2. ASSUME NEW i \in Instance, NEW stage, Goto(i, stage)
      PROVE  /\ ~together /\ pc'[i] = stage
             /\ \A j \in Instance \ {i} : pc'[j] = pc[j]
             /\ stage \in SetupStages => \A j \in Instance \ {i} : pc[j] \notin SetupStages
  BY <1>2 DEF Goto, TypeOK
<1>3. ~together => /\ config \in Password => config = cluster
                   /\ \A j \in Instance : OwnSetup(j)
  BY DEF SetupInv
<1>4. ASSUME NEW i \in Instance, Onward(i) PROVE SetupInv'
  <2>1. PICK stage \in Configured \cup {"failed"} : Goto(i, stage)
    BY <1>4 DEF Onward
  <2>2. UNCHANGED <<secret, pwfile, config, pgdata, cluster>> /\ pc[i] \in Configured
    BY <1>4 DEF Onward
  <2>3. OwnSetup(i)'
    BY <1>2, <1>3, <2>1, <2>2, StagesApart DEF OwnSetup, At
  <2> QED BY <1>2, <1>3, <2>1, <2>2, <2>3, StagesApart, SetupFrame
<1>5. ASSUME NEW i \in Instance, GetConfig(i) PROVE SetupInv'
  <2>1. /\ UNCHANGED <<pwfile, config, pgdata, cluster>>
        /\ \A j \in Instance \ {i} : secret'[j] = secret[j]
    BY <1>5 DEF GetConfig, TypeOK, disk
  <2>2. CASE config = NoPassword /\ Goto(i, "pwfile") /\ secret'[i] \in Password
    <3>1. OwnSetup(i)'
      BY <1>2, <2>1, <2>2, StagesApart DEF OwnSetup, At
    <3> QED BY <1>2, <1>3, <2>1, <2>2, <3>1, SetupFrame
  <2>3. CASE Goto(i, "failed")
    <3>1. OwnSetup(i)'
      BY <1>2, <2>3, StagesApart DEF OwnSetup, At
    <3> QED BY <1>2, <1>3, <2>1, <2>3, <3>1, StagesApart, SetupFrame
  <2>4. CASE config \in Password /\ Goto(i, "probe") /\ secret'[i] = config
    <3>1. pc'[i] = "probe" /\ secret'[i] = cluster'
      BY <1>2, <1>3, <2>1, <2>4
    <3>2. OwnSetup(i)'
      BY <3>1, StagesApart DEF OwnSetup, At
    <3> QED BY <1>2, <1>3, <2>1, <2>4, <3>2, StagesApart, SetupFrame
  <2> QED BY <1>5, <2>2, <2>3, <2>4, PasswordIsNew DEF GetConfig, Fail, TypeOK
<1>6. ASSUME NEW i \in Instance, NEW stage \in SetupStages,
             Goto(i, stage), pc[i] \in SetupStages,
             UNCHANGED <<secret, cluster>>, config' \notin Password,
             OwnSetup(i)'
      PROVE  SetupInv'
  BY <1>2, <1>6, SetupFrame
<1>7. ASSUME NEW i \in Instance, WritePwfile(i) PROVE SetupInv'
  <2>1. /\ pc[i] = "pwfile" /\ Goto(i, "initdb") /\ pwfile' = secret[i]
        /\ UNCHANGED <<secret, config, cluster>>
    BY <1>7 DEF WritePwfile, At
  <2>2. OwnSetup(i)' /\ config = NoPassword
    BY <1>2, <1>3, <2>1, StagesApart DEF OwnSetup, At
  <2> QED BY <1>6, <2>1, <2>2, StagesApart DEF LifecycleAssumption
<1>8. ASSUME NEW i \in Instance, InitdbBegin(i) PROVE SetupInv'
  <2>1. pc[i] = "initdb" /\ UNCHANGED <<secret, config>>
    BY <1>8 DEF InitdbBegin, At
  <2>2. CASE pgdata = "absent" /\ cluster' = pwfile /\ Goto(i, "initdb running")
                /\ pwfile' = pwfile
    <3>1. OwnSetup(i)' /\ config = NoPassword
      BY <1>2, <1>3, <2>1, <2>2, StagesApart DEF OwnSetup, At
    <3>2. \A j \in Instance :
            pc[j] \notin Configured \cup {"initdb running", "write config", "writing config"}
      BY <2>2 DEF DiskInv, At
    <3> QED BY <1>2, <2>1, <2>2, <3>1, <3>2, StagesApart, SetupFrame DEF LifecycleAssumption
  <2>3. CASE cluster' = cluster /\ Goto(i, "failed")
    <3>1. OwnSetup(i)'
      BY <1>2, <2>3, StagesApart DEF OwnSetup, At
    <3>2. config = NoPassword
      BY <1>2, <1>3, <2>1, <2>3, StagesApart DEF OwnSetup, At
    <3>3. \A j \in Instance \ {i} : pc[j] \notin SetupStages
      BY <1>2, <2>1, <2>3, StagesApart DEF SetupInv
    <3> QED BY <1>2, <2>1, <2>3, <3>1, <3>2, <3>3, StagesApart, SetupFrame
            DEF LifecycleAssumption
  <2> QED BY <1>8, <2>2, <2>3 DEF InitdbBegin, Fail
<1>9. ASSUME NEW i \in Instance, InitdbEnd(i) PROVE SetupInv'
  <2>1. /\ pc[i] = "initdb running" /\ Goto(i, "write config")
        /\ UNCHANGED <<secret, config, cluster>>
    BY <1>9 DEF InitdbEnd, At
  <2>2. OwnSetup(i)' /\ config = NoPassword
    BY <1>2, <1>3, <2>1, StagesApart DEF OwnSetup, At
  <2> QED BY <1>6, <2>1, <2>2, StagesApart DEF LifecycleAssumption
<1>10. ASSUME NEW i \in Instance, WriteConfigBegin(i) PROVE SetupInv'
  <2>1. /\ pc[i] = "write config" /\ Goto(i, "writing config") /\ config' = Torn
        /\ UNCHANGED <<secret, pwfile, cluster>>
    BY <1>10 DEF WriteConfigBegin, At
  <2>2. OwnSetup(i)'
    BY <1>2, <1>3, <2>1, StagesApart DEF OwnSetup, At
  <2> QED BY <1>6, <2>1, <2>2, StagesApart DEF LifecycleAssumption
<1>11. ASSUME NEW i \in Instance, WriteConfigEnd(i) PROVE SetupInv'
  <2>1. /\ pc[i] = "writing config" /\ Goto(i, "first create") /\ config' = secret[i]
        /\ UNCHANGED <<secret, pwfile, cluster>>
    BY <1>11 DEF WriteConfigEnd, At
  <2>2. /\ OwnSetup(i)' /\ config' = cluster
        /\ \A j \in Instance \ {i} : pc[j] \notin SetupStages
    BY <1>2, <1>3, <2>1, StagesApart DEF OwnSetup, At, SetupInv
  <2> QED BY <1>2, <2>1, <2>2, StagesApart, SetupFrame
<1> QED BY <1>1, <1>4, <1>5, <1>7, <1>8, <1>9, <1>10, <1>11, Steps DEF SetUp

-----------------------------------------------------------------------------
(* The server and its users.                                               *)

\* The cluster is made once: its password stays while anybody is configured.
LEMMA ClusterStays ==
  ASSUME TypeOK, DiskInv, [Next]_vars, NEW i \in Instance, pc[i] \in Configured
  PROVE  cluster' = cluster
<1>1. \A j \in Instance : ~InitdbBegin(j) \/ cluster' = cluster
  BY DEF InitdbBegin, DiskInv
<1> QED BY <1>1, Steps DEF ComeAndGo, SetUp, Onward, GetConfig, WritePwfile, InitdbEnd,
                           WriteConfigBegin, WriteConfigEnd, disk

\* What a step of instance i by itself needs, to keep what is said of users.
LEMMA UserFrame ==
  ASSUME TypeOK, DiskInv, ConnectedInv, [Next]_vars, NEW i \in Instance,
         \A j \in Instance \ {i} : pc'[j] = pc[j] /\ secret'[j] = secret[j],
         UNCHANGED bereft,
         server = "up" => server' = "up",
         database => database', schema => schema',
         FlaskUp \subseteq FlaskUp',
         Connected(i)' => CanConnect(i)',
         At(i, "migrate")' => database',
         i \notin bereft /\ HasWindow(i)' => (CanConnect(i) /\ database /\ schema)',
         i \notin bereft /\ At(i, "serving")' => (FlaskUp # {})'
  PROVE  ConnectedInv'
<1>1. ASSUME NEW j \in Instance \ {i}
      PROVE  /\ Connected(j)' => CanConnect(j)'
             /\ At(j, "migrate")' => database'
             /\ j \notin bereft' /\ HasWindow(j)' => (CanConnect(j) /\ database /\ schema)'
             /\ j \notin bereft' /\ At(j, "serving")' => (FlaskUp # {})'
  <2>1. Connected(j) \/ HasWindow(j) => cluster' = cluster
    BY ClusterStays DEF Connected, HasWindow, Configured
  <2> QED BY <2>1 DEF ConnectedInv, Connected, HasWindow, CanConnect, At
<1> QED BY <1>1 DEF ConnectedInv

LEMMA NextFlask == TypeOK /\ FlaskInv /\ [Next]_vars => FlaskInv'
<1> SUFFICES ASSUME TypeOK, FlaskInv, [Next]_vars PROVE FlaskInv'
  OBVIOUS
<1> USE DEF FlaskInv, At, disk, world
<1>1. ASSUME UNCHANGED flask,
             \A j \in Instance : pc'[j] = pc[j] \/ flask[j] = "off"
                                 \/ pc'[j] \in {"load", "serving", "blank"}
      PROVE  FlaskInv'
  BY <1>1
<1>2. ASSUME NEW i \in Instance, Launch(i) \/ SetUp(i) PROVE FlaskInv'
  <2>1. \A j \in Instance \ {i} : pc'[j] = pc[j]
    BY <1>2 DEF Launch, SetUp, GetConfig, WritePwfile, InitdbBegin, InitdbEnd,
                WriteConfigBegin, WriteConfigEnd, Fail, Goto, TypeOK
  <2>2. UNCHANGED flask /\ pc[i] \notin {"load", "serving", "blank"}
    BY <1>2 DEF Launch, SetUp, GetConfig, WritePwfile, InitdbBegin, InitdbEnd,
                WriteConfigBegin, WriteConfigEnd
  <2> QED BY <1>1, <2>1, <2>2
<1>3. ASSUME NEW i \in Instance,
             \/ LookForDatabase(i) \/ CreateDatabase(i) \/ StartPostgres(i) \/ Await(i)
             \/ RegisterStop(i) \/ ConnectToMigrate(i) \/ RunAll(i)
      PROVE  FlaskInv'
  <2>1. \A j \in Instance \ {i} : pc'[j] = pc[j]
    <3>1. CASE Await(i)
      <4>1. \E stage : Goto(i, stage)
        BY <3>1, AwaitStep
      <4> QED BY <4>1 DEF Goto, TypeOK
    <3>2. CASE ~Await(i)
      BY <1>3, <3>2 DEF LookForDatabase, CreateDatabase, StartPostgres, RegisterStop,
                        ConnectToMigrate, RunAll, Fail, Goto, TypeOK
    <3> QED BY <3>1, <3>2
  <2>2. UNCHANGED flask /\ pc[i] \notin {"load", "serving", "blank"}
    BY <1>3, AwaitStep DEF LookForDatabase, CreateDatabase, StartPostgres,
                           RegisterStop, ConnectToMigrate, RunAll
  <2> QED BY <1>1, <2>1, <2>2
<1>4. ASSUME NEW i \in Instance, ShowPage(i) \/ StayBlank(i) PROVE FlaskInv'
  BY <1>1, <1>4 DEF ShowPage, StayBlank, Goto, TypeOK
<1>5. ASSUME NEW i \in Instance, OpenWindow(i) \/ RunFlask(i) PROVE FlaskInv'
  BY <1>5 DEF OpenWindow, RunFlask, Goto, TypeOK
<1>6. ASSUME NEW i \in Instance, Exit(i) PROVE FlaskInv'
  BY <1>6 DEF Exit, Connected, TypeOK
<1>7. ASSUME NEW I \in SUBSET Instance, Vanish(I) PROVE FlaskInv'
  BY <1>7 DEF Vanish, TypeOK
<1>8. ASSUME ServerStarts \/ ServerStops \/ TakePort \/ FreePort \/ UNCHANGED vars PROVE FlaskInv'
  BY <1>1, <1>8 DEF ServerStarts, ServerStops, TakePort, FreePort, vars
<1>9. (\E i \in Instance : Kill(i)) \/ PowerLoss => FlaskInv'
  BY <1>7 DEF Kill, PowerLoss
<1> QED BY <1>2, <1>3, <1>4, <1>5, <1>6, <1>8, <1>9 DEF Next, Main, SetUp, Await

\* The stages of those who use the server or show a window.
Using == {"first create db", "create db", "migrate", "open", "load", "serving"}

LEMMA NextConnected ==
  TypeOK /\ DiskInv /\ FlaskInv /\ ConnectedInv /\ [Next]_vars => ConnectedInv'
<1> SUFFICES ASSUME TypeOK, DiskInv, FlaskInv, ConnectedInv, [Next]_vars PROVE ConnectedInv'
  OBVIOUS
<1> USE DEF disk, world
<1>1. ASSUME NEW i \in Instance, NEW stage, Goto(i, stage)
      PROVE  pc'[i] = stage /\ \A j \in Instance \ {i} : pc'[j] = pc[j]
  BY <1>1 DEF Goto, TypeOK
<1>2. ASSUME NEW i \in Instance,
             NEW stage \in Stages \ Using, Goto(i, stage),
             \A j \in Instance \ {i} : secret'[j] = secret[j],
             UNCHANGED <<flask, bereft>>, server = "up" => server' = "up",
             database => database', schema => schema'
      PROVE  ConnectedInv'
  <2>1. pc'[i] = stage /\ \A j \in Instance \ {i} : pc'[j] = pc[j]
    BY <1>1, <1>2
  <2>2. ~Connected(i)' /\ ~HasWindow(i)' /\ ~At(i, "migrate")' /\ ~At(i, "serving")'
    BY <1>2, <2>1 DEF Connected, HasWindow, At, Using
  <2>3. FlaskUp' = FlaskUp
    BY <1>2 DEF FlaskUp
  <2> QED BY <1>2, <2>1, <2>2, <2>3, UserFrame
<1>3. ASSUME NEW i \in Instance,
             \/ Launch(i) \/ WritePwfile(i) \/ InitdbBegin(i) \/ InitdbEnd(i)
             \/ WriteConfigBegin(i) \/ WriteConfigEnd(i) \/ Await(i)
             \/ RegisterStop(i) \/ StayBlank(i)
      PROVE  ConnectedInv'
  <2>1. \E stage \in Stages \ Using : Goto(i, stage)
    BY <1>3, AwaitStep DEF Launch, WritePwfile, InitdbBegin, InitdbEnd, WriteConfigBegin,
                WriteConfigEnd, RegisterStop, StayBlank, Fail, Stages, SetupStages, Using
  <2>2. UNCHANGED <<secret, flask, bereft, server, database, schema>>
    BY <1>3, AwaitStep DEF Launch, WritePwfile, InitdbBegin, InitdbEnd, WriteConfigBegin,
                WriteConfigEnd, RegisterStop, StayBlank
  <2> QED BY <1>2, <2>1, <2>2
<1>4. ASSUME NEW i \in Instance, GetConfig(i) PROVE ConnectedInv'
  <2>1. \E stage \in Stages \ Using : Goto(i, stage)
    BY <1>4 DEF GetConfig, Fail, Stages, SetupStages, Using
  <2> QED BY <1>2, <1>4, <2>1 DEF GetConfig, TypeOK
<1>5. ASSUME NEW i \in Instance, StartPostgres(i) PROVE ConnectedInv'
  <2>1. \E stage \in Stages \ Using : Goto(i, stage)
    BY <1>5 DEF StartPostgres, Fail, Stages, Using
  <2> QED BY <1>2, <1>5, <2>1 DEF StartPostgres
<1>6. ASSUME NEW i \in Instance, NEW stage, Goto(i, stage), pc[i] \in Configured,
             UNCHANGED <<secret, bereft, server>>,
             database => database', schema => schema', FlaskUp \subseteq FlaskUp',
             stage \in {"first create db", "create db", "migrate"} => CanConnect(i),
             stage = "migrate" => database',
             i \notin bereft /\ stage \in {"open", "load", "serving"} =>
                CanConnect(i) /\ database' /\ schema',
             stage = "serving" => FlaskUp # {}
      PROVE  ConnectedInv'
  <2>1. pc'[i] = stage /\ \A j \in Instance \ {i} : pc'[j] = pc[j]
    BY <1>1, <1>6
  <2>2. CanConnect(i)' <=> CanConnect(i)
    BY <1>6, ClusterStays DEF CanConnect
  <2> QED BY <1>6, <2>1, <2>2, UserFrame DEF Connected, HasWindow, At
<1>7. ASSUME NEW i \in Instance, LookForDatabase(i) PROVE ConnectedInv'
  <2>1. PICK stage \in {"failed", "probe", "register", "create db", "first create db"} :
            Goto(i, stage) /\ (stage \in {"create db", "first create db"} => CanConnect(i))
    BY <1>7 DEF LookForDatabase, AfterCreate, Fail
  <2>2. /\ pc[i] \in Configured
        /\ UNCHANGED <<secret, flask, bereft, server, database, schema>>
    BY <1>7 DEF LookForDatabase, Configured, At
  <2> QED BY <1>6, <2>1, <2>2 DEF FlaskUp
<1>8. ASSUME NEW i \in Instance, CreateDatabase(i) PROVE ConnectedInv'
  <2>1. PICK stage \in {"failed", "probe", "register"} : Goto(i, stage)
    BY <1>8 DEF CreateDatabase, AfterCreate, Fail
  <2>2. /\ pc[i] \in Configured /\ database'
        /\ UNCHANGED <<secret, flask, bereft, server, schema>>
    BY <1>8 DEF CreateDatabase, Configured, At
  <2> QED BY <1>6, <2>1, <2>2 DEF FlaskUp
<1>9. ASSUME NEW i \in Instance, ConnectToMigrate(i) PROVE ConnectedInv'
  <2>1. PICK stage \in {"failed", "migrate"} :
            Goto(i, stage) /\ (stage = "migrate" => CanConnect(i) /\ database)
    BY <1>9 DEF ConnectToMigrate, Fail
  <2>2. /\ pc[i] \in Configured
        /\ UNCHANGED <<secret, flask, bereft, server, database, schema>>
    BY <1>9 DEF ConnectToMigrate, Configured, At
  <2> QED BY <1>6, <2>1, <2>2 DEF FlaskUp
<1>10. ASSUME NEW i \in Instance, RunAll(i) PROVE ConnectedInv'
  <2>1. /\ Goto(i, "open") /\ pc[i] \in Configured /\ schema'
        /\ CanConnect(i) /\ database
        /\ UNCHANGED <<secret, flask, bereft, server, database>>
    BY <1>10 DEF RunAll, Configured, At, ConnectedInv, Connected
  <2> QED BY <1>6, <2>1 DEF FlaskUp
<1>11. ASSUME NEW i \in Instance, OpenWindow(i) PROVE ConnectedInv'
  <2>1. /\ Goto(i, "load") /\ pc[i] = "open" /\ flask' = [flask EXCEPT ![i] = "starting"]
        /\ UNCHANGED <<secret, bereft, server, database, schema>>
    BY <1>11 DEF OpenWindow, At
  <2>2. pc[i] \in Configured /\ HasWindow(i)
    BY <2>1 DEF Configured, HasWindow
  <2>3. FlaskUp \subseteq FlaskUp'
    BY <2>1 DEF FlaskInv, FlaskUp, TypeOK
  <2> QED BY <1>6, <2>1, <2>2, <2>3 DEF ConnectedInv
<1>12. ASSUME NEW i \in Instance, ShowPage(i) PROVE ConnectedInv'
  <2>1. /\ Goto(i, "serving") /\ pc[i] = "load" /\ FlaskUp # {}
        /\ UNCHANGED <<secret, flask, bereft, server, database, schema>>
    BY <1>12 DEF ShowPage, At
  <2>2. pc[i] \in Configured /\ HasWindow(i)
    BY <2>1 DEF Configured, HasWindow
  <2> QED BY <1>6, <2>1, <2>2 DEF FlaskUp, ConnectedInv
<1>13. ASSUME NEW i \in Instance, RunFlask(i) PROVE ConnectedInv'
  <2>1. FlaskUp \subseteq FlaskUp' /\ UNCHANGED <<pc, secret, disk, server, bereft>>
    BY <1>13 DEF RunFlask, FlaskUp, TypeOK
  <2> QED BY <2>1 DEF ConnectedInv, Connected, HasWindow, CanConnect, At
<1>14. ASSUME NEW i \in Instance, Exit(i) PROVE ConnectedInv'
  <2>1. /\ pc'[i] = "off" /\ UNCHANGED disk
        /\ \A j \in Instance \ {i} : secret'[j] = secret[j] /\ flask'[j] = flask[j]
    BY <1>14 DEF Exit, TypeOK
  <2>2. ASSUME NEW j \in Instance \ {i}
        PROVE  /\ pc'[j] = pc[j] \/ pc'[j] = "failed"
               /\ Connected(j)' => pc'[j] = pc[j] /\ server' = server
               /\ HasWindow(j)' => j \in bereft'
    BY <1>14 DEF Exit, Connected, HasWindow, TypeOK
  <2>3. ASSUME NEW j \in Instance
        PROVE  /\ Connected(j)' => CanConnect(j)'
               /\ At(j, "migrate")' => database'
    <3>1. CASE j = i
      BY <2>1, <3>1 DEF Connected, At
    <3>2. CASE j # i
      BY <2>1, <2>2, <3>2 DEF Connected, At, CanConnect, ConnectedInv
    <3> QED BY <3>1, <3>2
  <2>4. \A j \in Instance \ bereft' : ~HasWindow(j)' /\ ~At(j, "serving")'
    BY <2>1, <2>2 DEF HasWindow, At
  <2> QED BY <2>3, <2>4 DEF ConnectedInv
<1>15. ASSUME NEW I \in SUBSET Instance, Vanish(I),
              UNCHANGED server \/ I = Instance
       PROVE  ConnectedInv'
  <2>1. ASSUME NEW j \in I PROVE pc'[j] = "off"
    BY <1>15, <2>1 DEF Vanish
  <2>2. ASSUME NEW j \in Instance \ I
        PROVE  /\ pc'[j] = pc[j] /\ secret'[j] = secret[j]
               /\ HasWindow(j)' => j \in bereft'
    BY <1>15 DEF Vanish, HasWindow
  <2>3. UNCHANGED <<disk>> /\ (\E j \in Instance \ I : TRUE) => UNCHANGED server
    BY <1>15 DEF Vanish
  <2>4. ASSUME NEW j \in Instance
        PROVE  /\ Connected(j)' => CanConnect(j)'
               /\ At(j, "migrate")' => database'
    <3>1. CASE j \in I
      BY <2>1, <3>1 DEF Connected, At
    <3>2. CASE j \notin I
      BY <1>15, <2>2, <3>2 DEF Vanish, Connected, At, CanConnect, ConnectedInv
    <3> QED BY <3>1, <3>2
  <2>5. \A j \in Instance \ bereft' : ~HasWindow(j)' /\ ~At(j, "serving")'
    BY <2>1, <2>2 DEF HasWindow, At
  <2> QED BY <2>4, <2>5 DEF ConnectedInv
<1>16. (\E i \in Instance : Kill(i)) \/ PowerLoss => ConnectedInv'
  BY <1>15 DEF Kill, PowerLoss
<1>17. ASSUME ServerStarts \/ ServerStops \/ TakePort \/ FreePort \/ UNCHANGED vars PROVE ConnectedInv'
  <2>1. /\ UNCHANGED <<pc, secret, flask, disk, bereft>>
        /\ server' = server \/ server # "up"
    BY <1>17 DEF ServerStarts, ServerStops, TakePort, FreePort, vars
  <2> QED BY <2>1 DEF ConnectedInv, Connected, HasWindow, CanConnect, At, FlaskUp
<1> QED BY <1>3, <1>4, <1>5, <1>7, <1>8, <1>9, <1>10, <1>11, <1>12, <1>13, <1>14, <1>16, <1>17
        DEF Next, Main, Await

-----------------------------------------------------------------------------
(* The end of the server.                                                  *)

Promising == {"connect", "migrate", "open", "load", "serving", "blank"}

\* A step of the kinds that leave atExit alone, as the promises see it.
LEMMA NextPromised ==
  ASSUME TypeOK, CareInv, [Next]_vars
  PROVE  \A i \in Instance :
            /\ (atExit[i] => ~At(i, "off"))'
            /\ (pc[i] \in Promising => atExit[i])'
<1> DEFINE Kept == \A i \in Instance : /\ (atExit[i] => ~At(i, "off"))'
                                       /\ (pc[i] \in Promising => atExit[i])'
<1> USE DEF disk, world
<1>1. \A i \in Instance : (atExit[i] => pc[i] # "off") /\ (pc[i] \in Promising => atExit[i])
  BY DEF CareInv, At, Promising
<1>2. ASSUME NEW i \in Instance, NEW stage \in Stages, Goto(i, stage), UNCHANGED atExit,
             stage # "off", stage \in Promising => pc[i] \in Promising
      PROVE  Kept
  <2>1. pc'[i] = stage /\ \A j \in Instance \ {i} : pc'[j] = pc[j]
    BY <1>2, GotoStage
  <2> QED BY <1>1, <1>2, <2>1 DEF At
<1>3. ASSUME NEW i \in Instance,
             \/ Launch(i) \/ SetUp(i) \/ LookForDatabase(i) \/ CreateDatabase(i)
             \/ StartPostgres(i) \/ Await(i)
      PROVE  Kept
  <2>1. \E stage \in Stages \ (Promising \cup {"off"}) : Goto(i, stage)
    BY <1>3, AwaitStep DEF Launch, SetUp, GetConfig, WritePwfile, InitdbBegin, InitdbEnd,
                WriteConfigBegin, WriteConfigEnd, LookForDatabase, CreateDatabase, AfterCreate,
                StartPostgres, Fail, Stages, SetupStages, Promising
  <2>2. UNCHANGED atExit
    BY <1>3, AwaitStep DEF Launch, SetUp, GetConfig, WritePwfile, InitdbBegin, InitdbEnd,
                WriteConfigBegin, WriteConfigEnd, LookForDatabase, CreateDatabase, StartPostgres
  <2> QED BY <1>2, <2>1, <2>2
<1>4. ASSUME NEW i \in Instance, RegisterStop(i) PROVE Kept
  <2>1. /\ atExit'[i] = TRUE /\ pc'[i] = "connect"
        /\ \A j \in Instance \ {i} : pc'[j] = pc[j] /\ atExit'[j] = atExit[j]
    BY <1>4 DEF RegisterStop, Goto, TypeOK
  <2> QED BY <1>1, <2>1 DEF At
<1>5. ASSUME NEW i \in Instance,
             ConnectToMigrate(i) \/ RunAll(i) \/ OpenWindow(i) \/ ShowPage(i) \/ StayBlank(i)
      PROVE  Kept
  <2>1. \E stage \in Stages \ {"off"} : Goto(i, stage)
    BY <1>5 DEF ConnectToMigrate, RunAll, OpenWindow, ShowPage, StayBlank, Fail, Stages
  <2>2. UNCHANGED atExit /\ pc[i] \in Promising
    BY <1>5 DEF ConnectToMigrate, RunAll, OpenWindow, ShowPage, StayBlank, At, Promising
  <2> QED BY <1>2, <2>1, <2>2
<1>6. ASSUME NEW i \in Instance, Exit(i) PROVE Kept
  <2>1. /\ atExit'[i] = FALSE /\ pc'[i] = "off"
        /\ \A j \in Instance \ {i} :
            /\ atExit'[j] = atExit[j]
            /\ pc'[j] = pc[j] \/ pc'[j] = "failed"
    BY <1>6 DEF Exit, TypeOK
  <2> QED BY <1>1, <2>1 DEF At, Promising
<1>7. ASSUME NEW I \in SUBSET Instance, Vanish(I) PROVE Kept
  <2>1. \A j \in Instance : IF j \in I THEN pc'[j] = "off" /\ atExit'[j] = FALSE
                            ELSE pc'[j] = pc[j] /\ atExit'[j] = atExit[j]
    BY <1>7 DEF Vanish
  <2> QED BY <1>1, <2>1 DEF At, Promising
<1>8. (\E i \in Instance : Kill(i)) \/ PowerLoss => Kept
  BY <1>7 DEF Kill, PowerLoss
<1>9. ASSUME \/ \E i \in Instance : RunFlask(i)
             \/ ServerStarts \/ ServerStops \/ TakePort \/ FreePort \/ UNCHANGED vars
      PROVE  Kept
  <2>1. UNCHANGED <<pc, atExit>>
    BY <1>9 DEF RunFlask, ServerStarts, ServerStops, TakePort, FreePort, vars
  <2> QED BY <1>1, <2>1 DEF At
<1> QED BY <1>3, <1>4, <1>5, <1>6, <1>8, <1>9 DEF Next, Main, SetUp, Await

\* A step of instance i keeps a caretaker, if i itself stays one.
LEMMA CareFrame ==
  ASSUME CareInv, Undisturbed, Running, NEW i \in Instance,
         \A j \in Instance \ {i} : pc'[j] = pc[j] /\ atExit'[j] = atExit[j],
         UNCHANGED database,
         Caretaker(i) => Caretaker(i)'
  PROVE  \E k \in Instance : Caretaker(k)'
<1>1. PICK k \in Instance : Caretaker(k)
  BY DEF CareInv
<1>2. CASE k = i
  BY <1>1, <1>2
<1>3. CASE k # i
  BY <1>1, <1>3 DEF Caretaker, At
<1> QED BY <1>2, <1>3

\* While the server is starting, the launch that waits for it is a caretaker.
LEMMA StartFrame ==
  ASSUME CareInv, Undisturbed, server = "starting", NEW i \in Instance,
         pc[i] # "starting",
         \A j \in Instance \ {i} : pc'[j] = pc[j]
  PROVE  \E k \in Instance : At(k, "starting")' /\ Caretaker(k)'
<1>1. PICK k \in Instance : At(k, "starting")
  BY DEF CareInv
<1>2. pc'[k] = "starting"
  BY <1>1 DEF At
<1> QED BY <1>2 DEF Caretaker, At

LEMMA VanishCounts ==
  ASSUME TypeOK, crashes' = 0, NEW I, Vanish(I) PROVE FALSE
<1>1. crashes \in Nat /\ crashes' = crashes + 1
  BY DEF Vanish, TypeOK, LifecycleAssumption
<1> QED BY <1>1

\* A launch keeps waiting for the server that is starting.
LEMMA NextStarting ==
  ASSUME TypeOK, CareInv, [Next]_vars, (server = "starting" /\ Undisturbed)'
  PROVE  \E k \in Instance : At(k, "starting")'
<1> DEFINE Awaited == \E k \in Instance : At(k, "starting")'
<1> USE DEF disk, world
<1>1. crashes' = 0 /\ ~together' /\ ~late' /\ server' = "starting"
  BY DEF Undisturbed
<1>2. ASSUME NEW i \in Instance, NEW stage \in Stages, Goto(i, stage), pc[i] # "starting",
             UNCHANGED <<server, crashes>>, late => late'
      PROVE  Awaited
  <2>1. Undisturbed /\ server = "starting" /\ \A j \in Instance \ {i} : pc'[j] = pc[j]
    BY <1>1, <1>2, GotoStage DEF Undisturbed, Goto
  <2> QED BY <1>2, <2>1, StartFrame
<1>3. ASSUME NEW i \in Instance,
             \/ Launch(i) \/ SetUp(i) \/ LookForDatabase(i) \/ CreateDatabase(i)
             \/ RegisterStop(i) \/ ConnectToMigrate(i) \/ RunAll(i) \/ OpenWindow(i)
             \/ ShowPage(i) \/ StayBlank(i)
      PROVE  Awaited
  <2>1. \E stage \in Stages : Goto(i, stage)
    BY <1>3 DEF Launch, SetUp, GetConfig, WritePwfile, InitdbBegin, InitdbEnd, WriteConfigBegin,
                WriteConfigEnd, LookForDatabase, CreateDatabase, AfterCreate, RegisterStop,
                ConnectToMigrate, RunAll, OpenWindow, ShowPage, StayBlank, Fail, Stages,
                SetupStages
  <2>2. UNCHANGED <<server, crashes, late>> /\ pc[i] # "starting"
    BY <1>3 DEF Launch, SetUp, GetConfig, WritePwfile, InitdbBegin, InitdbEnd, WriteConfigBegin,
                WriteConfigEnd, LookForDatabase, CreateDatabase, RegisterStop, ConnectToMigrate,
                RunAll, OpenWindow, ShowPage, StayBlank, At
  <2> QED BY <1>2, <2>1, <2>2
<1>4. ASSUME NEW i \in Instance, Await(i) PROVE Awaited
  <2>1. pc[i] # "starting" /\ (late => late')
    <3>1. ~SeeStarted(i) /\ ~StartTimesOut(i)
      BY <1>1, <1>4, AwaitStep DEF SeeStarted, StartTimesOut
    <3>2. Answered(i) \/ Unanswered(i) \/ WaitReady(i) \/ WaitTimesOut(i)
      BY <1>4, <3>1 DEF Await
    <3>3. late' = late \/ late' = (late \/ CanConnect(i))
      BY <3>2 DEF Answered, Unanswered, WaitReady, WaitTimesOut
    <3>4. late => late'
      BY <3>3
    <3> QED BY <3>2, <3>4 DEF Answered, Unanswered, WaitReady, WaitTimesOut, At
  <2>2. UNCHANGED <<server, crashes>> /\ \E stage \in Stages : Goto(i, stage)
    BY <1>4, AwaitStep DEF Stages
  <2> QED BY <1>2, <2>1, <2>2
<1>5. ASSUME NEW i \in Instance, StartPostgres(i) PROVE Awaited
  <2>1. CASE Goto(i, "starting")
    BY <2>1, GotoStage DEF Stages, At
  <2>2. CASE Goto(i, "failed") /\ server' = server
    <3>1. pc[i] # "starting" /\ UNCHANGED <<server, crashes, late>> /\ "failed" \in Stages
      BY <1>5, <2>2 DEF StartPostgres, At, Stages
    <3> QED BY <1>2, <2>2, <3>1
  <2> QED BY <1>5, <2>1, <2>2 DEF StartPostgres, Fail
<1>6. ASSUME NEW i \in Instance, Exit(i) PROVE Awaited
  <2>1. /\ server = "starting" /\ Undisturbed /\ pc[i] # "starting"
        /\ \A j \in Instance \ {i} : pc'[j] = pc[j]
    BY <1>1, <1>6 DEF Exit, Undisturbed, Running, TypeOK
  <2> QED BY <2>1, StartFrame
<1>7. ASSUME \/ \E i \in Instance : RunFlask(i)
             \/ ServerStarts \/ ServerStops \/ TakePort \/ FreePort \/ UNCHANGED vars
      PROVE  Awaited
  <2>1. ~ServerStarts /\ ~ServerStops /\ ~TakePort
    BY <1>1 DEF ServerStarts, ServerStops, TakePort
  <2>2. UNCHANGED <<pc, server, crashes, together, late>>
    BY <1>7, <2>1 DEF RunFlask, FreePort, vars
  <2> QED BY <1>1, <2>2 DEF CareInv, Undisturbed, At
<1>8. ~(\E i \in Instance : Kill(i)) /\ ~PowerLoss
  BY <1>1, VanishCounts DEF Kill, PowerLoss
<1> QED BY <1>3, <1>4, <1>5, <1>6, <1>7, <1>8 DEF Next, Main, SetUp, Await

LEMMA NextCaretaker ==
  ASSUME TypeOK, SetupInv, ConnectedInv, CareInv, [Next]_vars, (Running /\ Undisturbed)'
  PROVE  \E k \in Instance : Caretaker(k)'
<1> DEFINE Cared == \E k \in Instance : Caretaker(k)'
<1> USE DEF disk, world
<1>1. crashes' = 0 /\ ~together' /\ ~late' /\ server' \in {"starting", "up"}
  BY DEF Undisturbed, Running
<1>2. ASSUME NEW i \in Instance, NEW stage \in Stages, Goto(i, stage)
      PROVE  /\ ~together /\ pc'[i] = stage
             /\ \A j \in Instance \ {i} : pc'[j] = pc[j]
  BY <1>1, <1>2, GotoStage DEF Goto
<1>3. ~together => \A j \in Instance : pc[j] \in Configured => secret[j] = cluster
  BY DEF SetupInv, OwnSetup
<1>4. ASSUME NEW i \in Instance, NEW stage \in Stages, Goto(i, stage),
             UNCHANGED <<atExit, database, crashes, server>>, late => late',
             pc[i] \in {"probe", "starting", "wait", "create", "register", "create db"} =>
                 \/ stage \in {"probe", "starting", "wait", "create", "register"}
                 \/ stage = "create db" /\ ~database
                 \/ server = "starting" /\ pc[i] # "starting"
      PROVE  Cared
  <2>1. Undisturbed /\ Running
    BY <1>1, <1>2, <1>4 DEF Undisturbed, Running
  <2>2. CASE server = "starting" /\ pc[i] # "starting"
    BY <1>2, <1>4, <2>1, <2>2, StartFrame
  <2>3. CASE ~(server = "starting" /\ pc[i] # "starting")
    <3>1. Caretaker(i) => Caretaker(i)'
      BY <1>2, <1>4, <2>3 DEF Caretaker, At
    <3> QED BY <1>2, <1>4, <2>1, <3>1, CareFrame
  <2> QED BY <2>2, <2>3
<1>5. ASSUME NEW i \in Instance,
             \/ Launch(i) \/ SetUp(i) \/ ConnectToMigrate(i) \/ RunAll(i) \/ OpenWindow(i)
             \/ ShowPage(i) \/ StayBlank(i)
      PROVE  Cared
  <2>1. \E stage \in Stages : Goto(i, stage)
    BY <1>5 DEF Launch, SetUp, GetConfig, WritePwfile, InitdbBegin, InitdbEnd, WriteConfigBegin,
                WriteConfigEnd, ConnectToMigrate, RunAll, OpenWindow, ShowPage, StayBlank,
                Fail, Stages, SetupStages
  <2>2. /\ UNCHANGED <<atExit, database, crashes, server, late>>
        /\ pc[i] \notin {"probe", "starting", "wait", "create", "register", "create db"}
    BY <1>5 DEF Launch, SetUp, GetConfig, WritePwfile, InitdbBegin, InitdbEnd, WriteConfigBegin,
                WriteConfigEnd, ConnectToMigrate, RunAll, OpenWindow, ShowPage, StayBlank, At
  <2> QED BY <1>4, <2>1, <2>2
<1>6. ASSUME NEW i \in Instance, Await(i) PROVE Cared
  <2>1. /\ UNCHANGED <<atExit, database, crashes, server>>
        /\ {"register", "start", "wait", "create", "failed"} \subseteq Stages
        /\ secret[i] = cluster
    BY <1>2, <1>3, <1>6, AwaitStep DEF Stages, Configured
  <2>2. CASE Answered(i) \/ SeeStarted(i) \/ WaitReady(i)
    <3>1. (\E stage \in {"register", "wait", "create"} : Goto(i, stage)) /\ UNCHANGED late
      BY <2>2 DEF Answered, SeeStarted, WaitReady
    <3> QED BY <1>4, <2>1, <3>1
  <2>3. CASE Unanswered(i) \/ WaitTimesOut(i)
    <3>1. /\ pc[i] # "starting" /\ \E stage \in {"start", "failed"} : Goto(i, stage)
          /\ late' = (late \/ CanConnect(i))
      BY <2>3 DEF Unanswered, WaitTimesOut, Fail, At
    <3>2. server = "starting"
      BY <1>1, <2>1, <3>1 DEF CanConnect
    <3> QED BY <1>1, <1>4, <2>1, <3>1, <3>2
  <2>4. ~StartTimesOut(i)
    BY <1>1 DEF StartTimesOut
  <2> QED BY <1>6, <2>2, <2>3, <2>4 DEF Await
<1>7. ASSUME NEW i \in Instance, LookForDatabase(i) PROVE Cared
  <2>1. UNCHANGED <<atExit, database, crashes, server, late>> /\ pc[i] # "starting"
    BY <1>7 DEF LookForDatabase, At
  <2>2. CASE ~CanConnect(i)
    <3>1. Goto(i, "failed") /\ "failed" \in Stages /\ pc[i] \in Configured
      BY <1>7, <2>2 DEF LookForDatabase, Fail, Stages, At, Configured
    <3>2. server = "starting"
      BY <1>1, <1>2, <1>3, <2>1, <2>2, <3>1 DEF CanConnect
    <3> QED BY <1>4, <2>1, <3>1, <3>2
  <2>3. CASE CanConnect(i) /\ database
    <3>1. /\ \E stage \in {"probe", "register"} : Goto(i, stage)
          /\ {"probe", "register"} \subseteq Stages
      BY <1>7, <2>3 DEF LookForDatabase, AfterCreate, Stages
    <3> QED BY <1>4, <2>1, <3>1
  <2>4. CASE CanConnect(i) /\ ~database
    <3>1. IF pc[i] = "create" THEN Goto(i, "create db")
          ELSE pc[i] = "first create" /\ Goto(i, "first create db")
      BY <1>7, <2>4 DEF LookForDatabase, At
    <3>2. {"create db", "first create db"} \subseteq Stages
      BY DEF Stages
    <3> QED BY <1>4, <2>1, <2>4, <3>1, <3>2
  <2> QED BY <2>2, <2>3, <2>4
<1>8. ASSUME NEW i \in Instance, CreateDatabase(i) PROVE Cared
  <2>1. /\ pc[i] \in {"first create db", "create db"}
        /\ UNCHANGED <<atExit, crashes, server, late>>
    BY <1>8 DEF CreateDatabase, At
  <2>2. CASE database
    <3>1. Goto(i, "failed") /\ "failed" \in Stages /\ UNCHANGED database
      BY <1>8, <2>2 DEF CreateDatabase, Fail, Stages, TypeOK
    <3>2. Caretaker(i) => Caretaker(i)'
      BY <2>1, <2>2 DEF Caretaker, At
    <3>3. Undisturbed /\ Running
      BY <1>1, <1>2, <2>1, <3>1 DEF Undisturbed, Running
    <3> QED BY <1>2, <2>1, <3>1, <3>2, <3>3, CareFrame
  <2>3. CASE ~database
    <3>1. \E stage \in {"probe", "register"} : Goto(i, stage)
      BY <1>8, <2>3 DEF CreateDatabase, AfterCreate
    <3>2. pc'[i] \in {"probe", "register"}
      BY <1>2, <3>1 DEF Stages
    <3> QED BY <3>2 DEF Caretaker
  <2> QED BY <2>2, <2>3
<1>9. ASSUME NEW i \in Instance, StartPostgres(i) PROVE Cared
  <2>1. CASE Goto(i, "starting")
    BY <1>2, <2>1 DEF Stages, Caretaker
  <2>2. CASE Goto(i, "failed") /\ server' = server
    <3>1. /\ pc[i] = "start" /\ UNCHANGED <<atExit, database, crashes, late>>
          /\ "failed" \in Stages
      BY <1>9 DEF StartPostgres, At, Stages
    <3> QED BY <1>4, <2>2, <3>1
  <2> QED BY <1>9, <2>1, <2>2 DEF StartPostgres, Fail
<1>10. ASSUME NEW i \in Instance, RegisterStop(i) PROVE Cared
  BY <1>10 DEF RegisterStop, TypeOK, Caretaker
<1>11. ASSUME NEW i \in Instance, Exit(i) PROVE Cared
  <2>1. Undisturbed /\ Running /\ ~atExit[i] /\ UNCHANGED database
    BY <1>1, <1>11 DEF Exit, Undisturbed, Running
  <2>2. \A j \in Instance \ {i} : pc'[j] = pc[j] /\ atExit'[j] = atExit[j]
    BY <1>11, <2>1 DEF Exit, TypeOK
  <2>3. ~Caretaker(i)
    BY <1>11, <2>1 DEF Exit, Caretaker, At
  <2> QED BY <2>1, <2>2, <2>3, CareFrame
<1>12. ASSUME \/ \E i \in Instance : RunFlask(i)
              \/ ServerStarts \/ ServerStops \/ TakePort \/ FreePort \/ UNCHANGED vars
       PROVE  Cared
  <2>1. ~ServerStops /\ ~TakePort
    BY <1>1 DEF ServerStops, TakePort
  <2>2. /\ UNCHANGED <<pc, atExit, database, crashes, together, late>>
        /\ Running
    BY <1>1, <1>12, <2>1 DEF RunFlask, ServerStarts, FreePort, Running, vars
  <2> QED BY <1>1, <2>2 DEF CareInv, Undisturbed, Caretaker, At
<1>13. ~(\E i \in Instance : Kill(i)) /\ ~PowerLoss
  BY <1>1, VanishCounts DEF Kill, PowerLoss
<1> QED BY <1>5, <1>6, <1>7, <1>8, <1>9, <1>10, <1>11, <1>12, <1>13
        DEF Next, Main, SetUp, Await

-----------------------------------------------------------------------------
(* The theorems.                                                           *)

LEMMA InitInv == Init => IInv
<1> SUFFICES ASSUME Init PROVE IInv
  OBVIOUS
<1>1. TypeOK
  BY InitType
<1>2. DiskInv /\ SetupInv /\ FlaskInv
  BY StagesApart DEF Init, DiskInv, SetupInv, OwnSetup, FlaskInv, At, LifecycleAssumption
<1>3. ConnectedInv /\ CareInv
  BY DEF Init, ConnectedInv, Connected, HasWindow, CareInv, Running, At
<1> QED BY <1>1, <1>2, <1>3 DEF IInv

LEMMA NextInv == IInv /\ [Next]_vars => IInv'
<1> SUFFICES ASSUME IInv, [Next]_vars PROVE IInv'
  OBVIOUS
<1>1. CareInv'
  BY NextPromised, NextCaretaker, NextStarting DEF IInv, CareInv, Promising
<1> QED BY <1>1, NextType, NextDisk, NextSetup, NextFlask, NextConnected DEF IInv

\* Every variable keeps its type.
THEOREM TypeCorrect == Spec => []TypeOK
  BY InitType, NextType, PTL DEF Spec

\* pg_manager.get_config and _first_run_setup: a complete configuration opens
\* the cluster, wherever a launch was killed, unless two first launches ran
\* at once.
THEOREM ConfigOpensClusterAlways == Spec => []ConfigOpensCluster
<1>1. IInv => ConfigOpensCluster
  BY DEF IInv, DiskInv, SetupInv, ConfigOpensCluster, LifecycleAssumption
<1> QED BY <1>1, InitInv, NextInv, PTL DEF Spec

\* main.py: a window that shows its page has a Flask thread to answer it, and
\* a database server with the database and its schema.
THEOREM ServingIsReadyAlways == Spec => []ServingIsReady
<1>1. IInv => ServingIsReady
  BY DEF IInv, ConnectedInv, ServingIsReady, HasWindow, At
<1> QED BY <1>1, InitInv, NextInv, PTL DEF Spec

\* main.py and pg_manager.stop_postgres: the last window to be closed leaves no
\* server behind, and neither does the last program that fails, unless it
\* failed before it could promise that and one was killed, two shared the
\* setup, or a time limit had expired on the server.
THEOREM NoOrphanServerAlways == Spec => NoOrphanServer
<1> DEFINE LeavesNone ==
      \A i \in Instance :
        /\ Exit(i) /\ AllOff'
        /\ At(i, "failed") /\ ~atExit[i] => crashes = 0 /\ ~together /\ ~late
        => ~Running'
<1>1. ASSUME IInv, [Next]_vars PROVE LeavesNone
  <2> SUFFICES ASSUME NEW i \in Instance, Exit(i), AllOff', Running',
                      At(i, "failed") /\ ~atExit[i] => crashes = 0 /\ ~together /\ ~late
               PROVE  FALSE
    OBVIOUS
  <2>1. Running /\ ~atExit[i] /\ pc[i] \in {"serving", "blank", "failed"}
    BY DEF Exit, Running
  <2>2. pc[i] = "failed" /\ Undisturbed
    BY <1>1, <2>1 DEF IInv, CareInv, At, Undisturbed
  <2>3. \A j \in Instance \ {i} : At(j, "off")
    BY <1>1, <2>1 DEF IInv, TypeOK, Exit, AllOff, At
  <2>4. PICK k \in Instance : Caretaker(k)
    BY <1>1, <2>1, <2>2 DEF IInv, CareInv
  <2> QED BY <1>1, <2>1, <2>2, <2>3, <2>4 DEF IInv, CareInv, Caretaker, At
<1>2. ASSUME IInv, [Next]_vars PROVE [LeavesNone]_vars
  BY <1>1, <1>2
<1> QED BY <1>2, InitInv, NextInv, PTL DEF Spec, NoOrphanServer

=============================================================================
