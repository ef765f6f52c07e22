------------------------------ MODULE Lifecycle ------------------------------
(***************************************************************************)
(* The program's launches: main.py with the embedded PostgreSQL server of  *)
(* pg_manager.py.  Each instance of the program runs the first-time setup  *)
(* if there is no configuration, starts the server unless it answers,      *)
(* migrates, starts Flask in a thread, and shows its window until that is  *)
(* closed.  Instances share the data folder, the server and the port of    *)
(* Flask.  An instance may be killed (the server, a detached process,      *)
(* lives on), the machine may lose power, and another program may hold the *)
(* server's port, which was chosen by the setup and is kept for ever.  The *)
(* time limits of pg_ctl and of the connections may expire at any moment,  *)
(* also when the server would have come up or answered a little later.     *)
(* Left out: the contents of the database.                                 *)
(***************************************************************************)
EXTENDS Naturals, FiniteSets

CONSTANTS
    Instance,       \* windows of the program that may be open
    Password,       \* passwords secrets.token_urlsafe can make
    NoPassword,     \* nothing there
    Torn,           \* a configuration file not completely written
    MaxCrashes      \* bound: kills, power losses and thefts of the port

\* More passwords than places that can hold one: a new one is always new.
ASSUME LifecycleAssumption ==
    /\ IsFiniteSet(Instance) /\ IsFiniteSet(Password)
    /\ Cardinality(Password) > Cardinality(Instance) + 3
    /\ MaxCrashes \in Nat
    /\ NoPassword \notin Password
    /\ Torn \notin Password \cup {NoPassword}

VARIABLES
    pc,         \* what each instance does next
    secret,     \* the password each instance knows
    atExit,     \* has it registered stop_postgres with atexit?
    flask,      \* its Flask thread: "off", "starting", "up" or "dead"
    pwfile,     \* _initpw.tmp
    config,     \* db_config.json, by its password
    pgdata,     \* the data directory: "absent", "partial" or "ready"
    cluster,    \* the password of the cluster's user
    database,   \* has CREATE DATABASE been done?
    schema,     \* have the baseline and the migrations been applied?
    server,     \* "down", "starting", "up" or "stopping"
    portTaken,  \* does another program listen on the server's port?
    crashes,
    together,   \* have two instances been in the setup at once?
    bereft,     \* those whose window was open when another process ended
    late        \* has a launch given up, by a time limit, on the server there is?

disk == <<pwfile, config, pgdata, cluster, database, schema>>
world == <<server, portTaken, crashes, bereft, late>>

vars == <<pc, together, secret, atExit, flask, disk, world>>

Init ==
    /\ pc = [i \in Instance |-> "off"]
    /\ secret = [i \in Instance |-> NoPassword]
    /\ atExit = [i \in Instance |-> FALSE]
    /\ flask = [i \in Instance |-> "off"]
    /\ pwfile = NoPassword
    /\ config = NoPassword
    /\ pgdata = "absent"
    /\ cluster = NoPassword
    /\ database = FALSE
    /\ schema = FALSE
    /\ server = "down"
    /\ portTaken = FALSE
    /\ crashes = 0
    /\ together = FALSE
    /\ bereft = {}
    /\ late = FALSE

At(i, stage) == pc[i] = stage

SetupStages == {"pwfile", "initdb", "initdb running", "write config", "writing config"}

Goto(i, stage) ==
    /\ pc' = [pc EXCEPT ![i] = stage]
    /\ together' = \/ together
                   \/ stage \in SetupStages /\ \E j \in Instance \ {i} : pc[j] \in SetupStages

\* An exception leaves main().
Fail(i) == Goto(i, "failed")

\* There is a postmaster, for pg_ctl stop to signal.
Running == server \in {"starting", "up"}

\* The server lets instance i connect, if it is given the time.
CanConnect(i) == server = "up" /\ secret[i] = cluster

-----------------------------------------------------------------------------
(* get_config and _first_run_setup.                                        *)

Launch(i) ==
    /\ At(i, "off")
    /\ Goto(i, "configure")
    /\ UNCHANGED <<secret, atExit, flask, disk, world>>

InUse == {secret[i] : i \in Instance} \cup {pwfile, config, cluster}

NewPassword == CHOOSE p \in Password : p \notin InUse

GetConfig(i) ==
    /\ At(i, "configure")
    /\ \/ /\ config = NoPassword
          /\ secret' = [secret EXCEPT ![i] = NewPassword]
          /\ Goto(i, "pwfile")
       \/ /\ config = Torn
          /\ Fail(i)
          /\ UNCHANGED secret
       \/ /\ config \in Password
          /\ secret' = [secret EXCEPT ![i] = config]
          /\ Goto(i, "probe")
    /\ UNCHANGED <<atExit, flask, disk, world>>

\* Mutant: the password file is cut short.
WritePwfileTorn(i) ==
    /\ At(i, "pwfile")
    /\ pwfile' = Torn
    /\ Goto(i, "initdb")
    /\ UNCHANGED <<secret, atExit, flask, config, pgdata, cluster, database, schema, world>>

WritePwfile(i) ==
    /\ At(i, "pwfile")
    /\ pwfile' = secret[i]
    /\ Goto(i, "initdb")
    /\ UNCHANGED <<secret, atExit, flask, config, pgdata, cluster, database, schema, world>>

\* Mutant: an existing data directory is taken as it is.
InitdbOnce(i) ==
    /\ At(i, "initdb")
    /\ IF pgdata = "absent"
       THEN pgdata' = "partial" /\ cluster' = pwfile /\ Goto(i, "initdb running")
       ELSE Goto(i, "write config") /\ UNCHANGED <<pgdata, cluster>>
    /\ UNCHANGED <<pwfile, secret, atExit, flask, config, database, schema, world>>

\* initdb reads the password file, refuses a directory that is not empty, ...
InitdbBegin(i) ==
    /\ At(i, "initdb")
    /\ IF pwfile # NoPassword /\ pgdata = "absent"
       THEN /\ pgdata' = "partial"
            /\ cluster' = pwfile
            /\ Goto(i, "initdb running")
            /\ UNCHANGED pwfile
       ELSE /\ pwfile' = NoPassword
            /\ Fail(i)
            /\ UNCHANGED <<pgdata, cluster>>
    /\ UNCHANGED <<secret, atExit, flask, config, database, schema, world>>

\* ... and fills it; the setup removes the password file.
InitdbEnd(i) ==
    /\ At(i, "initdb running")
    /\ pgdata' = "ready"
    /\ pwfile' = NoPassword
    /\ Goto(i, "write config")
    /\ UNCHANGED <<secret, atExit, flask, config, cluster, database, schema, world>>

\* write_text truncates the file first.
WriteConfigBegin(i) ==
    /\ At(i, "write config")
    /\ config' = Torn
    /\ Goto(i, "writing config")
    /\ UNCHANGED <<secret, atExit, flask, pwfile, pgdata, cluster, database, schema, world>>

WriteConfigEnd(i) ==
    /\ At(i, "writing config")
    /\ config' = secret[i]
    /\ Goto(i, "first create")
    /\ UNCHANGED <<secret, atExit, flask, pwfile, pgdata, cluster, database, schema, world>>

-----------------------------------------------------------------------------
(* _create_database: called by the setup, and again once the server runs.  *)

AfterCreate(i) == IF At(i, "first create") \/ At(i, "first create db") THEN "probe" ELSE "register"

LookForDatabase(i) ==
    /\ At(i, "first create") \/ At(i, "create")
    /\ IF ~CanConnect(i) THEN Fail(i)
       ELSE IF database THEN Goto(i, AfterCreate(i))
       ELSE Goto(i, IF At(i, "create") THEN "create db" ELSE "first create db")
    /\ UNCHANGED <<secret, atExit, flask, disk, world>>

\* Another instance may have created it meanwhile.
CreateDatabase(i) ==
    /\ At(i, "first create db") \/ At(i, "create db")
    /\ IF database THEN Fail(i) ELSE Goto(i, AfterCreate(i))
    /\ database' = TRUE
    /\ UNCHANGED <<secret, atExit, flask, pwfile, config, pgdata, cluster, schema, world>>

-----------------------------------------------------------------------------
(* ensure_running.                                                         *)

\* Mutant: a server found running is somebody else's to stop.
AnsweredForeign(i) ==
    /\ At(i, "probe") /\ CanConnect(i)
    /\ Goto(i, "connect")
    /\ UNCHANGED <<secret, atExit, flask, disk, world>>

\* is_already_running: the server answers, ...
Answered(i) ==
    /\ At(i, "probe") /\ CanConnect(i)
    /\ Goto(i, "register")
    /\ UNCHANGED <<secret, atExit, flask, disk, world>>

\* ... or not, or not within a second.
Unanswered(i) ==
    /\ At(i, "probe")
    /\ Goto(i, "start")
    /\ late' = (late \/ CanConnect(i))
    /\ UNCHANGED <<secret, atExit, flask, disk, server, portTaken, crashes, bereft>>

\* pg_ctl start fails while there is a server, even one that is stopping, and
\* when the server cannot have its port.  It waits for the server it starts, ...
StartPostgres(i) ==
    /\ At(i, "start")
    /\ IF server = "down" /\ ~portTaken
       THEN server' = "starting" /\ Goto(i, "starting")
       ELSE Fail(i) /\ UNCHANGED server
    /\ UNCHANGED <<secret, atExit, flask, disk, portTaken, crashes, bereft, late>>

ServerStarts ==
    /\ server = "starting"
    /\ server' = "up"
    /\ UNCHANGED <<pc, together, secret, atExit, flask, disk, portTaken, crashes, bereft, late>>

\* ... until it is up, ...
SeeStarted(i) ==
    /\ At(i, "starting") /\ server = "up"
    /\ Goto(i, "wait")
    /\ UNCHANGED <<secret, atExit, flask, disk, world>>

\* ... or for 30 seconds, and leaves it to start when these are over.
StartTimesOut(i) ==
    /\ At(i, "starting") /\ server = "starting"
    /\ Fail(i)
    /\ late' = TRUE
    /\ UNCHANGED <<secret, atExit, flask, disk, server, portTaken, crashes, bereft>>

\* wait_for_postgres_ready: a connection succeeds, ...
WaitReady(i) ==
    /\ At(i, "wait") /\ CanConnect(i)
    /\ Goto(i, "create")
    /\ UNCHANGED <<secret, atExit, flask, disk, world>>

\* ... or none does for 15 seconds.
WaitTimesOut(i) ==
    /\ At(i, "wait")
    /\ Fail(i)
    /\ late' = (late \/ CanConnect(i))
    /\ UNCHANGED <<secret, atExit, flask, disk, server, portTaken, crashes, bereft>>

-----------------------------------------------------------------------------
(* main, once the server runs.                                             *)

RegisterStop(i) ==
    /\ At(i, "register")
    /\ atExit' = [atExit EXCEPT ![i] = TRUE]
    /\ Goto(i, "connect")
    /\ UNCHANGED <<secret, flask, disk, world>>

\* Mutant: a failed connection is ignored.
ConnectAnyway(i) ==
    /\ At(i, "connect")
    /\ Goto(i, IF CanConnect(i) /\ database THEN "migrate" ELSE "open")
    /\ UNCHANGED <<secret, atExit, flask, disk, world>>

ConnectToMigrate(i) ==
    /\ At(i, "connect")
    /\ IF CanConnect(i) /\ database THEN Goto(i, "migrate") ELSE Fail(i)
    /\ UNCHANGED <<secret, atExit, flask, disk, world>>

\* run_all; Migrate has it in detail.
RunAll(i) ==
    /\ At(i, "migrate")
    /\ schema' = TRUE
    /\ Goto(i, "open")
    /\ UNCHANGED <<secret, atExit, flask, pwfile, config, pgdata, cluster, database, world>>

\* The Flask thread is started, and the window made.
OpenWindow(i) ==
    /\ At(i, "open")
    /\ flask' = [flask EXCEPT ![i] = "starting"]
    /\ Goto(i, "load")
    /\ UNCHANGED <<secret, atExit, disk, world>>

FlaskUp == {i \in Instance : flask[i] = "up"}

\* Port 5002 is everybody's.  Whether a second socket may listen on it depends
\* on the system (SO_REUSEADDR); if not, the thread ends and main goes on.
RunFlask(i) ==
    /\ flask[i] = "starting"
    /\ \E outcome \in IF FlaskUp = {} THEN {"up"} ELSE {"up", "dead"} :
           flask' = [flask EXCEPT ![i] = outcome]
    /\ UNCHANGED <<pc, together, secret, atExit, disk, world>>

\* The window shows the page of whoever listens, ...
ShowPage(i) ==
    /\ At(i, "load") /\ FlaskUp # {}
    /\ Goto(i, "serving")
    /\ UNCHANGED <<secret, atExit, flask, disk, world>>

\* ... or stays blank if it is faster than the Flask thread.
StayBlank(i) ==
    /\ At(i, "load") /\ FlaskUp = {}
    /\ Goto(i, "blank")
    /\ UNCHANGED <<secret, atExit, flask, disk, world>>

Connected(i) == pc[i] \in {"first create db", "create db", "migrate"}

HasWindow(i) == pc[i] \in {"open", "load", "serving"}

\* Process i ends, and runs stop_postgres if it has registered it: the server
\* drops the connections of all instances, and a pg_ctl that waits for it to
\* start sees it end.
Exit(i) ==
    LET stops == atExit[i] /\ Running
    IN  /\ pc[i] \in {"serving", "blank", "failed"}
        /\ pc' = [j \in Instance |-> IF j = i THEN "off"
                                     ELSE IF stops /\ (Connected(j) \/ At(j, "starting"))
                                          THEN "failed"
                                     ELSE pc[j]]
        /\ server' = IF stops THEN "stopping" ELSE server
        /\ atExit' = [atExit EXCEPT ![i] = FALSE]
        /\ secret' = [secret EXCEPT ![i] = NoPassword]
        /\ flask' = [flask EXCEPT ![i] = "off"]
        /\ bereft' = {j \in Instance \ {i} : j \in bereft \/ HasWindow(j)}
        /\ UNCHANGED <<together, disk, portTaken, crashes, late>>

ServerStops ==
    /\ server = "stopping"
    /\ server' = "down"
    /\ late' = FALSE
    /\ UNCHANGED <<pc, together, secret, atExit, flask, disk, portTaken, crashes, bereft>>

-----------------------------------------------------------------------------
(* Crashes, and another program on the server's port.                      *)

\* The instances in I end with nothing done on their way out.
Vanish(I) ==
    /\ crashes < MaxCrashes
    /\ \E i \in I : ~At(i, "off")
    /\ pc' = [i \in Instance |-> IF i \in I THEN "off" ELSE pc[i]]
    /\ secret' = [i \in Instance |-> IF i \in I THEN NoPassword ELSE secret[i]]
    /\ atExit' = [i \in Instance |-> IF i \in I THEN FALSE ELSE atExit[i]]
    /\ flask' = [i \in Instance |-> IF i \in I THEN "off" ELSE flask[i]]
    /\ bereft' = {i \in Instance \ I : i \in bereft \/ HasWindow(i)}
    /\ crashes' = crashes + 1
    /\ UNCHANGED <<together, disk>>

Kill(i) == Vanish({i}) /\ UNCHANGED <<server, portTaken, late>>

PowerLoss == Vanish(Instance) /\ server' = "down" /\ portTaken' = FALSE /\ late' = FALSE

TakePort ==
    /\ server = "down" /\ ~portTaken
    /\ crashes < MaxCrashes
    /\ portTaken' = TRUE
    /\ crashes' = crashes + 1
    /\ UNCHANGED <<pc, together, secret, atExit, flask, disk, server, bereft, late>>

FreePort ==
    /\ portTaken
    /\ portTaken' = FALSE
    /\ UNCHANGED <<pc, together, secret, atExit, flask, disk, server, crashes, bereft, late>>

Main(i) ==
    \/ GetConfig(i) \/ WritePwfile(i) \/ InitdbBegin(i) \/ InitdbEnd(i)
    \/ WriteConfigBegin(i) \/ WriteConfigEnd(i) \/ LookForDatabase(i) \/ CreateDatabase(i)
    \/ Answered(i) \/ Unanswered(i) \/ StartPostgres(i) \/ SeeStarted(i) \/ StartTimesOut(i)
    \/ WaitReady(i) \/ WaitTimesOut(i)
    \/ RegisterStop(i) \/ ConnectToMigrate(i) \/ RunAll(i) \/ OpenWindow(i)
    \/ ShowPage(i) \/ StayBlank(i) \/ Exit(i)

Next ==
    \/ \E i \in Instance : Launch(i) \/ Main(i) \/ RunFlask(i) \/ Kill(i)
    \/ ServerStarts \/ ServerStops \/ PowerLoss \/ TakePort \/ FreePort

Spec == Init /\ [][Next]_vars

AllOff == \A i \in Instance : At(i, "off")

\* The user closes a window some time, and has one opened again when none is.
\* A window is not always faster than the Flask thread, and a time limit does
\* not always expire on a server that is about to start or to answer.
FairSpec ==
    /\ Spec
    /\ WF_vars(AllOff /\ \E i \in Instance : Launch(i))
    /\ WF_vars(ServerStarts) /\ WF_vars(ServerStops)
    /\ \A i \in Instance : WF_vars(Main(i))
    /\ SF_vars(\E i \in Instance : At(i, "load") /\ RunFlask(i))
    /\ SF_vars(\E i \in Instance : Answered(i))
    /\ SF_vars(\E i \in Instance : At(i, "starting") /\ ServerStarts)
    /\ SF_vars(\E i \in Instance : WaitReady(i))
-----------------------------------------------------------------------------
Stages == SetupStages \cup
    {"off", "configure", "first create", "first create db", "probe", "start",
     "starting", "wait",
     "create", "create db", "register", "connect", "migrate", "open", "load", "serving",
     "blank", "failed"}

\* Every variable has its type.
TypeOK ==
    /\ pc \in [Instance -> Stages]
    /\ secret \in [Instance -> Password \cup {NoPassword}]
    /\ atExit \in [Instance -> BOOLEAN]
    /\ flask \in [Instance -> {"off", "starting", "up", "dead"}]
    /\ pwfile \in Password \cup {NoPassword}
    /\ config \in Password \cup {NoPassword, Torn}
    /\ pgdata \in {"absent", "partial", "ready"}
    /\ cluster \in Password \cup {NoPassword}
    /\ database \in BOOLEAN
    /\ schema \in BOOLEAN
    /\ server \in {"down", "starting", "up", "stopping"}
    /\ portTaken \in BOOLEAN
    /\ crashes \in 0 .. MaxCrashes
    /\ together \in BOOLEAN
    /\ bereft \in SUBSET Instance
    /\ late \in BOOLEAN

\* The stored configuration opens the cluster there is: the credentials are
\* generated once, on the first launch (pg_manager.py:6, 97-138).  Two first
\* launches at once share the password file and may break this.
ConfigOpensCluster ==
    ~together /\ config \in Password => pgdata = "ready" /\ config = cluster

\* A window that shows its page has a Flask server to answer it and a database
\* server that answers, with the database and its schema in place (main.py:5-9),
\* however the launches before it ended, unless the process of another window
\* has ended since this one was made.
ServingIsReady ==
    \A i \in Instance \ bereft :
        At(i, "serving") => CanConnect(i) /\ database /\ schema /\ FlaskUp # {}

\* The last window to be closed leaves no server behind (main.py:10, 51), even
\* one that an earlier, killed instance had started, or one that an earlier
\* launch had given up on; nor does the last program that ends with an error.
\* The exceptions are launches that failed before main.py:51 with a server
\* there: one was killed, two shared the setup, or a time limit of pg_ctl or of
\* a connection expired on the server there is (pg_manager.py:174, 208, 218).
NoOrphanServer ==
    [][\A i \in Instance :
        /\ Exit(i) /\ AllOff'
        /\ At(i, "failed") /\ ~atExit[i] => crashes = 0 /\ ~together /\ ~late
        => ~Running']_vars

\* The first-time setup was interrupted between the creation of the data
\* directory and the last byte of the configuration.
HalfSetUp ==
    /\ pgdata # "absent"
    /\ config \notin Password
    /\ \A i \in Instance : pc[i] \notin {"initdb running", "write config", "writing config"}

\* Two first launches have left a configuration that does not open the cluster.
WrongPassword == together /\ config \in Password /\ config # cluster

OneAtATime == \A i, j \in Instance : i = j \/ At(i, "off") \/ At(j, "off")

\* However often it was killed, the program serves again after some launches
\* (pg_manager.py:90, 212), also when it is opened while its server is still
\* stopping.  The exceptions: the first-time setup was interrupted, which no
\* launch can complete (pg_manager.py:92-93, 107-117), or done by two at once;
\* another program keeps the port; windows are opened next to each other again
\* and again, each of which stops the server of the others.
ServesAgain ==
    \/ []<>(\E i \in Instance : At(i, "serving"))
    \/ <>[]HalfSetUp
    \/ <>[]WrongPassword
    \/ <>[]portTaken
    \/ []<>~OneAtATime

\* Launching the program works: the server is started on the first call, with
\* the configuration generated on the very first launch (main.py:5-6).
LaunchSucceeds == \A i \in Instance : ~At(i, "failed")
=============================================================================
