-------------------------- MODULE NetConnectProofs --------------------------
(***************************************************************************)
(* What holds of NetConnect for every set of networks and every bound on   *)
(* requests and faults, with proofs.                                       *)
(***************************************************************************)
EXTENDS NetConnect, SequenceTheorems, TLAPS

USE NetConnectAssumption

-----------------------------------------------------------------------------
(* The routes: the registration that comes first decides.                  *)

\* The home page the server has, if it has begun, leads to new credentials.
Home ==
    \/ Handler("/") = "setup" /\ Handler("/save") = "handleSave"
    \/ Handler("/") = "control" /\ Handler("/reset") = "handleReset"

RoutesOK == DOMAIN routes \subseteq Uri /\ (routes = <<>> \/ Home)

LEMMA SetupOn ==
  ASSUME RoutesOK, routes' = AfterOn(SetupRoutes)
  PROVE  RoutesOK' /\ Home'
<1>1. DOMAIN SetupRoutes = {"/", "/save"}
  BY DEF SetupRoutes
<1>2. DOMAIN routes' = DOMAIN routes \cup {"/", "/save"}
  BY <1>1 DEF AfterOn
<1>3. \A u \in DOMAIN routes' :
        routes'[u] = IF u \in DOMAIN routes THEN routes[u] ELSE SetupRoutes[u]
  BY <1>1 DEF AfterOn
<1>4. SetupRoutes["/"] = "setup" /\ SetupRoutes["/save"] = "handleSave"
  BY DEF SetupRoutes
<1>5. CASE routes = <<>>
  <2>1. DOMAIN routes = {}
    BY <1>5
  <2> QED BY <1>2, <1>3, <1>4, <2>1 DEF RoutesOK, Home, Handler, Uri
<1>6. CASE Home
  BY <1>2, <1>3, <1>4, <1>6 DEF RoutesOK, Home, Handler, Uri
<1> QED BY <1>5, <1>6 DEF RoutesOK

LEMMA ControlOn ==
  ASSUME routes = <<>>, routes' = AfterOn(ControlRoutes)
  PROVE  RoutesOK' /\ Home'
<1>1. DOMAIN ControlRoutes = Uri \ {"/save"}
  BY DEF ControlRoutes
<1>2. DOMAIN routes = {}
  OBVIOUS
<1>3. DOMAIN routes' = Uri \ {"/save"}
  BY <1>1, <1>2 DEF AfterOn
<1>4. \A u \in Uri \ {"/save"} : routes'[u] = ControlRoutes[u]
  BY <1>1, <1>2 DEF AfterOn
<1>5. ControlRoutes["/"] = "control" /\ ControlRoutes["/reset"] = "handleReset"
  BY DEF ControlRoutes, Uri
<1> QED BY <1>3, <1>4, <1>5 DEF RoutesOK, Home, Handler, Uri

-----------------------------------------------------------------------------
(* Types, and the invariant WayBack rests on: the server has no route      *)
(* before begin has ended and a home page afterwards, and a loop that has  *)
(* just seen no network has started the access point.                      *)

Begun == {"check", "client", "savePassword", "restart"}

IInv ==
    /\ TypeOK
    /\ RoutesOK
    /\ pc \in Begun <=> routes # <<>>
    /\ pc = "client" /\ ~isConnected => apMode

LEMMA Blank == NoCredentials \in Credentials
  BY DEF NoCredentials, Credentials, Text

LEMMA InitInv == Init => IInv
<1> SUFFICES ASSUME Init PROVE IInv
  OBVIOUS
<1>1. DOMAIN routes = {}
  BY DEF Init
<1>2. TypeOK
  <2>1. inbox \in Seq(Request)
    BY DEF Init
  <2>2. DOMAIN routes \subseteq Uri
    BY <1>1
  <2>3. faults \in 0..MaxFaults
    BY DEF Init
  <2> QED BY <2>1, <2>2, <2>3, Blank DEF Init, TypeOK
<1>3. RoutesOK /\ (pc \in Begun <=> routes # <<>>)
  BY <1>1 DEF Init, RoutesOK, Begun
<1> QED BY <1>2, <1>3 DEF Init, IInv

LEMMA RebootInv ==
  ASSUME IInv, Reboot, faults' \in 0..MaxFaults
  PROVE  IInv'
<1>1. DOMAIN routes' = {}
  BY DEF Reboot
<1>2. TypeOK'
  <2>1. inbox' \in Seq(Request)
    BY DEF Reboot
  <2>2. (DOMAIN routes \subseteq Uri)'
    BY <1>1
  <2> QED BY <2>1, <2>2, Blank DEF IInv, Reboot, TypeOK
<1>3. (RoutesOK /\ (pc \in Begun <=> routes # <<>>))'
  BY <1>1 DEF Reboot, RoutesOK, Begun
<1> QED BY <1>2, <1>3 DEF Reboot, IInv

\* What a request adds and what a fault does keeps the inbox a sequence.
LEMMA SendInv ==
  ASSUME IInv, NEW r \in Request, Send(r), pc' = pc,
         page' \in {"none", "setup", "control"}, faults' \in 0..MaxFaults,
         held' \in BOOLEAN, strayed' \in BOOLEAN
  PROVE  IInv'
  BY DEF Send, IInv, TypeOK, RoutesOK, Home, Handler, flags

LEMMA WithoutAt ==
  ASSUME NEW S, NEW q \in Seq(S), NEW i \in 1..Len(q)
  PROVE  /\ Without(q, i) \in Seq(S)
         /\ Len(Without(q, i)) = Len(q) - 1
         /\ \A k \in 1..Len(q) - 1 :
                Without(q, i)[k] = IF k < i THEN q[k] ELSE q[k + 1]
<1> DEFINE a == SubSeq(q, 1, i - 1)
           b == SubSeq(q, i + 1, Len(q))
<1>1. Len(q) \in Nat /\ i \in Nat /\ 1 <= i /\ i <= Len(q)
  OBVIOUS
<1>2. a \in Seq(S) /\ Len(a) = i - 1 /\ \A k \in 1..i - 1 : a[k] = q[k]
  OBVIOUS
<1>3. b \in Seq(S) /\ Len(b) = Len(q) - i /\ \A k \in 1..Len(q) - i : b[k] = q[i + k]
  OBVIOUS
<1> HIDE DEF a, b
<1>4. /\ a \o b \in Seq(S) /\ Len(a \o b) = Len(a) + Len(b)
      /\ \A k \in 1..Len(a) + Len(b) :
            (a \o b)[k] = IF k <= Len(a) THEN a[k] ELSE b[k - Len(a)]
  BY <1>2, <1>3, ConcatProperties
<1>5. Len(a) + Len(b) = Len(q) - 1
  BY <1>1, <1>2, <1>3
<1>6. ASSUME NEW k \in 1..Len(q) - 1
      PROVE  (a \o b)[k] = IF k < i THEN q[k] ELSE q[k + 1]
  <2>1. (a \o b)[k] = IF k <= i - 1 THEN a[k] ELSE b[k - (i - 1)]
    BY <1>2, <1>4, <1>5
  <2>2. CASE k < i
    <3>1. k \in 1..i - 1 /\ k <= i - 1
      BY <1>1, <2>2
    <3> QED BY <1>2, <2>1, <2>2, <3>1
  <2>3. CASE ~(k < i)
    <3>1. k - (i - 1) \in 1..Len(q) - i /\ i + (k - (i - 1)) = k + 1 /\ ~(k <= i - 1)
      BY <1>1, <2>3
    <3>2. b[k - (i - 1)] = q[i + (k - (i - 1))]
      BY <1>3, <3>1
    <3> QED BY <2>1, <2>3, <3>1, <3>2
  <2> QED BY <2>2, <2>3
<1>7. Without(q, i) = a \o b
  BY DEF Without, a, b
<1> QED BY <1>4, <1>5, <1>6, <1>7

LEMMA InboxFault ==
  ASSUME TypeOK, LoseRequest \/ DelayRequest
  PROVE  inbox' \in Seq(Request) /\ strayed' \in BOOLEAN
<1> USE DEF TypeOK
<1>1. \A i \in 1..Len(inbox) : Without(inbox, i) \in Seq(Request)
  BY WithoutAt
<1>2. ASSUME NEW i \in 1..Len(inbox) - 1,
             inbox' = [inbox EXCEPT ![i] = inbox[i + 1], ![i + 1] = inbox[i]]
      PROVE  inbox' \in Seq(Request)
  BY <1>2
<1>3. strayed' \in BOOLEAN
  BY DEF LoseRequest, DelayRequest
<1> QED BY <1>1, <1>2, <1>3 DEF LoseRequest, DelayRequest

LEMMA TakesInbox ==
  ASSUME TypeOK, NEW handler, Takes(handler)
  PROVE  /\ inbox' \in Seq(Request)
         /\ Head(inbox) \in Request
  BY HeadTailProperties DEF TypeOK, Takes

LEMMA DeviceInv == IInv /\ Device => IInv'
<1> SUFFICES ASSUME IInv, Device PROVE IInv'
  OBVIOUS
<1> USE DEF IInv, TypeOK, RoutesOK, Begun, Home, Handler, flags, world, button
<1>1. CASE Begin
  BY <1>1 DEF Begin
<1>2. CASE TimedOut
  BY <1>2 DEF TimedOut
<1>3. CASE Joined
  <2>1. RoutesOK' /\ Home'
    BY <1>3, ControlOn DEF Joined
  <2>2. routes' # <<>>
    BY <2>1
  <2> QED BY <1>3, <2>1, <2>2 DEF Joined
<1>4. CASE BeginAccessPoint
  <2>1. RoutesOK' /\ Home'
    BY <1>4, SetupOn DEF BeginAccessPoint, StartAccessPoint
  <2>2. routes' # <<>>
    BY <2>1
  <2> QED BY <1>4, <2>1, <2>2 DEF BeginAccessPoint, StartAccessPoint
<1>5. CASE SeeLink
  BY <1>5 DEF SeeLink
<1>6. CASE SeeNoLink
  <2>1. CASE apMode
    BY <1>6, <2>1 DEF SeeNoLink
  <2>2. CASE ~apMode
    <3>1. RoutesOK' /\ Home'
      BY <1>6, <2>2, SetupOn DEF SeeNoLink, StartAccessPoint
    <3>2. routes' # <<>>
      BY <3>1
    <3> QED BY <1>6, <2>2, <3>1, <3>2 DEF SeeNoLink, StartAccessPoint
  <2> QED BY <2>1, <2>2
<1>7. CASE NoClient
  BY <1>7 DEF NoClient
<1>8. CASE HandleClient
  <2>1. CASE ServeHome
    BY <2>1, TakesInbox DEF ServeHome, Takes
  <2>2. CASE HandleLEDOn
    BY <2>2, TakesInbox DEF HandleLEDOn, Takes
  <2>3. CASE HandleLEDOff
    BY <2>3, TakesInbox DEF HandleLEDOff, Takes
  <2>4. CASE HandleReset
    BY <2>4, TakesInbox, Blank DEF HandleReset, Takes
  <2>5. CASE HandleSave
    <3>1. inbox' \in Seq(Request) /\ Head(inbox).form \in Credentials
      BY <2>5, TakesInbox DEF HandleSave, Request
    <3>2. (saved \in Credentials /\ form \in Credentials)'
      BY <2>5, <3>1 DEF HandleSave, Credentials
    <3> QED BY <2>5, <3>1, <3>2 DEF HandleSave, Takes
  <2>6. CASE NotFound
    BY <2>6, TakesInbox DEF NotFound, Takes
  <2> QED BY <1>8, <2>1, <2>2, <2>3, <2>4, <2>5, <2>6 DEF HandleClient
<1>9. CASE SavePassword
  BY <1>9 DEF SavePassword, Credentials
<1>10. CASE Restart
  BY <1>10, RebootInv DEF Restart
<1> QED BY <1>1, <1>2, <1>3, <1>4, <1>5, <1>6, <1>7, <1>8, <1>9, <1>10 DEF Device

LEMMA SurroundingsInv == IInv /\ Surroundings => IInv'
<1> SUFFICES ASSUME IInv, Surroundings PROVE IInv'
  OBVIOUS
<1> USE DEF IInv, TypeOK, RoutesOK, Begun, Home, Handler, flags, world, button
<1>1. CASE ChangeNetwork
  BY <1>1 DEF ChangeNetwork
<1>2. CASE LinkUp
  BY <1>2 DEF LinkUp
<1>3. CASE LinkDown
  <2>1. TypeOK'
    BY <1>3 DEF LinkDown
  <2>2. (RoutesOK /\ (pc \in Begun <=> routes # <<>>))'
    BY <1>3 DEF LinkDown
  <2> QED BY <1>3, <2>1, <2>2 DEF LinkDown
<1>4. CASE PowerLoss
  BY <1>4, RebootInv DEF PowerLoss, Fault
<1>5. CASE LoseRequest \/ DelayRequest
  <2>1. inbox' \in Seq(Request) /\ strayed' \in BOOLEAN
    BY <1>5, InboxFault
  <2>2. UNCHANGED <<saved, pc, flags, routes, form, sta, link, page, up, held>>
        /\ faults' \in 0..MaxFaults
    BY <1>5 DEF LoseRequest, DelayRequest, Fault
  <2> QED BY <2>1, <2>2
<1> QED BY <1>1, <1>2, <1>3, <1>4, <1>5 DEF Surroundings

LEMMA UserInv == IInv /\ User => IInv'
<1> SUFFICES ASSUME IInv, User PROVE IInv'
  OBVIOUS
<1>1. \A uri \in Uri : Get(uri) \in Request
  BY Blank DEF Get, Request
<1>2. \A creds \in Credentials : Post(creds) \in Request
  BY DEF Post, Request, Uri
<1>3. /\ page \in {"none", "setup", "control"} /\ faults \in 0..MaxFaults /\ up \in Text
      /\ held \in BOOLEAN /\ strayed \in BOOLEAN
  BY DEF IInv, TypeOK
<1>4. \A r : Send(r) => pc' = pc
  BY DEF Send
<1>5. CASE Open
  BY <1>1, <1>3, <1>4, <1>5, SendInv DEF Open, Uri, button
<1>6. CASE Press \/ Release
  BY <1>1, <1>3, <1>4, <1>6, SendInv DEF Press, Release, Uri
<1>7. CASE ResetCredentials
  BY <1>1, <1>3, <1>4, <1>7, SendInv DEF ResetCredentials, Uri, button
<1>8. CASE SubmitRight
  <2>1. [ssid |-> up, password |-> up] \in Credentials
    BY <1>3 DEF Credentials
  <2> QED BY <1>2, <1>3, <1>4, <1>8, <2>1, SendInv DEF SubmitRight, button
<1>9. CASE SubmitWrong
  <2>1. PICK creds \in Credentials : Send(Post(creds))
    BY <1>9 DEF SubmitWrong
  <2>2. pc' = pc /\ page' \in {"none", "setup", "control"} /\ faults' \in 0..MaxFaults
        /\ held' \in BOOLEAN /\ strayed' \in BOOLEAN
    BY <1>3, <1>4, <1>9, <2>1, NetConnectAssumption DEF SubmitWrong, Fault, button
  <2> QED BY <1>2, <2>1, <2>2, SendInv
<1>10. CASE LetGo
  BY <1>3, <1>10 DEF LetGo, IInv, TypeOK, RoutesOK, Home, Handler, flags
<1> QED BY <1>5, <1>6, <1>7, <1>8, <1>9, <1>10 DEF User

LEMMA NextInv == IInv /\ [Next]_vars => IInv'
<1>1. ASSUME IInv, UNCHANGED vars PROVE IInv'
  BY <1>1 DEF IInv, TypeOK, RoutesOK, Begun, Home, Handler, vars, flags, world, button
<1> QED BY <1>1, DeviceInv, SurroundingsInv, UserInv DEF Next

LEMMA Inductive == Spec => []IInv
  BY InitInv, NextInv, PTL DEF Spec

\* Every variable of the device, the driver and the browser keeps its type.
THEOREM TypeCorrect == Spec => []TypeOK
<1>1. IInv => TypeOK
  BY DEF IInv
<1> QED BY <1>1, Inductive, PTL

\* A device that sees no network offers an access point whose home page
\* leads to new credentials, however it was started.
THEOREM WayBackAlways == Spec => []WayBack
<1>1. IInv => WayBack
  BY DEF IInv, RoutesOK, Begun, WayBack, Home
<1> QED BY <1>1, Inductive, PTL

-----------------------------------------------------------------------------
(* The credentials in use are those in flash memory.                       *)

LEMMA NextRunsOnSaved == RunsOnSaved /\ [Next]_vars => RunsOnSaved'
<1> SUFFICES ASSUME RunsOnSaved, [Next]_vars PROVE RunsOnSaved'
  OBVIOUS
<1> USE DEF RunsOnSaved, flags, world, button
<1>1. CASE Device
  <2>1. CASE Restart
    BY <2>1 DEF Restart, Reboot
  <2>2. CASE HandleClient
    BY <2>2 DEF HandleClient, ServeHome, HandleLEDOn, HandleLEDOff, HandleReset,
                HandleSave, NotFound, Takes
  <2>3. CASE SavePassword \/ Begin
    BY <2>3 DEF SavePassword, Begin
  <2> QED BY <1>1, <2>1, <2>2, <2>3 DEF Device, TimedOut, Joined, BeginAccessPoint,
             SeeLink, SeeNoLink, NoClient
<1>2. CASE Surroundings
  BY <1>2 DEF Surroundings, ChangeNetwork, LinkUp, LinkDown, PowerLoss, Reboot,
              LoseRequest, DelayRequest
<1>3. CASE User
  BY <1>3 DEF User, Open, Press, Release, LetGo, ResetCredentials, SubmitRight, SubmitWrong, Send
<1>4. CASE UNCHANGED vars
  BY <1>4 DEF vars
<1> QED BY <1>1, <1>2, <1>3, <1>4 DEF Next

\* No device goes on with credentials that it has been told to forget.
THEOREM RunsOnSavedAlways == Spec => []RunsOnSaved
<1>1. Init => RunsOnSaved
  BY DEF Init, RunsOnSaved
<1> QED BY <1>1, NextRunsOnSaved, PTL DEF Spec

-----------------------------------------------------------------------------
(* The LED.  The button's last word is a request on its way or, when none   *)
(* is, manualOverride; the LED will be dark once it has been heard.         *)

NoLed(q) == \A k \in DOMAIN q : q[k].uri \notin LedUri

\* The last request of the button in q is a press.
PressLast(q) ==
    \E k \in DOMAIN q :
        /\ q[k].uri = "/led/off"
        /\ \A j \in DOMAIN q : j > k => q[j].uri \notin LedUri

WillBeDark == PressLast(inbox) \/ (manualOverride /\ NoLed(inbox))

\* The handlers of the button come together, each for its own URI.
LedRoutes ==
    /\ \A u \in DOMAIN routes :
        /\ u = "/led/on" <=> routes[u] = "handleLEDOn"
        /\ u = "/led/off" <=> routes[u] = "handleLEDOff"
    /\ "/led/off" \in DOMAIN routes => "/led/on" \in DOMAIN routes

LedInv ==
    /\ LedRoutes
    /\ manualOverride => "/led/on" \in DOMAIN routes
    /\ pc = "client" /\ isConnected /\ led = "LOW" => manualOverride
    /\ ~strayed /\ WillBeDark => held

LEMMA WillBeDarkNext ==
  WillBeDark' <=> PressLast(inbox') \/ (manualOverride' /\ NoLed(inbox'))
  BY DEF WillBeDark, PressLast, NoLed

LEMMA TailLed ==
  ASSUME NEW q \in Seq(Request), q # <<>>
  PROVE  /\ PressLast(Tail(q)) => PressLast(q)
         /\ NoLed(Tail(q)) /\ Head(q).uri = "/led/off" => PressLast(q)
         /\ NoLed(Tail(q)) /\ Head(q).uri \notin LedUri => NoLed(q)
<1>1. /\ Tail(q) \in Seq(Request) /\ Len(Tail(q)) = Len(q) - 1 /\ Len(q) \in Nat \ {0}
      /\ \A k \in 1..Len(q) - 1 : Tail(q)[k] = q[k + 1]
      /\ Head(q) = q[1]
  BY HeadTailProperties
<1>2. DOMAIN q = 1..Len(q) /\ DOMAIN Tail(q) = 1..Len(q) - 1
  BY <1>1
<1>3. \A j \in 2..Len(q) : q[j] = Tail(q)[j - 1] /\ j - 1 \in 1..Len(q) - 1
  BY <1>1
<1>4. ASSUME PressLast(Tail(q)) PROVE PressLast(q)
  <2>1. PICK k \in 1..Len(q) - 1 :
            /\ Tail(q)[k].uri = "/led/off"
            /\ \A j \in 1..Len(q) - 1 : j > k => Tail(q)[j].uri \notin LedUri
    BY <1>2, <1>4 DEF PressLast
  <2>2. k + 1 \in 1..Len(q) /\ q[k + 1].uri = "/led/off"
    BY <1>1, <2>1
  <2>3. ASSUME NEW j \in 1..Len(q), j > k + 1 PROVE q[j].uri \notin LedUri
    <3>1. j \in 2..Len(q) /\ j - 1 > k
      BY <1>1, <2>3
    <3> QED BY <1>3, <2>1, <3>1
  <2> QED BY <1>2, <2>2, <2>3 DEF PressLast
<1>5. ASSUME NoLed(Tail(q)) PROVE \A j \in 1..Len(q) : j > 1 => q[j].uri \notin LedUri
  <2> SUFFICES ASSUME NEW j \in 1..Len(q), j > 1 PROVE q[j].uri \notin LedUri
    OBVIOUS
  <2>1. j \in 2..Len(q)
    BY <1>1
  <2> QED BY <1>2, <1>3, <1>5, <2>1 DEF NoLed
<1>6. 1 \in 1..Len(q)
  BY <1>1
<1>7. NoLed(Tail(q)) /\ Head(q).uri = "/led/off" => PressLast(q)
  BY <1>1, <1>2, <1>5, <1>6 DEF PressLast
<1>8. NoLed(Tail(q)) /\ Head(q).uri \notin LedUri => NoLed(q)
  <2> SUFFICES ASSUME NoLed(Tail(q)), Head(q).uri \notin LedUri, NEW j \in 1..Len(q)
               PROVE  q[j].uri \notin LedUri
    BY <1>2 DEF NoLed
  <2>1. j = 1 \/ j > 1
    BY <1>1
  <2> QED BY <1>1, <1>5, <2>1
<1> QED BY <1>4, <1>7, <1>8

LEMMA AppendLed ==
  ASSUME NEW q \in Seq(Request), NEW r \in Request
  PROVE  /\ PressLast(Append(q, r)) =>
              r.uri = "/led/off" \/ (r.uri \notin LedUri /\ PressLast(q))
         /\ NoLed(Append(q, r)) => r.uri \notin LedUri /\ NoLed(q)
<1> DEFINE a == Append(q, r)
<1>1. /\ a \in Seq(Request) /\ Len(q) \in Nat
      /\ DOMAIN q = 1..Len(q) /\ DOMAIN a = 1..Len(q) + 1
      /\ \A k \in 1..Len(q) : a[k] = q[k] /\ k \in 1..Len(q) + 1 /\ Len(q) + 1 > k
      /\ a[Len(q) + 1] = r /\ Len(q) + 1 \in 1..Len(q) + 1
  OBVIOUS
<1> HIDE DEF a
<1>2. ASSUME PressLast(a) PROVE r.uri = "/led/off" \/ (r.uri \notin LedUri /\ PressLast(q))
  <2>1. PICK k \in 1..Len(q) + 1 :
            /\ a[k].uri = "/led/off"
            /\ \A j \in 1..Len(q) + 1 : j > k => a[j].uri \notin LedUri
    BY <1>1, <1>2 DEF PressLast
  <2>2. CASE k = Len(q) + 1
    BY <1>1, <2>1, <2>2
  <2>3. CASE k # Len(q) + 1
    <3>1. k \in 1..Len(q)
      BY <1>1, <2>3
    <3>2. r.uri \notin LedUri
      BY <1>1, <2>1, <3>1
    <3>3. q[k].uri = "/led/off" /\ \A j \in 1..Len(q) : j > k => q[j].uri \notin LedUri
      BY <1>1, <2>1, <3>1
    <3> QED BY <1>1, <3>1, <3>2, <3>3 DEF PressLast
  <2> QED BY <2>2, <2>3
<1>3. NoLed(a) => r.uri \notin LedUri /\ NoLed(q)
  BY <1>1 DEF NoLed
<1> QED BY <1>2, <1>3 DEF a

\* What is taken out of q is no release: no new press is the last one.
LEMMA WithoutLed ==
  ASSUME NEW n \in Nat, NEW q, DOMAIN q = 1..n, NEW i \in 1..n, q[i].uri # "/led/on",
         NEW rest, DOMAIN rest = 1..n - 1,
         \A k \in 1..n - 1 : rest[k] = IF k < i THEN q[k] ELSE q[k + 1]
  PROVE  /\ PressLast(rest) => PressLast(q)
         /\ NoLed(rest) => PressLast(q) \/ NoLed(q)
<1>2. \A j \in 1..n : j < i => j \in 1..n - 1 /\ rest[j] = q[j]
  OBVIOUS
<1>3. \A j \in 1..n : j > i => j - 1 \in 1..n - 1 /\ rest[j - 1] = q[j]
  <2> SUFFICES ASSUME NEW j \in 1..n, j > i
               PROVE  j - 1 \in 1..n - 1 /\ rest[j - 1] = q[j]
    OBVIOUS
  <2>1. j - 1 \in 1..n - 1 /\ ~(j - 1 < i) /\ (j - 1) + 1 = j
    OBVIOUS
  <2>2. rest[j - 1] = q[(j - 1) + 1]
    BY <2>1
  <2> QED BY <2>1, <2>2
<1>4. ASSUME NEW k \in 0..n - 1,
             \A j \in 1..n - 1 : j > k => rest[j].uri \notin LedUri
      PROVE  \A j \in 1..n : j > (IF k < i THEN k ELSE k + 1) /\ j # i => q[j].uri \notin LedUri
  <2> SUFFICES ASSUME NEW j \in 1..n, j > (IF k < i THEN k ELSE k + 1), j # i
               PROVE  q[j].uri \notin LedUri
    OBVIOUS
  <2>1. CASE j < i
    <3>1. j > k /\ j \in 1..n - 1 /\ rest[j] = q[j]
      BY <1>2, <2>1
    <3> QED BY <1>4, <3>1
  <2>2. CASE j > i
    <3>1. j - 1 > k /\ j - 1 \in 1..n - 1 /\ rest[j - 1] = q[j]
      BY <1>3, <2>2
    <3> QED BY <1>4, <3>1
  <2> QED BY <2>1, <2>2
<1>5. ASSUME q[i].uri = "/led/off", \A j \in 1..n : j > i => q[j].uri \notin LedUri
      PROVE  PressLast(q)
  BY <1>5 DEF PressLast
<1>6. q[i].uri = "/led/off" \/ q[i].uri \notin LedUri
  BY DEF LedUri
<1>7. ASSUME PressLast(rest) PROVE PressLast(q)
  <2>1. PICK k \in 1..n - 1 :
            /\ rest[k].uri = "/led/off"
            /\ \A j \in 1..n - 1 : j > k => rest[j].uri \notin LedUri
    BY <1>7 DEF PressLast
  <2> DEFINE m == IF k < i THEN k ELSE k + 1
  <2>2. m \in 1..n /\ m # i /\ q[m].uri = "/led/off"
    <3>1. m \in 1..n /\ m # i
      OBVIOUS
    <3>2. rest[k] = q[m]
      OBVIOUS
    <3> QED BY <2>1, <3>1, <3>2
  <2>3. \A j \in 1..n : j > m /\ j # i => q[j].uri \notin LedUri
    <3>1. k \in 0..n - 1 /\ \A j \in 1..n - 1 : j > k => rest[j].uri \notin LedUri
      BY <2>1
    <3> QED BY <1>4, <3>1
  <2> HIDE DEF m
  <2>4. CASE q[i].uri = "/led/off" /\ i > m
    BY <1>5, <2>2, <2>3, <2>4
  <2>5. CASE ~(q[i].uri = "/led/off" /\ i > m)
    BY <1>6, <2>2, <2>3, <2>5 DEF PressLast
  <2> QED BY <2>4, <2>5
<1>8. ASSUME NoLed(rest) PROVE PressLast(q) \/ NoLed(q)
  <2>1. \A j \in 1..n : j # i => q[j].uri \notin LedUri
    <3>1. \A j \in 1..n - 1 : rest[j].uri \notin LedUri
      BY <1>8 DEF NoLed
    <3>2. \A j \in 1..n : j < i \/ j > i \/ j = i
      OBVIOUS
    <3> QED BY <1>2, <1>3, <3>1, <3>2
  <2>2. CASE q[i].uri = "/led/off"
    BY <1>5, <2>1, <2>2
  <2>3. CASE q[i].uri \notin LedUri
    BY <2>1, <2>3 DEF NoLed
  <2> QED BY <1>6, <2>2, <2>3
<1> QED BY <1>7, <1>8

\* A lost request that is no release.
LEMMA LoseLed ==
  ASSUME NEW q \in Seq(Request), NEW i \in 1..Len(q), q[i].uri # "/led/on"
  PROVE  /\ PressLast(Without(q, i)) => PressLast(q)
         /\ NoLed(Without(q, i)) => PressLast(q) \/ NoLed(q)
<1>1. Len(q) \in Nat /\ DOMAIN q = 1..Len(q)
  OBVIOUS
<1>2. /\ Without(q, i) \in Seq(Request) /\ Len(Without(q, i)) = Len(q) - 1
      /\ \A k \in 1..Len(q) - 1 : Without(q, i)[k] = IF k < i THEN q[k] ELSE q[k + 1]
  BY WithoutAt
<1>3. DOMAIN Without(q, i) = 1..Len(q) - 1
  BY <1>2
<1> QED BY <1>1, <1>2, <1>3, WithoutLed

\* What is overtaken is not a press by a release.
LEMMA DelayLed ==
  ASSUME NEW q \in Seq(Request), NEW i \in 1..Len(q) - 1,
         ~(q[i].uri = "/led/off" /\ q[i + 1].uri = "/led/on"),
         NEW swapped, swapped = [q EXCEPT ![i] = q[i + 1], ![i + 1] = q[i]]
  PROVE  /\ PressLast(swapped) => PressLast(q)
         /\ NoLed(swapped) => NoLed(q)
<1>1. /\ Len(q) \in Nat \ {0} /\ DOMAIN q = 1..Len(q) /\ DOMAIN swapped = 1..Len(q)
      /\ i \in 1..Len(q) /\ i + 1 \in 1..Len(q) /\ i # i + 1
      /\ swapped[i] = q[i + 1] /\ swapped[i + 1] = q[i]
      /\ \A k \in 1..Len(q) : k # i /\ k # i + 1 => swapped[k] = q[k]
  OBVIOUS
<1>2. \A j, k \in 1..Len(q) : j > k \/ j = k \/ k > j
  BY <1>1
<1>3. \A j \in 1..Len(q) : j > i /\ j # i + 1 => j > i + 1
  BY <1>1
<1>4. i + 1 > i /\ ~(i > i + 1) /\ ~(i > i) /\ ~(i + 1 > i + 1)
  OBVIOUS
<1>5. ASSUME PressLast(swapped) PROVE PressLast(q)
  <2>1. PICK k \in 1..Len(q) :
            /\ swapped[k].uri = "/led/off"
            /\ \A j \in 1..Len(q) : j > k => swapped[j].uri \notin LedUri
    BY <1>1, <1>5 DEF PressLast
  <2>2. CASE k = i
    <3>1. q[i + 1].uri = "/led/off"
      BY <1>1, <2>1, <2>2
    <3>2. ASSUME NEW j \in 1..Len(q), j > i + 1 PROVE q[j].uri \notin LedUri
      <4>1. j > i /\ j # i /\ j # i + 1
        BY <1>1, <3>2
      <4> QED BY <1>1, <2>1, <2>2, <4>1
    <3> QED BY <1>1, <3>1, <3>2 DEF PressLast
  <2>3. CASE k = i + 1
    <3>1. q[i].uri = "/led/off"
      BY <1>1, <2>1, <2>3
    <3>2. ASSUME NEW j \in 1..Len(q), j > i + 1 PROVE q[j].uri \notin LedUri
      <4>1. j # i /\ j # i + 1
        BY <1>1, <3>2
      <4> QED BY <1>1, <2>1, <2>3, <3>2, <4>1
    <3>3. CASE q[i + 1].uri = "/led/off"
      BY <1>1, <3>2, <3>3 DEF PressLast
    <3>4. CASE q[i + 1].uri \notin LedUri
      <4>1. \A j \in 1..Len(q) : j > i => q[j].uri \notin LedUri
        BY <1>3, <3>2, <3>4
      <4> QED BY <1>1, <3>1, <4>1 DEF PressLast
    <3> QED BY <3>1, <3>3, <3>4 DEF LedUri
  <2>4. CASE k # i /\ k # i + 1
    <3>1. q[k].uri = "/led/off"
      BY <1>1, <2>1, <2>4
    <3>2. ASSUME NEW j \in 1..Len(q), j > k PROVE q[j].uri \notin LedUri
      <4>1. CASE j = i
        <5>1. i + 1 > k
          BY <1>1, <3>2, <4>1
        <5> QED BY <1>1, <2>1, <4>1, <5>1
      <4>2. CASE j = i + 1
        <5>1. i > k
          BY <1>1, <2>4, <3>2, <4>2
        <5> QED BY <1>1, <2>1, <4>2, <5>1
      <4>3. CASE j # i /\ j # i + 1
        BY <1>1, <2>1, <3>2, <4>3
      <4> QED BY <4>1, <4>2, <4>3
    <3> QED BY <1>1, <3>1, <3>2 DEF PressLast
  <2> QED BY <2>2, <2>3, <2>4
<1>6. ASSUME NoLed(swapped) PROVE NoLed(q)
  <2> SUFFICES ASSUME NEW j \in 1..Len(q) PROVE q[j].uri \notin LedUri
    BY <1>1 DEF NoLed
  <2>1. CASE j = i \/ j = i + 1
    BY <1>1, <1>6, <2>1 DEF NoLed
  <2>2. CASE j # i /\ j # i + 1
    BY <1>1, <1>6, <2>2 DEF NoLed
  <2> QED BY <2>1, <2>2
<1> QED BY <1>5, <1>6

LEMMA SetupOnLed ==
  ASSUME LedRoutes, routes' = AfterOn(SetupRoutes)
  PROVE  LedRoutes' /\ DOMAIN routes \subseteq DOMAIN routes'
<1>1. /\ DOMAIN SetupRoutes = {"/", "/save"}
      /\ \A u \in {"/", "/save"} : SetupRoutes[u] \in {"setup", "handleSave"}
  BY DEF SetupRoutes
<1>2. DOMAIN routes' = DOMAIN routes \cup {"/", "/save"}
  BY <1>1 DEF AfterOn
<1>3. \A u \in DOMAIN routes' :
        routes'[u] = IF u \in DOMAIN routes THEN routes[u] ELSE SetupRoutes[u]
  BY <1>1 DEF AfterOn
<1> QED BY <1>1, <1>2, <1>3 DEF LedRoutes

LEMMA ControlOnLed ==
  ASSUME routes = <<>>, routes' = AfterOn(ControlRoutes)
  PROVE  LedRoutes' /\ DOMAIN routes = {} /\ "/led/on" \in DOMAIN routes'
<1>1. DOMAIN ControlRoutes = Uri \ {"/save"}
  BY DEF ControlRoutes
<1>2. DOMAIN routes = {}
  OBVIOUS
<1>3. DOMAIN routes' = Uri \ {"/save"}
  BY <1>1, <1>2 DEF AfterOn
<1>4. \A u \in Uri \ {"/save"} : routes'[u] = ControlRoutes[u]
  BY <1>1, <1>2 DEF AfterOn
<1>5. /\ ControlRoutes["/"] = "control" /\ ControlRoutes["/reset"] = "handleReset"
      /\ ControlRoutes["/led/on"] = "handleLEDOn" /\ ControlRoutes["/led/off"] = "handleLEDOff"
  BY DEF ControlRoutes, Uri
<1> QED BY <1>2, <1>3, <1>4, <1>5 DEF LedRoutes, Uri

\* What a step that adds no handler and leaves the override alone has to show.
LEMMA LedFrame ==
  ASSUME LedInv, UNCHANGED <<routes, manualOverride>>,
         (pc = "client" /\ isConnected /\ led = "LOW")' => manualOverride,
         ~strayed' /\ WillBeDark' => held'
  PROVE  LedInv'
  BY DEF LedInv, LedRoutes

LEMMA RebootLed ==
  ASSUME Reboot PROVE LedInv'
<1>1. DOMAIN routes' = {} /\ DOMAIN inbox' = {} /\ ~manualOverride' /\ pc' = "begin"
  BY DEF Reboot
<1> QED BY <1>1 DEF LedInv, LedRoutes, WillBeDark, PressLast

LEMMA HandleClientLed ==
  ASSUME IInv, LedInv, HandleClient PROVE LedInv'
<1> DEFINE uri == Head(inbox).uri
<1>1. inbox \in Seq(Request) /\ inbox # <<>> /\ inbox' = Tail(inbox)
  BY DEF HandleClient, ServeHome, HandleLEDOn, HandleLEDOff, HandleReset, HandleSave, NotFound,
         Takes, IInv, TypeOK
<1>2. pc' # "client" /\ UNCHANGED <<routes, held, strayed>>
  BY DEF HandleClient, ServeHome, HandleLEDOn, HandleLEDOff, HandleReset, HandleSave, NotFound,
         flags, world, button
<1>3. /\ PressLast(inbox') => PressLast(inbox)
      /\ NoLed(inbox') /\ uri = "/led/off" => PressLast(inbox)
      /\ NoLed(inbox') /\ uri \notin LedUri => NoLed(inbox)
  BY <1>1, TailLed
<1> HIDE DEF uri
<1>4. ASSUME WillBeDark' => WillBeDark, manualOverride' => "/led/on" \in DOMAIN routes
      PROVE  LedInv'
  BY <1>2, <1>4 DEF LedInv, LedRoutes
<1>5. CASE HandleLEDOn
  <2>1. ~manualOverride'
    BY <1>5 DEF HandleLEDOn
  <2> QED BY <1>3, <1>4, <2>1, WillBeDarkNext DEF WillBeDark
<1>6. CASE HandleLEDOff
  <2>1. uri = "/led/off" /\ uri \in DOMAIN routes
    BY <1>6 DEF HandleLEDOff, Takes, Handler, LedInv, LedRoutes, uri
  <2>2. "/led/on" \in DOMAIN routes
    BY <2>1 DEF LedInv, LedRoutes
  <2> QED BY <1>3, <1>4, <2>1, <2>2, WillBeDarkNext DEF WillBeDark
<1>7. CASE ~HandleLEDOn /\ ~HandleLEDOff
  <2>1. PICK handler \in {"setup", "control", "handleReset", "handleSave", "notFound"} :
            Takes(handler)
    BY <1>7 DEF HandleClient, ServeHome, HandleReset, HandleSave, NotFound
  <2>2. UNCHANGED manualOverride
    BY <1>7 DEF HandleClient, ServeHome, HandleReset, HandleSave, NotFound, flags
  <2>3. manualOverride => uri # "/led/on"
    BY <2>1 DEF Takes, Handler, LedInv, LedRoutes, uri
  <2>4. WillBeDark' => WillBeDark
    BY <1>3, <2>2, <2>3, WillBeDarkNext DEF WillBeDark, LedUri
  <2>5. manualOverride' => "/led/on" \in DOMAIN routes
    BY <2>2 DEF LedInv
  <2> QED BY <1>4, <2>4, <2>5
<1> QED BY <1>5, <1>6, <1>7

LEMMA DeviceLed ==
  ASSUME IInv, LedInv, Device PROVE LedInv'
<1> USE DEF flags, world, button
<1>1. CASE Begin \/ TimedOut \/ NoClient \/ SavePassword
  <2>1. UNCHANGED <<routes, manualOverride, inbox, held, strayed>> /\ pc' # "client"
    BY <1>1 DEF Begin, TimedOut, NoClient, SavePassword
  <2>2. WillBeDark' => WillBeDark
    BY <2>1 DEF WillBeDark
  <2> QED BY <2>1, <2>2, LedFrame DEF LedInv
<1>2. CASE Joined
  <2>1. /\ routes = <<>> /\ routes' = AfterOn(ControlRoutes) /\ pc' # "client"
        /\ UNCHANGED <<manualOverride, inbox, held, strayed>>
    BY <1>2 DEF Joined, IInv, Begun
  <2>2. LedRoutes' /\ "/led/on" \in DOMAIN routes'
    BY <2>1, ControlOnLed
  <2>3. WillBeDark' => WillBeDark
    BY <2>1 DEF WillBeDark
  <2> QED BY <2>1, <2>2, <2>3 DEF LedInv
<1>3. CASE BeginAccessPoint
  <2>1. /\ routes' = AfterOn(SetupRoutes) /\ pc' # "client"
        /\ UNCHANGED <<manualOverride, inbox, held, strayed>>
    BY <1>3 DEF BeginAccessPoint, StartAccessPoint
  <2>2. LedRoutes' /\ DOMAIN routes \subseteq DOMAIN routes'
    BY <2>1, SetupOnLed DEF LedInv
  <2>3. WillBeDark' => WillBeDark
    BY <2>1 DEF WillBeDark
  <2> QED BY <2>1, <2>2, <2>3 DEF LedInv
<1>4. CASE SeeLink
  <2>1. /\ UNCHANGED <<routes, manualOverride, inbox, held, strayed>>
        /\ led' = "LOW" => manualOverride
    BY <1>4 DEF SeeLink
  <2>2. WillBeDark' => WillBeDark
    BY <2>1 DEF WillBeDark
  <2> QED BY <2>1, <2>2, LedFrame DEF LedInv
<1>5. CASE SeeNoLink
  <2>1. /\ ~manualOverride' /\ ~isConnected' /\ UNCHANGED <<inbox, held>>
        /\ strayed' = (strayed /\ LedPending # {})
    BY <1>5 DEF SeeNoLink
  <2>2. LedRoutes'
    BY <1>5, SetupOnLed DEF SeeNoLink, StartAccessPoint, LedInv, LedRoutes
  <2>3. WillBeDark' => PressLast(inbox)
    BY <2>1 DEF WillBeDark
  <2>4. PressLast(inbox) => LedPending # {}
    BY DEF PressLast, LedPending, LedUri
  <2>5. ~strayed' /\ WillBeDark' => held'
    BY <2>1, <2>3, <2>4 DEF LedInv, WillBeDark
  <2> QED BY <2>1, <2>2, <2>5 DEF LedInv
<1>6. CASE Restart
  BY <1>6, RebootLed DEF Restart
<1> QED BY <1>1, <1>2, <1>3, <1>4, <1>5, <1>6, HandleClientLed DEF Device

LEMMA SurroundingsLed ==
  ASSUME IInv, LedInv, Surroundings PROVE LedInv'
<1> USE DEF flags, world, button
<1>1. CASE ChangeNetwork \/ LinkUp \/ LinkDown
  <2>1. UNCHANGED <<pc, isConnected, led, routes, manualOverride, inbox, held, strayed>>
    BY <1>1 DEF ChangeNetwork, LinkUp, LinkDown
  <2>2. WillBeDark' => WillBeDark
    BY <2>1 DEF WillBeDark
  <2> QED BY <2>1, <2>2, LedFrame DEF LedInv
<1>2. CASE PowerLoss
  BY <1>2, RebootLed DEF PowerLoss
<1>3. CASE LoseRequest \/ DelayRequest
  <2>1. /\ UNCHANGED <<pc, isConnected, led, routes, manualOverride, held>>
        /\ strayed => strayed'
    BY <1>3 DEF LoseRequest, DelayRequest
  <2>2. inbox \in Seq(Request)
    BY DEF IInv, TypeOK
  <2>3. ~strayed' => /\ PressLast(inbox') => PressLast(inbox)
                     /\ NoLed(inbox') => PressLast(inbox) \/ NoLed(inbox)
    <3>1. CASE LoseRequest
      <4>1. PICK i \in 1..Len(inbox) :
                /\ inbox' = Without(inbox, i)
                /\ strayed' = (strayed \/ inbox[i].uri = "/led/on")
        BY <3>1 DEF LoseRequest
      <4>2. inbox[i].uri # "/led/on"
            => /\ PressLast(Without(inbox, i)) => PressLast(inbox)
               /\ NoLed(Without(inbox, i)) => PressLast(inbox) \/ NoLed(inbox)
        BY <2>2, LoseLed
      <4> QED BY <4>1, <4>2
    <3>2. CASE DelayRequest
      <4>1. PICK i \in 1..Len(inbox) - 1 :
                /\ inbox' = [inbox EXCEPT ![i] = inbox[i + 1], ![i + 1] = inbox[i]]
                /\ ~strayed' => ~(inbox[i].uri = "/led/off" /\ inbox[i + 1].uri = "/led/on")
        BY <3>2 DEF DelayRequest
      <4>2. \A next : /\ ~(inbox[i].uri = "/led/off" /\ inbox[i + 1].uri = "/led/on")
                      /\ next = [inbox EXCEPT ![i] = inbox[i + 1], ![i + 1] = inbox[i]]
                      => /\ PressLast(next) => PressLast(inbox)
                         /\ NoLed(next) => NoLed(inbox)
        BY <2>2, DelayLed
      <4> QED BY <4>1, <4>2
    <3> QED BY <1>3, <3>1, <3>2
  <2>4. ~strayed' /\ WillBeDark' => WillBeDark
    BY <2>1, <2>3, WillBeDarkNext DEF WillBeDark
  <2> QED BY <2>1, <2>4, LedFrame DEF LedInv
<1> QED BY <1>1, <1>2, <1>3 DEF Surroundings

LEMMA UserLed ==
  ASSUME IInv, LedInv, User PROVE LedInv'
<1> USE DEF flags
<1>1. UNCHANGED <<pc, isConnected, led, routes, manualOverride>>
  BY DEF User, Open, Press, Release, LetGo, ResetCredentials, SubmitRight, SubmitWrong, Send
<1>2. inbox \in Seq(Request) /\ up \in Text
  BY DEF IInv, TypeOK
<1>3. CASE Press
  BY <1>1, <1>3, LedFrame DEF Press, LedInv
<1>4. CASE LetGo
  BY <1>1, <1>4, LedFrame DEF LetGo, LedInv
<1>5. CASE Release
  <2>1. inbox' = Append(inbox, Get("/led/on")) /\ Get("/led/on") \in Request
    BY <1>5, Blank DEF Release, Send, Get, Request, Uri
  <2>2. Get("/led/on").uri \in LedUri /\ Get("/led/on").uri # "/led/off"
    BY DEF Get, LedUri
  <2>3. ~WillBeDark'
    BY <1>2, <2>1, <2>2, AppendLed, WillBeDarkNext DEF WillBeDark
  <2> QED BY <1>1, <2>3, LedFrame DEF LedInv
<1>6. CASE Open \/ ResetCredentials \/ SubmitRight \/ SubmitWrong
  <2>1. UNCHANGED <<held, strayed>>
    BY <1>6 DEF Open, ResetCredentials, SubmitRight, SubmitWrong, button
  <2>2. PICK r \in Request : r.uri \notin LedUri /\ inbox' = Append(inbox, r)
    <3>1. \A uri \in {"/", "/reset"} : Get(uri) \in Request /\ Get(uri).uri \notin LedUri
      BY Blank DEF Get, Request, Uri, LedUri
    <3>2. \A creds \in Credentials : Post(creds) \in Request /\ Post(creds).uri \notin LedUri
      BY DEF Post, Request, Uri, LedUri
    <3>3. [ssid |-> up, password |-> up] \in Credentials
      BY <1>2 DEF Credentials
    <3> QED BY <1>6, <3>1, <3>2, <3>3
            DEF Open, ResetCredentials, SubmitRight, SubmitWrong, Send
  <2>3. WillBeDark' => WillBeDark
    BY <1>1, <1>2, <2>2, AppendLed, WillBeDarkNext DEF WillBeDark, LedUri
  <2> QED BY <1>1, <2>1, <2>3, LedFrame DEF LedInv
<1> QED BY <1>3, <1>4, <1>5, <1>6 DEF User

LEMMA NextLed == IInv /\ LedInv /\ [Next]_vars => LedInv'
<1>1. ASSUME LedInv, UNCHANGED vars PROVE LedInv'
  <2>1. UNCHANGED <<pc, isConnected, led, routes, manualOverride, inbox, held, strayed>>
    BY <1>1 DEF vars, flags, world, button
  <2>2. WillBeDark' => WillBeDark
    BY <2>1 DEF WillBeDark
  <2> QED BY <1>1, <2>1, <2>2, LedFrame DEF LedInv
<1> QED BY <1>1, DeviceLed, SurroundingsLed, UserLed DEF Next

\* A connected device that has heard all the button had to say is dark only
\* while it is held, or after a release that was given up, lost or overtaken.
THEOREM DarkOnlyWhileHeldAlways == Spec => []DarkOnlyWhileHeld
<1>1. Init => LedInv
  <2> SUFFICES ASSUME Init PROVE LedInv
    OBVIOUS
  <2>1. DOMAIN routes = {} /\ DOMAIN inbox = {} /\ ~manualOverride /\ pc = "begin"
    BY DEF Init
  <2> QED BY <2>1 DEF LedInv, LedRoutes, WillBeDark, PressLast
<1>2. LedInv => DarkOnlyWhileHeld
  BY DEF LedInv, DarkOnlyWhileHeld, WillBeDark, NoLed, LedPending
<1> QED BY <1>1, <1>2, NextLed, Inductive, PTL DEF Spec
=============================================================================
