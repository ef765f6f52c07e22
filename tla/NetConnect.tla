----------------------------- MODULE NetConnect -----------------------------
(***************************************************************************)
(* The ESP32 firmware: NetworkInstance::begin and loop, its web server and *)
(* the Wi-Fi credentials it keeps in flash memory, with the Wi-Fi driver,  *)
(* the networks around it and a user with a browser.                       *)
(*                                                                         *)
(* The key of network n is written n: the credentials [ssid, password]     *)
(* open a network when both are n.  Left out: how long anything takes (a   *)
(* time limit may always win its race), the scan's result and the HTML.    *)
(***************************************************************************)
EXTENDS Naturals, Sequences

CONSTANTS
    Network,        \* Wi-Fi networks
    Empty,          \* the empty string
    MaxRequests,    \* bound: requests on their way to the server
    MaxFaults       \* bound: power losses, lost or delayed requests, wrong forms

ASSUME NetConnectAssumption ==
    /\ Empty \notin Network
    /\ MaxRequests \in Nat
    /\ MaxFaults \in Nat

VARIABLES
    saved,          \* Preferences "wifi": survives a restart
    pc,             \* where the program is
    isConnected, apMode, manualOverride,
    led,
    routes,         \* the server's handler of each registered URI
    form,           \* the arguments of the /save being handled
    sta,            \* what the driver was last told by WiFi.begin
    link,           \* WiFi.status() == WL_CONNECTED
    up,             \* the network that is on the air, or Empty
    page,           \* what the browser shows: "none", "setup" or "control"
    inbox,          \* requests on their way
    held,           \* does the user hold the LED button down?
    strayed,        \* has its release gone astray, and nothing made up for it?
    faults

flags == <<isConnected, apMode, manualOverride, led>>
button == <<held, strayed>>
world == <<up, faults, button>>
vars == <<saved, pc, flags, routes, form, sta, link, page, inbox, world>>

Text == Network \cup {Empty}
Credentials == [ssid : Text, password : Text]
NoCredentials == [ssid |-> Empty, password |-> Empty]

Uri == {"/", "/led/on", "/led/off", "/reset", "/save"}
Request == [uri : Uri, form : Credentials]
Get(uri) == [uri |-> uri, form |-> NoCredentials]
Post(creds) == [uri |-> "/save", form |-> creds]

\* server.on: the handler registered first keeps the URI.
AfterOn(added) ==
    [u \in DOMAIN routes \cup DOMAIN added |->
        IF u \in DOMAIN routes THEN routes[u] ELSE added[u]]

SetupRoutes == [u \in {"/", "/save"} |-> IF u = "/" THEN "setup" ELSE "handleSave"]

\* Mutant: a URI misspelt
ControlRoutesMisspelt ==
    [u \in {"/", "/led/on", "/led/of", "/reset"} |->
        CASE u = "/" -> "control"
          [] u = "/led/on" -> "handleLEDOn"
          [] u = "/led/of" -> "handleLEDOff"
          [] u = "/reset" -> "handleReset"]

ControlRoutes == [u \in Uri \ {"/save"} |->
    CASE u = "/" -> "control"
      [] u = "/led/on" -> "handleLEDOn"
      [] u = "/led/off" -> "handleLEDOff"
      [] u = "/reset" -> "handleReset"]

Handler(uri) == IF uri \in DOMAIN routes THEN routes[uri] ELSE "notFound"

\* The requests of the LED button that are on their way.
LedUri == {"/led/on", "/led/off"}
LedPending == {k \in DOMAIN inbox : inbox[k].uri \in LedUri}

Without(q, i) == SubSeq(q, 1, i - 1) \o SubSeq(q, i + 1, Len(q))

Looping == pc \in {"check", "client"}

-----------------------------------------------------------------------------
(* Power on, and begin().                                                  *)

Init ==
    /\ saved = NoCredentials
    /\ pc = "begin"
    /\ isConnected = FALSE
    /\ apMode = FALSE
    /\ manualOverride = FALSE
    /\ led = "LOW"
    /\ routes = <<>>
    /\ form = NoCredentials
    /\ sta = NoCredentials
    /\ link = FALSE
    /\ up \in Text
    /\ page = "none"
    /\ inbox = <<>>
    /\ held = FALSE
    /\ strayed = FALSE
    /\ faults = 0

\* What memory and connections hold is lost; flash memory is not.
Reboot ==
    /\ pc' = "begin"
    /\ isConnected' = FALSE
    /\ apMode' = FALSE
    /\ manualOverride' = FALSE
    /\ led' = "LOW"
    /\ routes' = <<>>
    /\ form' = NoCredentials
    /\ sta' = NoCredentials
    /\ link' = FALSE
    /\ inbox' = <<>>
    /\ strayed' = FALSE
    /\ UNCHANGED <<saved, page, up, held>>

Begin ==
    /\ pc = "begin"
    /\ IF saved.ssid = Empty
       THEN pc' = "accessPoint" /\ UNCHANGED sta
       ELSE pc' = "joining" /\ sta' = saved
    /\ UNCHANGED <<saved, flags, routes, form, link, page, inbox, world>>

\* Mutant: connectToWiFi without a time limit
TimedOutNever == pc = "joining" /\ ~link /\ UNCHANGED vars

\* 10 seconds without a connection.
TimedOut ==
    /\ pc = "joining"
    /\ ~link
    /\ pc' = "accessPoint"
    /\ UNCHANGED <<saved, flags, routes, form, sta, link, page, inbox, world>>

Joined ==
    /\ pc = "joining"
    /\ link
    /\ isConnected' = TRUE
    /\ routes' = AfterOn(ControlRoutes)
    /\ pc' = "check"
    /\ UNCHANGED <<saved, apMode, manualOverride, led, form, sta, link, page, inbox, world>>

StartAccessPoint ==
    /\ apMode' = TRUE
    /\ routes' = AfterOn(SetupRoutes)

BeginAccessPoint ==
    /\ pc = "accessPoint"
    /\ StartAccessPoint
    /\ pc' = "check"
    /\ UNCHANGED <<saved, isConnected, manualOverride, led, form, sta, link, page, inbox, world>>

-----------------------------------------------------------------------------
(* loop().                                                                 *)

SeeLink ==
    /\ pc = "check"
    /\ link
    /\ isConnected' = TRUE
    /\ led' = IF manualOverride THEN led ELSE "HIGH"
    /\ pc' = "client"
    /\ UNCHANGED <<saved, apMode, manualOverride, routes, form, sta, link, page, inbox, world>>

\* Mutant: no access point when the network is lost later
SeeNoLinkOnly ==
    /\ pc = "check"
    /\ ~link
    /\ isConnected' = FALSE
    /\ manualOverride' = FALSE
    /\ led' \in {"LOW", "HIGH"}
    /\ pc' = "client"
    /\ UNCHANGED <<saved, apMode, routes, form, sta, link, page, inbox, world>>

\* Mutant: the override outlives the network
SeeNoLinkOverridden ==
    /\ pc = "check"
    /\ ~link
    /\ isConnected' = FALSE
    /\ led' \in {"LOW", "HIGH"}
    /\ IF apMode THEN UNCHANGED <<apMode, routes>> ELSE StartAccessPoint
    /\ pc' = "client"
    /\ strayed' = (strayed /\ LedPending # {})
    /\ UNCHANGED <<saved, manualOverride, form, sta, link, page, inbox, up, faults, held>>

\* The LED blinks: it may or may not be time to toggle it.
SeeNoLink ==
    /\ pc = "check"
    /\ ~link
    /\ isConnected' = FALSE
    /\ manualOverride' = FALSE
    /\ led' \in {"LOW", "HIGH"}
    /\ IF apMode THEN UNCHANGED <<apMode, routes>> ELSE StartAccessPoint
    /\ pc' = "client"
    /\ strayed' = (strayed /\ LedPending # {})
    /\ UNCHANGED <<saved, form, sta, link, page, inbox, up, faults, held>>

\* handleClient finds no request.
NoClient ==
    /\ pc = "client"
    /\ pc' = "check"
    /\ UNCHANGED <<saved, flags, routes, form, sta, link, page, inbox, world>>

\* handleClient takes the next request, which this handler answers.
Takes(handler) ==
    /\ pc = "client"
    /\ inbox # <<>>
    /\ Handler(Head(inbox).uri) = handler
    /\ inbox' = Tail(inbox)

\* The page arrives in the browser.
ServeHome ==
    /\ \E home \in {"setup", "control"} : Takes(home) /\ page' = home
    /\ pc' = "check"
    /\ UNCHANGED <<saved, flags, routes, form, sta, link, world>>

HandleLEDOn ==
    /\ Takes("handleLEDOn")
    /\ manualOverride' = FALSE
    /\ led' = "HIGH"
    /\ pc' = "check"
    /\ UNCHANGED <<saved, isConnected, apMode, routes, form, sta, link, page, world>>

HandleLEDOff ==
    /\ Takes("handleLEDOff")
    /\ manualOverride' = TRUE
    /\ led' = "LOW"
    /\ pc' = "check"
    /\ UNCHANGED <<saved, isConnected, apMode, routes, form, sta, link, page, world>>

\* Mutant: the restart is forgotten
HandleResetStays ==
    /\ Takes("handleReset")
    /\ saved' = NoCredentials
    /\ pc' = "check"
    /\ UNCHANGED <<flags, routes, form, sta, link, page, world>>

HandleReset ==
    /\ Takes("handleReset")
    /\ saved' = NoCredentials
    /\ pc' = "restart"
    /\ UNCHANGED <<flags, routes, form, sta, link, page, world>>

\* A form with an empty field changes nothing; else the ssid is written first.
HandleSave ==
    /\ Takes("handleSave")
    /\ IF Empty \in {Head(inbox).form.ssid, Head(inbox).form.password}
       THEN pc' = "check" /\ UNCHANGED <<saved, form>>
       ELSE /\ saved' = [saved EXCEPT !.ssid = Head(inbox).form.ssid]
            /\ form' = Head(inbox).form
            /\ pc' = "savePassword"
    /\ UNCHANGED <<flags, routes, sta, link, page, world>>

SavePassword ==
    /\ pc = "savePassword"
    /\ saved' = [saved EXCEPT !.password = form.password]
    /\ pc' = "restart"
    /\ UNCHANGED <<flags, routes, form, sta, link, page, inbox, world>>

\* 404.
NotFound ==
    /\ Takes("notFound")
    /\ pc' = "check"
    /\ UNCHANGED <<saved, flags, routes, form, sta, link, page, world>>

\* ESP.restart
Restart == pc = "restart" /\ Reboot /\ UNCHANGED faults

HandleClient ==
    \/ ServeHome
    \/ HandleLEDOn
    \/ HandleLEDOff
    \/ HandleReset
    \/ HandleSave
    \/ NotFound

-----------------------------------------------------------------------------
(* The networks, the driver and the power supply.                          *)

Fault == faults < MaxFaults /\ faults' = faults + 1

ChangeNetwork ==
    /\ up' \in Text \ {up}
    /\ UNCHANGED <<saved, pc, flags, routes, form, sta, link, page, inbox, faults, button>>

\* The driver keeps trying after connectToWiFi has given up.
LinkUp ==
    /\ ~link
    /\ sta.ssid # Empty
    /\ sta.ssid = up
    /\ sta.password = up
    /\ link' = TRUE
    /\ UNCHANGED <<saved, pc, flags, routes, form, sta, page, inbox, world>>

LinkDown ==
    /\ link
    /\ sta.ssid # up
    /\ link' = FALSE
    /\ UNCHANGED <<saved, pc, flags, routes, form, sta, page, inbox, world>>

PowerLoss == Fault /\ Reboot

LoseRequest ==
    /\ Fault
    /\ \E i \in 1..Len(inbox) :
           /\ inbox' = Without(inbox, i)
           /\ strayed' = (strayed \/ inbox[i].uri = "/led/on")
    /\ UNCHANGED <<saved, pc, flags, routes, form, sta, link, page, up, held>>

\* Each request has a connection of its own: a later one may arrive first.
DelayRequest ==
    /\ Fault
    /\ \E i \in 1..Len(inbox) - 1 :
           /\ inbox' = [inbox EXCEPT ![i] = inbox[i + 1], ![i + 1] = inbox[i]]
           /\ strayed' = (strayed \/ (inbox[i].uri = "/led/off" /\ inbox[i + 1].uri = "/led/on"))
    /\ UNCHANGED <<saved, pc, flags, routes, form, sta, link, page, up, held>>

-----------------------------------------------------------------------------
(* The user.                                                               *)

\* The browser reaches a server that has begun, by one network or the other.
Send(r) ==
    /\ routes # <<>>
    /\ apMode \/ link
    /\ Len(inbox) < MaxRequests
    /\ inbox' = Append(inbox, r)
    /\ UNCHANGED <<saved, pc, flags, routes, form, sta, link, up>>

Open == Send(Get("/")) /\ UNCHANGED <<page, faults, button>>

\* onmousedown or ontouchstart of the LED button
Press ==
    /\ page = "control" /\ ~held
    /\ Send(Get("/led/off"))
    /\ held' = TRUE
    /\ UNCHANGED <<page, faults, strayed>>

\* onmouseup or ontouchend
Release ==
    /\ page = "control" /\ held
    /\ Send(Get("/led/on"))
    /\ held' = FALSE
    /\ strayed' = FALSE
    /\ UNCHANGED <<page, faults>>

\* The mouse has left the button or the page has gone, so nothing is sent; or
\* the device is out of reach.
LetGo ==
    /\ held
    /\ held' = FALSE
    /\ strayed' = TRUE
    /\ UNCHANGED <<saved, pc, flags, routes, form, sta, link, page, inbox, up, faults>>

ResetCredentials ==
    /\ page = "control"
    /\ Send(Get("/reset"))
    /\ page' = "none"
    /\ UNCHANGED <<faults, button>>

SubmitRight ==
    /\ page = "setup"
    /\ up # Empty
    /\ Send(Post([ssid |-> up, password |-> up]))
    /\ page' = "none"
    /\ UNCHANGED <<faults, button>>

SubmitWrong ==
    /\ page = "setup"
    /\ Fault
    /\ \E creds \in Credentials : creds.ssid # creds.password /\ Send(Post(creds))
    /\ page' = "none"
    /\ UNCHANGED button

-----------------------------------------------------------------------------
Device ==
    \/ Begin
    \/ TimedOut
    \/ Joined
    \/ BeginAccessPoint
    \/ SeeLink
    \/ SeeNoLink
    \/ NoClient
    \/ HandleClient
    \/ SavePassword
    \/ Restart

Surroundings ==
    \/ ChangeNetwork
    \/ LinkUp
    \/ LinkDown
    \/ PowerLoss
    \/ LoseRequest
    \/ DelayRequest

User ==
    \/ Open
    \/ Press
    \/ Release
    \/ LetGo
    \/ ResetCredentials
    \/ SubmitRight
    \/ SubmitWrong

Next == Device \/ Surroundings \/ User

Spec == Init /\ [][Next]_vars

\* The processor runs; the next request is not passed over for ever; the
\* driver joins a network that it can join, and not always too late for begin.
DeviceFairness ==
    /\ WF_vars(Device)
    /\ SF_vars(HandleClient)
    /\ WF_vars(LinkUp)
    /\ SF_vars(pc = "joining" /\ LinkUp)
    /\ WF_vars(LinkDown)

\* A user who wants the device on the network that is up.
PersistentUser ==
    /\ SF_vars(~isConnected /\ Open)
    /\ SF_vars(~isConnected /\ ResetCredentials)
    /\ SF_vars(~isConnected /\ SubmitRight)

FairSpec == Spec /\ DeviceFairness /\ PersistentUser

-----------------------------------------------------------------------------
(* Properties.                                                             *)

TypeOK ==
    /\ saved \in Credentials
    /\ pc \in {"begin", "joining", "accessPoint", "check", "client", "savePassword", "restart"}
    /\ isConnected \in BOOLEAN /\ apMode \in BOOLEAN
    /\ manualOverride \in BOOLEAN /\ link \in BOOLEAN
    /\ led \in {"LOW", "HIGH"}
    /\ DOMAIN routes \subseteq Uri
    /\ form \in Credentials
    /\ sta \in Credentials
    /\ up \in Text
    /\ page \in {"none", "setup", "control"}
    /\ inbox \in Seq(Request)
    /\ held \in BOOLEAN /\ strayed \in BOOLEAN
    /\ faults \in 0..MaxFaults

\* A device in its loop that knows it has no network offers an access point
\* whose home page leads out: the setup page with /save, or the control page
\* with /reset.
WayBack ==
    pc = "client" /\ ~isConnected =>
        /\ apMode
        /\ \/ Handler("/") = "setup" /\ Handler("/save") = "handleSave"
           \/ Handler("/") = "control" /\ Handler("/reset") = "handleReset"

\* The driver is only ever told what flash memory still says, but for the
\* moment between a save or a reset and its restart: no device goes on with
\* credentials that it has been told to forget.
RunsOnSaved ==
    pc \notin {"savePassword", "restart"} => sta \in {saved, NoCredentials}

\* "Status LED turns off while button is held" (NetConnect.cpp:70): a connected
\* device that has heard all the button had to say is dark only if it is held,
\* or if its release went astray: given up, lost, or arrived before the press.
\* That leaves the LED dark only until the next press and release, a restart,
\* or a loss of the network (NetConnect.cpp:138), and no other order of
\* presses, restarts, losses of the network and late joins does.
DarkOnlyWhileHeld ==
    pc = "client" /\ isConnected /\ led = "LOW" /\ LedPending = {} => held \/ strayed

\* Whatever flash memory holds after a power loss, the device gets to serve.
AlwaysServes == pc = "begin" ~> pc = "client"

\* With one network there to stay, a user who keeps at it gets the device
\* onto it, again and again, whichever page the device serves first.
Provisioned == \A n \in Network : <>[](up = n) => []<>isConnected

\* In access point mode the home page is the setup page.
SetupPageInApMode == Looping /\ apMode => Handler("/") = "setup"
=============================================================================
