------------------------------- MODULE MiniHub --------------------------------
(***************************************************************************)
(* The hub of the DeviceInclusion example: the sketch, its portal and the  *)
(* admin page.  loop() and the callbacks of the web server run in two      *)
(* tasks and share appState, inclusionModeActive and the hub's inclusion   *)
(* controller without a lock.  A step of a task reads or writes one of     *)
(* them; where a condition or a transition takes two accesses in one step, *)
(* its comment says why nothing can come between them.  Of the controller  *)
(* there is what the hub side does to mode and protocol state (Inclusion   *)
(* has the rest).                                                          *)
(***************************************************************************)
EXTENDS Naturals, Sequences

CONSTANTS
  Pages,    \* browser tabs with the admin page
  MaxQueue  \* messages the web socket keeps for a client

VARIABLES
  appState, inclusionModeActive,  \* of the sketch
  enabled, protocolState,         \* of the controller
  expired,                        \* the last transition is older than the timeout
  due,                            \* the last status is older than its interval
  pc,                             \* what either task does next
  status,                         \* per task: the mode it read, to be sent
  connected, view,                \* per page: its socket is open; what it shows
  inbox,                          \* per page: states on their way to it
  command,                        \* per page: what it sent, or "none"
  raced                           \* history: a start met a change by loop()

app == <<appState, inclusionModeActive>>
controller == <<enabled, protocolState, expired>>
browser == <<connected, view, inbox, command>>
vars == <<app, controller, due, pc, status, browser, raced>>

ASSUME MiniHubAssumption == MaxQueue \in Nat \ {0}

AppState == {"INITIALIZING", "READY", "INCLUSION_MODE_ACTIVE", "ERROR"}
ProtocolState == {"PROTOCOL_IDLE", "WAITING_FOR_REQUEST", "WAITING_FOR_CONFIRMATION"}
StopSteps == {"disable", "reset", "deactivate", "ready"}
StartSteps ==
  {"enable", "open", "request", "restart", "activate", "active", "abandon", "undo", "error"}
StatusSteps == {"report", "send", "post"}
LoopStep ==
  StopSteps \cup StatusSteps \cup
    {"setup", "none", "run", "timeout", "end", "receive", "answer", "confirm", "stop",
     "check", "look", "back", "clear", "status"}
WebStep == StopSteps \cup StartSteps \cup StatusSteps \cup {"off", "idle", "stop", "reply"}

Goto(t, label) == pc' = [pc EXCEPT ![t] = label]

(* A task is about to change the session, or what the sketch has of the    *)
(* mode.  (A timeout that is about to turn the mode off does no harm yet.) *)
LoopChanges(at) == at["loop"] \in StopSteps \cup {"end", "confirm", "back", "clear"}
WebStarts(at) == at["web"] \in StartSteps
WebChanges(at) == WebStarts(at) \/ at["web"] \in StopSteps

(* History: the page started the mode while loop() was changing it.        *)
Meeting == raced' = (raced \/ (LoopChanges(pc') /\ WebStarts(pc')))

-----------------------------------------------------------------------------
(* The controller.                                                         *)

(* The timer restarts when the state changes.  Only loop() reads it, and   *)
(* only during a session, so that the restart counts as part of the        *)
(* transition except where the web task opens a session.                   *)
TransitionToState(state) ==
  /\ protocolState' = state
  /\ expired' = (expired /\ state = protocolState)

(* Two writes, with a message to the log between them.                     *)
ExitInclusionMode(t, here, between, next) ==
  /\ \/ /\ pc[t] = here /\ Goto(t, between)
        /\ enabled' = FALSE /\ UNCHANGED <<protocolState, expired>>
     \/ /\ pc[t] = between /\ Goto(t, next)
        /\ TransitionToState("PROTOCOL_IDLE") /\ UNCHANGED enabled
  /\ UNCHANGED <<app, due, status, browser>>

(* The portal: a message goes to every socket; a full queue drops it.      *)
SendToClientsUnbounded(mode) ==
  inbox' = [p \in Pages |-> IF connected[p] THEN Append(inbox[p], mode) ELSE inbox[p]]

SendToClients(mode) ==
  inbox' = [p \in Pages |-> IF connected[p] /\ Len(inbox[p]) < MaxQueue
                              THEN Append(inbox[p], mode) ELSE inbox[p]]

(* The mode is read, and what was read is sent.                            *)
HandleGetStatus(t, here, between, next) ==
  \/ /\ pc[t] = here /\ Goto(t, between)
     /\ status' = [status EXCEPT ![t] = enabled]
     /\ UNCHANGED <<app, controller, browser>>
  \/ /\ pc[t] = between /\ Goto(t, next)
     /\ SendToClients(status[t])
     /\ status' = [status EXCEPT ![t] = FALSE]
     /\ UNCHANGED <<app, controller, connected, view, command>>

-----------------------------------------------------------------------------
Init ==
  /\ appState = "INITIALIZING" /\ inclusionModeActive = FALSE
  /\ enabled = FALSE /\ protocolState = "PROTOCOL_IDLE" /\ expired = FALSE
  /\ due = FALSE
  /\ pc = [loop |-> "setup", web |-> "off"]
  /\ status = [t \in {"loop", "web"} |-> FALSE]
  /\ connected = [p \in Pages |-> FALSE] /\ view = [p \in Pages |-> FALSE]
  /\ inbox = [p \in Pages |-> <<>>] /\ command = [p \in Pages |-> "none"]
  /\ raced = FALSE

(* setup(): without a device loop() returns at once; when something else   *)
(* fails, it runs without a portal.                                        *)
Setup ==
  /\ pc["loop"] = "setup"
  /\ \/ appState' = "READY" /\ pc' = [loop |-> "run", web |-> "idle"]
     \/ appState' = "ERROR" /\ \E next \in {"none", "run"} : Goto("loop", next)
  /\ UNCHANGED <<inclusionModeActive, controller, due, status, browser>>

(* stopInclusionMode, from the callback or the page.                       *)
Stop(t, return) ==
  \/ /\ pc[t] = "stop"
     /\ Goto(t, IF inclusionModeActive THEN "disable" ELSE return)
     /\ UNCHANGED <<app, controller, due, status, browser>>
  \/ ExitInclusionMode(t, "disable", "reset", "deactivate")
  \/ /\ pc[t] = "deactivate" /\ Goto(t, "ready")
     /\ inclusionModeActive' = FALSE
     /\ UNCHANGED <<appState, controller, due, status, browser>>
  \/ /\ pc[t] = "ready" /\ Goto(t, "report")
     /\ appState' = "READY"
     /\ UNCHANGED <<inclusionModeActive, controller, due, status, browser>>
  \/ HandleGetStatus(t, "report", "send", return) /\ UNCHANGED due

-----------------------------------------------------------------------------
(* loop().                                                                 *)

(* Variant: a timeout ends the session only.                               *)
HandleStateTimeoutProtocol ==
  /\ \/ pc["loop"] = "timeout" /\ Goto("loop", "end") /\ UNCHANGED controller
     \/ /\ pc["loop"] = "end" /\ Goto("loop", "receive")
        /\ TransitionToState("PROTOCOL_IDLE") /\ UNCHANGED enabled
  /\ UNCHANGED <<app, due, status, browser>>

HandleStateTimeout == ExitInclusionMode("loop", "timeout", "end", "receive")

(* checkProtocolTimeouts: the state, then the timer.  Either the timer was *)
(* old when the state was read, or time passed since.                      *)
LoopRun ==
  /\ pc["loop"] = "run"
  /\ Goto("loop", IF protocolState # "PROTOCOL_IDLE" /\ expired THEN "timeout" ELSE "receive")
  /\ UNCHANGED <<app, controller, due, status, browser>>

(* A request that is accepted is answered; the callback then only counts.  *)
(* The callback stops the mode after any confirmation, also one that was   *)
(* refused for its nonce or its time.  The mode is read before the state:  *)
(* if it is left between the two, the state is what it was before.         *)
LoopReceive ==
  /\ pc["loop"] = "receive"
  /\ \/ Goto("loop", "check")
     \/ enabled /\ protocolState = "WAITING_FOR_REQUEST" /\ Goto("loop", "answer")
     \/ protocolState = "WAITING_FOR_CONFIRMATION" /\ Goto("loop", "confirm")
     \/ Goto("loop", "stop")
  /\ UNCHANGED <<app, controller, due, status, browser>>

LoopAnswer ==
  /\ pc["loop"] = "answer" /\ Goto("loop", "check")
  /\ TransitionToState("WAITING_FOR_CONFIRMATION")
  /\ UNCHANGED <<enabled, app, due, status, browser>>

LoopConfirm ==
  /\ pc["loop"] = "confirm" /\ Goto("loop", "stop")
  /\ TransitionToState("PROTOCOL_IDLE")
  /\ UNCHANGED <<enabled, app, due, status, browser>>

(* Variant: it is the flag that tells whether the mode was active.         *)
LoopCheckFlag ==
  /\ pc["loop"] = "check"
  /\ Goto("loop", IF inclusionModeActive THEN "look" ELSE "status")
  /\ UNCHANGED <<app, controller, due, status, browser>>

(* The mode was left by a timeout, or by the web task.                     *)
LoopCheck ==
  /\ pc["loop"] = "check"
  /\ Goto("loop", IF appState = "INCLUSION_MODE_ACTIVE" THEN "look" ELSE "status")
  /\ UNCHANGED <<app, controller, due, status, browser>>

LoopLook ==
  /\ pc["loop"] = "look" /\ Goto("loop", IF enabled THEN "status" ELSE "back")
  /\ UNCHANGED <<app, controller, due, status, browser>>

LoopBack ==
  /\ pc["loop"] = "back" /\ Goto("loop", "clear")
  /\ appState' = "READY"
  /\ UNCHANGED <<inclusionModeActive, controller, due, status, browser>>

(* Variant: the flag is left to stopInclusionMode.                         *)
LoopClearNot ==
  /\ pc["loop"] = "clear" /\ Goto("loop", "status")
  /\ UNCHANGED <<app, controller, due, status, browser>>

LoopClear ==
  /\ pc["loop"] = "clear" /\ Goto("loop", "status")
  /\ inclusionModeActive' = FALSE
  /\ UNCHANGED <<appState, controller, due, status, browser>>

(* Variant: pages hear of the mode only while it is on.                    *)
StatusIsDueActive == due /\ inclusionModeActive

StatusIsDue == due

(* Only loop() uses the time of the last status.                           *)
LoopStatus ==
  \/ /\ pc["loop"] = "status" /\ ~StatusIsDue /\ Goto("loop", "run")
     /\ UNCHANGED <<app, controller, due, status, browser>>
  \/ /\ pc["loop"] = "status" => StatusIsDue
     /\ HandleGetStatus("loop", "status", "post", "run")
     /\ due' = (pc["loop"] = "status")

Loop ==
  /\ \/ Setup \/ LoopRun \/ HandleStateTimeout \/ LoopReceive \/ LoopAnswer \/ LoopConfirm
     \/ Stop("loop", "check") \/ LoopCheck \/ LoopLook \/ LoopBack \/ LoopClear \/ LoopStatus
  /\ Meeting

-----------------------------------------------------------------------------
(* The web task.                                                           *)

(* handleSetInclusionMode, up to the state test of startInclusionMode.     *)
TakeCommand(p) ==
  /\ pc["web"] = "idle" /\ command[p] # "none"
  /\ command' = [command EXCEPT ![p] = "none"]
  /\ Goto("web", CASE command[p] = "disable"                        -> "stop"
                   [] command[p] = "enable" /\ appState = "READY"  -> "enable"
                   [] OTHER                                        -> "reply")
  /\ UNCHANGED <<app, controller, due, status, connected, view, inbox>>

StartEnable ==
  /\ pc["web"] = "enable" /\ Goto("web", "open")
  /\ enabled' = TRUE
  /\ UNCHANGED <<protocolState, expired, app, due, status, browser>>

(* sendInclusionOpen may find the mode disabled again, or fail to send.    *)
(* In WAITING_FOR_REQUEST it makes no transition and restarts no timer.    *)
Sent == \E next \in {"activate", "abandon"} : Goto("web", next)

StartOpen ==
  /\ \/ /\ pc["web"] = "open" /\ Goto("web", IF enabled THEN "request" ELSE "abandon")
        /\ UNCHANGED <<protocolState, expired>>
     \/ /\ pc["web"] = "request"
        /\ protocolState' = "WAITING_FOR_REQUEST" /\ UNCHANGED expired
        /\ IF protocolState = "WAITING_FOR_REQUEST" THEN Sent ELSE Goto("web", "restart")
     \/ /\ pc["web"] = "restart" /\ Sent
        /\ expired' = FALSE /\ UNCHANGED protocolState
  /\ UNCHANGED <<enabled, app, due, status, browser>>

StartFails ==
  \/ ExitInclusionMode("web", "abandon", "undo", "error")
  \/ /\ pc["web"] = "error" /\ Goto("web", "reply")
     /\ appState' = "ERROR"
     /\ UNCHANGED <<inclusionModeActive, controller, due, status, browser>>

StartActivate ==
  /\ pc["web"] = "activate" /\ Goto("web", "active")
  /\ inclusionModeActive' = TRUE
  /\ UNCHANGED <<appState, controller, due, status, browser>>

StartActive ==
  /\ pc["web"] = "active" /\ Goto("web", "report")
  /\ appState' = "INCLUSION_MODE_ACTIVE"
  /\ UNCHANGED <<inclusionModeActive, controller, due, status, browser>>

Start == StartEnable \/ StartOpen \/ StartFails \/ StartActivate \/ StartActive

Reply == HandleGetStatus("web", "reply", "post", "idle") /\ UNCHANGED due

Web ==
  /\ (\E p \in Pages : TakeCommand(p)) \/ Start \/ Stop("web", "reply") \/ Reply
  /\ Meeting

-----------------------------------------------------------------------------
(* The page.                                                               *)

(* The status a page asks for when its socket opens has no data string and *)
(* is not answered.                                                        *)
Load(p) ==
  /\ pc["web"] # "off" /\ ~connected[p]
  /\ connected' = [connected EXCEPT ![p] = TRUE]
  /\ UNCHANGED <<view, inbox, command>>

(* A panel that lost its socket shows no mode, and gets no new socket: the *)
(* name it retries by is the one of the portal's own script by then.       *)
Close(p) ==
  /\ connected[p]
  /\ connected' = [connected EXCEPT ![p] = FALSE]
  /\ view' = [view EXCEPT ![p] = FALSE]
  /\ inbox' = [inbox EXCEPT ![p] = <<>>]
  /\ \E left \in {"none", command[p]} : command' = [command EXCEPT ![p] = left]

(* toggleInclusionMode asks for the opposite of what is shown.             *)
Click(p) ==
  /\ connected[p] /\ command[p] = "none"
  /\ command' = [command EXCEPT ![p] = IF view[p] THEN "disable" ELSE "enable"]
  /\ UNCHANGED <<connected, view, inbox>>

Show(p) ==
  /\ inbox[p] # <<>>
  /\ view' = [view EXCEPT ![p] = Head(inbox[p])]
  /\ inbox' = [inbox EXCEPT ![p] = Tail(@)]
  /\ UNCHANGED <<app, controller, due, pc, status, raced, connected, command>>

Page(p) ==
  /\ Load(p) \/ Close(p) \/ Click(p)
  /\ UNCHANGED <<app, controller, due, pc, status, raced>>

(* Time.                                                                   *)
SessionExpires ==
  /\ ~expired /\ expired' = TRUE
  /\ UNCHANGED <<app, enabled, protocolState, due, pc, status, browser, raced>>

StatusDue == ~due /\ due' = TRUE /\ UNCHANGED <<app, controller, pc, status, browser, raced>>

Next == Loop \/ Web \/ (\E p \in Pages : Page(p) \/ Show(p)) \/ SessionExpires \/ StatusDue

(* Both tasks get the processor, messages to an open page arrive, and      *)
(* clocks go on.  Nobody has to send a packet or to click.                 *)
Fairness ==
  /\ WF_vars(Loop) /\ WF_vars(Web) /\ WF_vars(SessionExpires) /\ WF_vars(StatusDue)
  /\ \A p \in Pages : WF_vars(Show(p))

Spec == Init /\ [][Next]_vars /\ Fairness

-----------------------------------------------------------------------------
(* Properties.                                                             *)

TypeOK ==
  /\ appState \in AppState /\ inclusionModeActive \in BOOLEAN
  /\ enabled \in BOOLEAN /\ protocolState \in ProtocolState /\ expired \in BOOLEAN
  /\ due \in BOOLEAN
  /\ pc \in [loop : LoopStep, web : WebStep] /\ status \in [{"loop", "web"} -> BOOLEAN]
  /\ connected \in [Pages -> BOOLEAN] /\ view \in [Pages -> BOOLEAN]
  /\ \A p \in Pages : inbox[p] \in Seq(BOOLEAN) /\ Len(inbox[p]) <= MaxQueue
  /\ command \in [Pages -> {"none", "enable", "disable"}]
  /\ raced \in BOOLEAN

(* As long as no start met a change by loop(), sketch and controller agree *)
(* between changes, whatever the two tasks stop at a time: the flag, the   *)
(* application state and, once loop() had a look at it, the controller's   *)
(* mode.                                                                   *)
SketchAgrees ==
  ~raced /\ ~LoopChanges(pc) /\ ~WebChanges(pc) =>
    /\ inclusionModeActive = (appState = "INCLUSION_MODE_ACTIVE")
    /\ enabled => inclusionModeActive

(* Whatever the two tasks did to each other, the sketch does not stay      *)
(* active with a controller that left the mode.                            *)
ActiveIsEnabled == []<>(appState = "INCLUSION_MODE_ACTIVE" => enabled)

(* The mode ends, by a confirmation, a click or the timeout, unless it was *)
(* started while loop() was changing it.  (Then the reset of a timeout may *)
(* end the session just opened, or the flag be gone while the mode is on:  *)
(* no timer runs, and the callback stops nothing.)                         *)
ModeEnds == enabled ~> (~enabled \/ raced)

(* A page that stays open comes to show the mode the controller is in,     *)
(* although a status may be dropped, overtaken or sent by either task.     *)
PagesCatchUp ==
  \A p \in Pages : \A mode \in BOOLEAN :
    <>[](connected[p] /\ enabled = mode) => <>[](view[p] = mode)
===============================================================================
