---------------------------- MODULE MiniHubProofs -----------------------------
(* Theorems about the hub sketch and its two tasks, for any number of pages  *)
(* and any length of their queues.                                           *)
EXTENDS MiniHub, SequenceTheorems, TLAPS

(* Sketch, controller and tasks.                                             *)
HubTypes ==
  /\ appState \in AppState /\ inclusionModeActive \in BOOLEAN
  /\ enabled \in BOOLEAN /\ protocolState \in ProtocolState /\ expired \in BOOLEAN
  /\ due \in BOOLEAN
  /\ pc \in [loop : LoopStep, web : WebStep]
  /\ status \in [{"loop", "web"} -> BOOLEAN]
  /\ raced \in BOOLEAN

PageTypes ==
  /\ connected \in [Pages -> BOOLEAN] /\ view \in [Pages -> BOOLEAN]
  /\ command \in [Pages -> {"none", "enable", "disable"}]

(* Queue is all that is asked of an inbox; the domain makes EXCEPT work.     *)
Queue == {q \in Seq(BOOLEAN) : Len(q) <= MaxQueue}
InboxTypes == inbox \in [Pages -> Queue]

(* What the sketch takes the mode for, apart from the flag.                  *)
Active == appState = "INCLUSION_MODE_ACTIVE"

(* Between starts flag and state go down only, each a step after the other:  *)
(* where they differ, a task is about to take the second one down.           *)
Leaving ==
  /\ enabled => inclusionModeActive /\ Active
  /\ inclusionModeActive /\ ~Active => pc["loop"] = "clear"
  /\ Active /\ ~inclusionModeActive => pc["loop"] = "ready" \/ pc["web"] = "ready"

(* Within a stop by task t.                                                  *)
Stopping(t) ==
  /\ pc[t] \in {"reset", "deactivate", "ready"} => ~enabled
  /\ pc[t] = "ready" => ~inclusionModeActive

(* Within loop() as it finds out that the controller left the mode.          *)
Noticing ==
  /\ pc["loop"] \in {"back", "clear"} => ~enabled
  /\ pc["loop"] = "clear" => ~Active

(* Within a start by the web task.                                           *)
Starting ==
  /\ pc["web"] \in StartSteps => ~Active
  /\ pc["web"] \in StartSteps \ {"active"} => ~inclusionModeActive
  /\ pc["web"] = "active" => inclusionModeActive
  /\ pc["web"] \in {"undo", "error"} => ~enabled

(* The web task begins with loop().                                          *)
SetUp ==
  pc["loop"] = "setup" => pc["web"] = "off" /\ ~inclusionModeActive /\ ~Active /\ ~enabled

(* Unless a start met a change by loop(), where each task is tells how far   *)
(* a change of the mode has come.                                            *)
Ordered ==
  /\ ~(LoopChanges(pc) /\ WebStarts(pc))
  /\ ~WebStarts(pc) => Leaving
  /\ Stopping("loop") /\ Stopping("web") /\ Noticing /\ Starting /\ SetUp

(* The inductive invariant.                                                  *)
IInv ==
  /\ HubTypes /\ PageTypes /\ InboxTypes
  /\ ~raced => Ordered

-----------------------------------------------------------------------------
(* Types.                                                                    *)

LEMMA GotoTypes ==
  ASSUME pc \in [loop : LoopStep, web : WebStep],
         NEW t \in {"loop", "web"}, NEW label, Goto(t, label),
         label \in IF t = "loop" THEN LoopStep ELSE WebStep
  PROVE  pc' \in [loop : LoopStep, web : WebStep]
BY DEF Goto

(* What sketch and controller have, and the task t.                          *)
HubKeeps ==
  /\ appState' \in AppState /\ inclusionModeActive' \in BOOLEAN
  /\ enabled' \in BOOLEAN /\ protocolState' \in ProtocolState /\ expired' \in BOOLEAN
  /\ status' \in [{"loop", "web"} -> BOOLEAN]
  /\ pc' \in [loop : LoopStep, web : WebStep]

LEMMA ExitTypes ==
  ASSUME HubTypes, NEW t \in {"loop", "web"}, NEW here,
         NEW between \in IF t = "loop" THEN LoopStep ELSE WebStep,
         NEW next \in IF t = "loop" THEN LoopStep ELSE WebStep,
         ExitInclusionMode(t, here, between, next)
  PROVE  HubKeeps /\ due' = due
<1>1. pc' \in [loop : LoopStep, web : WebStep]
  BY GotoTypes DEF HubTypes, ExitInclusionMode
<1>. QED
  BY <1>1 DEF HubKeeps, HubTypes, ExitInclusionMode, TransitionToState, app, ProtocolState

LEMMA StatusTypes ==
  ASSUME HubTypes, NEW t \in {"loop", "web"}, NEW here,
         NEW between \in IF t = "loop" THEN LoopStep ELSE WebStep,
         NEW next \in IF t = "loop" THEN LoopStep ELSE WebStep,
         HandleGetStatus(t, here, between, next)
  PROVE  HubKeeps
<1>1. pc' \in [loop : LoopStep, web : WebStep]
  BY GotoTypes DEF HubTypes, HandleGetStatus
<1>. QED
  BY <1>1 DEF HubKeeps, HubTypes, HandleGetStatus, app, controller

LEMMA StopTypes ==
  ASSUME HubTypes, NEW t \in {"loop", "web"},
         NEW return \in IF t = "loop" THEN LoopStep ELSE WebStep, Stop(t, return)
  PROVE  HubKeeps /\ due' = due
<1>1. StopSteps \cup StatusSteps \subseteq IF t = "loop" THEN LoopStep ELSE WebStep
  BY DEF LoopStep, WebStep
<1>2. CASE ExitInclusionMode(t, "disable", "reset", "deactivate")
  BY <1>1, <1>2, ExitTypes DEF StopSteps
<1>3. CASE HandleGetStatus(t, "report", "send", return) /\ UNCHANGED due
  BY <1>1, <1>3, StatusTypes DEF StatusSteps
<1>4. CASE pc[t] \in {"stop", "deactivate", "ready"} /\ UNCHANGED <<controller, due, status>>
  <2>1. pc' \in [loop : LoopStep, web : WebStep]
    BY <1>1, <1>4, GotoTypes DEF HubTypes, Stop, ExitInclusionMode, HandleGetStatus, StopSteps, StatusSteps
  <2>2. appState' \in AppState /\ inclusionModeActive' \in BOOLEAN
    BY <1>4 DEF HubTypes, Stop, ExitInclusionMode, HandleGetStatus, app, AppState
  <2>. QED
    BY <1>4, <2>1, <2>2 DEF HubKeeps, HubTypes, controller
<1>. QED
  BY <1>2, <1>3, <1>4 DEF Stop

LEMMA KeepsTypes == HubTypes /\ HubKeeps /\ due' \in BOOLEAN /\ Meeting => HubTypes'
BY DEF HubTypes, HubKeeps, Meeting

(* loop(), but for the timeout, a stop and a status.                         *)
LEMMA LoopTypes ==
  ASSUME HubTypes,
         \/ Setup \/ LoopRun \/ LoopReceive \/ LoopAnswer \/ LoopConfirm
         \/ LoopCheck \/ LoopLook \/ LoopBack \/ LoopClear
  PROVE  HubKeeps /\ due' = due
<1>. USE DEF Setup, LoopRun, LoopReceive, LoopAnswer, LoopConfirm, LoopCheck, LoopLook, LoopBack, LoopClear
<1>1. pc' \in [loop : LoopStep, web : WebStep]
  BY DEF HubTypes, Goto, LoopStep, WebStep, StatusSteps
<1>. QED
  BY <1>1 DEF HubKeeps, HubTypes, TransitionToState, app, controller, AppState, ProtocolState

LEMMA StartTypes ==
  ASSUME HubTypes, (\E p \in Pages : TakeCommand(p)) \/ Start
  PROVE  HubKeeps /\ due' = due
<1>1. {"stop", "reply", "report"} \cup StartSteps \subseteq WebStep
  BY DEF WebStep, StatusSteps
<1>2. CASE ExitInclusionMode("web", "abandon", "undo", "error")
  BY <1>1, <1>2, ExitTypes DEF StartSteps
<1>3. CASE \E p \in Pages : TakeCommand(p)
  <2>1. pc' \in [loop : LoopStep, web : WebStep]
    BY <1>1, <1>3 DEF HubTypes, TakeCommand, Goto, StartSteps
  <2>. QED
    BY <1>3, <2>1 DEF HubKeeps, HubTypes, TakeCommand, app, controller
<1>4. CASE StartEnable \/ StartOpen \/ StartActivate \/ StartActive
  <2>1. pc' \in [loop : LoopStep, web : WebStep]
    BY <1>1, <1>4 DEF HubTypes, StartEnable, StartOpen, Sent, StartActivate, StartActive, Goto, StartSteps
  <2>. QED
    BY <1>4, <2>1 DEF HubKeeps, HubTypes, StartEnable, StartOpen, StartActivate, StartActive,
                      app, controller, AppState, ProtocolState
<1>5. CASE StartFails /\ pc["web"] = "error" /\ ~ExitInclusionMode("web", "abandon", "undo", "error")
  <2>1. pc' \in [loop : LoopStep, web : WebStep]
    BY <1>1, <1>5 DEF HubTypes, StartFails, Goto
  <2>. QED
    BY <1>5, <2>1 DEF HubKeeps, HubTypes, StartFails, controller, AppState
<1>. QED
  BY <1>2, <1>3, <1>4, <1>5 DEF Start, StartFails

LEMMA HubTypesStep == HubTypes /\ [Next]_vars => HubTypes'
<1>. SUFFICES ASSUME HubTypes, [Next]_vars PROVE HubTypes'
  OBVIOUS
<1>1. due \in BOOLEAN
  BY DEF HubTypes
<1>2. CASE Loop
  <2>1. CASE HandleStateTimeout
    BY <1>1, <1>2, <2>1, ExitTypes, KeepsTypes DEF Loop, HandleStateTimeout, LoopStep
  <2>2. CASE Stop("loop", "check")
    BY <1>1, <1>2, <2>2, StopTypes, KeepsTypes DEF Loop, LoopStep
  <2>3. CASE LoopStatus
    <3>1. CASE HandleGetStatus("loop", "status", "post", "run")
      BY <1>2, <2>3, <3>1, StatusTypes, KeepsTypes DEF Loop, LoopStatus, LoopStep, StatusSteps, HubTypes
    <3>2. CASE Goto("loop", "run") /\ UNCHANGED <<app, controller, due, status>>
      <4>1. pc' \in [loop : LoopStep, web : WebStep]
        BY <3>2, GotoTypes DEF HubTypes, LoopStep
      <4>. QED
        BY <1>1, <1>2, <3>2, <4>1, KeepsTypes DEF Loop, HubKeeps, HubTypes, app, controller
    <3>. QED
      BY <2>3, <3>1, <3>2 DEF LoopStatus
  <2>. QED
    BY <1>1, <1>2, <2>1, <2>2, <2>3, LoopTypes, KeepsTypes DEF Loop
<1>3. CASE Web
  <2>1. CASE Stop("web", "reply")
    BY <1>1, <1>3, <2>1, StopTypes, KeepsTypes DEF Web, WebStep
  <2>2. CASE Reply
    BY <1>1, <1>3, <2>2, StatusTypes, KeepsTypes DEF Web, Reply, WebStep, StatusSteps
  <2>. QED
    BY <1>1, <1>3, <2>1, <2>2, StartTypes, KeepsTypes DEF Web
<1>4. CASE (\E p \in Pages : Page(p) \/ Show(p)) \/ SessionExpires \/ StatusDue \/ UNCHANGED vars
  BY <1>4 DEF Page, Show, SessionExpires, StatusDue, vars, HubTypes, app, controller
<1>. QED
  BY <1>2, <1>3, <1>4 DEF Next

(* A message is taken from a queue, or put into one with room.               *)
LEMMA Queues ==
  /\ <<>> \in Queue
  /\ \A q \in Queue : q # <<>> => Head(q) \in BOOLEAN /\ Tail(q) \in Queue
  /\ \A q \in Queue, b \in BOOLEAN : Len(q) < MaxQueue => Append(q, b) \in Queue
<1>1. \A q \in Seq(BOOLEAN) : Len(q) \in Nat
  OBVIOUS
<1>2. <<>> \in Queue
  BY MiniHubAssumption DEF Queue
<1>3. ASSUME NEW q \in Queue, q # <<>> PROVE Head(q) \in BOOLEAN /\ Tail(q) \in Queue
  <2>1. q \in Seq(BOOLEAN) /\ Len(q) <= MaxQueue
    BY DEF Queue
  <2>2. Head(q) \in BOOLEAN /\ Tail(q) \in Seq(BOOLEAN) /\ Len(Tail(q)) = Len(q) - 1
    BY <1>3, <2>1, HeadTailProperties
  <2>. QED
    BY <1>1, <2>1, <2>2, MiniHubAssumption DEF Queue
<1>4. ASSUME NEW q \in Queue, NEW b \in BOOLEAN, Len(q) < MaxQueue PROVE Append(q, b) \in Queue
  <2>1. q \in Seq(BOOLEAN)
    BY DEF Queue
  <2>2. Append(q, b) \in Seq(BOOLEAN) /\ Len(Append(q, b)) = Len(q) + 1
    BY <2>1, AppendProperties
  <2>. QED
    BY <1>1, <1>4, <2>1, <2>2, MiniHubAssumption DEF Queue
<1>. QED
  BY <1>2, <1>3, <1>4

LEMMA SendingTypes ==
  ASSUME InboxTypes, NEW mode \in BOOLEAN, SendToClients(mode)
  PROVE  InboxTypes'
BY Queues DEF InboxTypes, SendToClients

(* A message only carries a mode that was read.                              *)
LEMMA StatusSends ==
  ASSUME HubTypes, InboxTypes, NEW t \in {"loop", "web"}, NEW here, NEW between, NEW next,
         HandleGetStatus(t, here, between, next)
  PROVE  InboxTypes' /\ UNCHANGED <<connected, view, command>>
<1>1. status[t] \in BOOLEAN
  BY DEF HubTypes
<1>2. CASE inbox' = inbox
  BY <1>2 DEF HandleGetStatus, InboxTypes, browser
<1>3. CASE SendToClients(status[t])
  BY <1>1, <1>3, SendingTypes DEF HandleGetStatus, browser
<1>. QED
  BY <1>2, <1>3 DEF HandleGetStatus, browser

LEMMA StopSends ==
  ASSUME HubTypes, InboxTypes, NEW t \in {"loop", "web"}, NEW return, Stop(t, return)
  PROVE  InboxTypes' /\ UNCHANGED <<connected, view, command>>
<1>1. CASE HandleGetStatus(t, "report", "send", return)
  BY <1>1, StatusSends
<1>2. CASE UNCHANGED browser
  BY <1>2 DEF InboxTypes, browser
<1>. QED
  BY <1>1, <1>2 DEF Stop, ExitInclusionMode

(* The two tasks touch a page by their messages only.                        *)
LEMMA TasksSend ==
  ASSUME HubTypes, InboxTypes, Loop \/ Start \/ Stop("web", "reply") \/ Reply
  PROVE  InboxTypes' /\ UNCHANGED <<connected, view, command>>
<1>1. CASE UNCHANGED browser
  BY <1>1 DEF InboxTypes, browser
<1>2. CASE Stop("loop", "check") \/ Stop("web", "reply")
  BY <1>2, StopSends
<1>3. CASE LoopStatus \/ Reply
  BY <1>1, <1>3, StatusSends DEF LoopStatus, Reply
<1>. QED
  BY <1>1, <1>2, <1>3
     DEF Loop, Setup, LoopRun, HandleStateTimeout, LoopReceive, LoopAnswer, LoopConfirm, LoopCheck,
         LoopLook, LoopBack, LoopClear, Start, StartEnable, StartOpen, StartFails, StartActivate,
         StartActive, ExitInclusionMode

LEMMA InboxTypesStep == HubTypes /\ InboxTypes /\ [Next]_vars => InboxTypes'
<1>. SUFFICES ASSUME HubTypes, InboxTypes, [Next]_vars PROVE InboxTypes'
  OBVIOUS
<1>1. CASE inbox' = inbox
  BY <1>1 DEF InboxTypes
<1>2. CASE Loop \/ Web
  BY <1>1, <1>2, TasksSend DEF Web, TakeCommand
<1>3. ASSUME NEW p \in Pages, Page(p) \/ Show(p) PROVE InboxTypes'
  <2>1. CASE Load(p) \/ Click(p)
    BY <1>1, <2>1 DEF Load, Click
  <2>2. CASE Close(p)
    BY <2>2, Queues DEF InboxTypes, Close
  <2>3. CASE Show(p)
    BY <2>3, Queues DEF InboxTypes, Show
  <2>. QED
    BY <1>3, <2>1, <2>2, <2>3 DEF Page
<1>4. CASE SessionExpires \/ StatusDue \/ UNCHANGED vars
  BY <1>1, <1>4 DEF SessionExpires, StatusDue, vars, browser
<1>. QED
  BY <1>2, <1>3, <1>4 DEF Next

LEMMA PageTypesStep == HubTypes /\ InboxTypes /\ PageTypes /\ [Next]_vars => PageTypes'
<1>. SUFFICES ASSUME HubTypes, InboxTypes, PageTypes, [Next]_vars PROVE PageTypes'
  OBVIOUS
<1>1. CASE UNCHANGED <<connected, view, command>>
  BY <1>1 DEF PageTypes
<1>2. CASE Loop \/ Start \/ Stop("web", "reply") \/ Reply \/ SessionExpires \/ StatusDue \/ UNCHANGED vars
  <2>1. UNCHANGED <<connected, view, command>>
    BY <1>2, TasksSend DEF SessionExpires, StatusDue, vars, browser
  <2>. QED
    BY <1>1, <2>1
<1>3. CASE \E p \in Pages : TakeCommand(p)
  BY <1>3 DEF PageTypes, TakeCommand
<1>4. ASSUME NEW p \in Pages, Page(p) \/ Show(p) PROVE PageTypes'
  <2>1. CASE Load(p) \/ Click(p)
    BY <2>1 DEF PageTypes, Load, Click
  <2>2. CASE Close(p)
    BY <2>2 DEF PageTypes, Close
  <2>3. CASE Show(p)
    <3>1. Head(inbox[p]) \in BOOLEAN
      BY <2>3, Queues DEF InboxTypes, Show
    <3>. QED
      BY <2>3, <3>1 DEF PageTypes, Show
  <2>. QED
    BY <1>4, <2>1, <2>2, <2>3 DEF Page
<1>. QED
  BY <1>2, <1>3, <1>4 DEF Next, Web

-----------------------------------------------------------------------------
(* The order of a change.                                                    *)

(* What the pages do, and the clocks, changes nothing it is about.           *)
LEMMA OrderedUnchanged ==
  Ordered /\ UNCHANGED <<app, enabled, pc>> => Ordered'
BY DEF Ordered, Leaving, Active, Stopping, Noticing, Starting, SetUp, LoopChanges, WebStarts, app

(* What of the two tasks and the sketch the order is about.                  *)
LEMMA PcIs ==
  ASSUME HubTypes, NEW t \in {"loop", "web"}, NEW label, Goto(t, label)
  PROVE  pc'[t] = label /\ \A u \in {"loop", "web"} \ {t} : pc'[u] = pc[u]
BY DEF HubTypes, Goto

(* A step of a stop by either task; both may stop the mode at a time.        *)
LEMMA LoopStops ==
  ASSUME HubTypes, Ordered, Stop("loop", "check"), ~(LoopChanges(pc') /\ WebStarts(pc'))
  PROVE  Ordered'
<1>1. pc'["web"] = pc["web"]
  BY PcIs DEF Stop, ExitInclusionMode, HandleGetStatus
<1>. USE DEF HubTypes, Ordered, Leaving, Active, Stopping, Noticing, Starting, SetUp,
             LoopChanges, WebStarts, StopSteps, StartSteps, app, controller
<1>2. CASE pc["loop"] = "stop"
  <2>1. pc'["loop"] \in {"disable", "check"} /\ UNCHANGED <<app, enabled>>
    BY <1>2, PcIs DEF Stop, ExitInclusionMode, HandleGetStatus
  <2>. QED
    BY <1>1, <1>2, <2>1
<1>3. CASE pc["loop"] = "disable"
  <2>1. pc'["loop"] = "reset" /\ ~enabled' /\ UNCHANGED app
    BY <1>3, PcIs DEF Stop, ExitInclusionMode, HandleGetStatus
  <2>. QED
    BY <1>1, <1>3, <2>1
<1>4. CASE pc["loop"] = "reset"
  <2>1. pc'["loop"] = "deactivate" /\ UNCHANGED <<app, enabled>>
    BY <1>4, PcIs DEF Stop, ExitInclusionMode, HandleGetStatus
  <2>. QED
    BY <1>1, <1>4, <2>1
<1>5. CASE pc["loop"] = "deactivate"
  <2>1. pc'["loop"] = "ready" /\ ~inclusionModeActive' /\ UNCHANGED <<appState, enabled>>
    BY <1>5, PcIs DEF Stop, ExitInclusionMode, HandleGetStatus
  <2>. QED
    BY <1>1, <1>5, <2>1
<1>6. CASE pc["loop"] = "ready"
  <2>1. pc'["loop"] = "report" /\ appState' = "READY" /\ UNCHANGED <<inclusionModeActive, enabled>>
    BY <1>6, PcIs DEF Stop, ExitInclusionMode, HandleGetStatus
  <2>. QED
    BY <1>1, <1>6, <2>1
<1>7. CASE pc["loop"] \in {"report", "send"}
  <2>1. pc'["loop"] \in {"send", "check"} /\ UNCHANGED <<app, enabled>>
    BY <1>7, PcIs DEF Stop, ExitInclusionMode, HandleGetStatus
  <2>. QED
    BY <1>1, <1>7, <2>1
<1>. QED
  BY <1>2, <1>3, <1>4, <1>5, <1>6, <1>7 DEF Stop, ExitInclusionMode, HandleGetStatus

LEMMA WebStops ==
  ASSUME HubTypes, Ordered, Stop("web", "reply"), ~(LoopChanges(pc') /\ WebStarts(pc'))
  PROVE  Ordered'
<1>1. pc'["loop"] = pc["loop"]
  BY PcIs DEF Stop, ExitInclusionMode, HandleGetStatus
<1>. USE DEF HubTypes, Ordered, Leaving, Active, Stopping, Noticing, Starting, SetUp,
             LoopChanges, WebStarts, StopSteps, StartSteps, app, controller
<1>2. CASE pc["web"] = "stop"
  <2>1. pc'["web"] \in {"disable", "reply"} /\ UNCHANGED <<app, enabled>>
    BY <1>2, PcIs DEF Stop, ExitInclusionMode, HandleGetStatus
  <2>. QED
    BY <1>1, <1>2, <2>1
<1>3. CASE pc["web"] = "disable"
  <2>1. pc'["web"] = "reset" /\ ~enabled' /\ UNCHANGED app
    BY <1>3, PcIs DEF Stop, ExitInclusionMode, HandleGetStatus
  <2>. QED
    BY <1>1, <1>3, <2>1
<1>4. CASE pc["web"] = "reset"
  <2>1. pc'["web"] = "deactivate" /\ UNCHANGED <<app, enabled>>
    BY <1>4, PcIs DEF Stop, ExitInclusionMode, HandleGetStatus
  <2>. QED
    BY <1>1, <1>4, <2>1
<1>5. CASE pc["web"] = "deactivate"
  <2>1. pc'["web"] = "ready" /\ ~inclusionModeActive' /\ UNCHANGED <<appState, enabled>>
    BY <1>5, PcIs DEF Stop, ExitInclusionMode, HandleGetStatus
  <2>. QED
    BY <1>1, <1>5, <2>1
<1>6. CASE pc["web"] = "ready"
  <2>1. pc'["web"] = "report" /\ appState' = "READY" /\ UNCHANGED <<inclusionModeActive, enabled>>
    BY <1>6, PcIs DEF Stop, ExitInclusionMode, HandleGetStatus
  <2>. QED
    BY <1>1, <1>6, <2>1
<1>7. CASE pc["web"] \in {"report", "send"}
  <2>1. pc'["web"] \in {"send", "reply"} /\ UNCHANGED <<app, enabled>>
    BY <1>7, PcIs DEF Stop, ExitInclusionMode, HandleGetStatus
  <2>. QED
    BY <1>1, <1>7, <2>1
<1>. QED
  BY <1>2, <1>3, <1>4, <1>5, <1>6, <1>7 DEF Stop, ExitInclusionMode, HandleGetStatus

(* The rest of loop(): the timeout and the radio leave the sketch alone, the *)
(* mode can only be left; back and clear bring the sketch down.              *)
LEMMA LoopOrdered ==
  ASSUME HubTypes, Ordered, ~(LoopChanges(pc') /\ WebStarts(pc')),
         \/ Setup \/ LoopRun \/ HandleStateTimeout \/ LoopReceive \/ LoopAnswer \/ LoopConfirm
         \/ LoopCheck \/ LoopLook \/ LoopBack \/ LoopClear \/ LoopStatus
  PROVE  Ordered'
<1>. USE DEF HubTypes, Ordered, Leaving, Active, Stopping, Noticing, Starting, SetUp,
             LoopChanges, WebStarts, StopSteps, StartSteps, app, controller
<1>1. CASE Setup
  BY <1>1 DEF Setup, Goto
<1>2. CASE LoopRun \/ LoopReceive \/ LoopAnswer \/ LoopConfirm \/ LoopCheck
  <2>1. /\ pc'["web"] = pc["web"] /\ UNCHANGED <<app, enabled>>
        /\ pc'["loop"] \in {"timeout", "receive", "check", "answer", "confirm", "stop", "look", "status"}
        /\ pc["loop"] \in {"run", "receive", "answer", "confirm", "check"}
    BY <1>2, PcIs DEF LoopRun, LoopReceive, LoopAnswer, LoopConfirm, LoopCheck
  <2>. QED
    BY <2>1
<1>3. CASE HandleStateTimeout
  <2>1. /\ pc'["web"] = pc["web"] /\ UNCHANGED app /\ (enabled' => enabled)
        /\ pc["loop"] \in {"timeout", "end"} /\ pc'["loop"] \in {"end", "receive"}
    BY <1>3, PcIs DEF HandleStateTimeout, ExitInclusionMode
  <2>. QED
    BY <2>1
<1>4. CASE LoopLook
  BY <1>4, PcIs DEF LoopLook
<1>5. CASE LoopBack
  BY <1>5, PcIs DEF LoopBack
<1>6. CASE LoopClear
  BY <1>6, PcIs DEF LoopClear
<1>7. CASE LoopStatus
  <2>1. /\ pc'["web"] = pc["web"] /\ UNCHANGED <<app, enabled>>
        /\ pc["loop"] \in {"status", "post"} /\ pc'["loop"] \in {"post", "run"}
    BY <1>7, PcIs DEF LoopStatus, HandleGetStatus
  <2>. QED
    BY <2>1
<1>. QED
  BY <1>1, <1>2, <1>3, <1>4, <1>5, <1>6, <1>7

(* The rest of the web task: a command is taken while loop() changes nothing *)
(* or not a start, and a start goes through its steps.                       *)
LEMMA WebOrdered ==
  ASSUME HubTypes, Ordered, ~(LoopChanges(pc') /\ WebStarts(pc')),
         (\E p \in Pages : TakeCommand(p)) \/ Start \/ Reply
  PROVE  Ordered'
<1>. USE DEF HubTypes, Ordered, Leaving, Active, Stopping, Noticing, Starting, SetUp,
             LoopChanges, WebStarts, StopSteps, StartSteps, app, controller
<1>1. CASE \E p \in Pages : TakeCommand(p)
  <2>1. /\ pc'["loop"] = pc["loop"] /\ UNCHANGED <<app, enabled>> /\ pc["web"] = "idle"
        /\ \/ pc'["web"] \in {"stop", "reply"}
           \/ pc'["web"] = "enable" /\ appState = "READY"
    BY <1>1, PcIs DEF TakeCommand
  <2>. QED
    BY <2>1
<1>2. CASE StartEnable
  BY <1>2, PcIs DEF StartEnable
<1>3. CASE StartOpen
  <2>1. /\ pc'["loop"] = pc["loop"] /\ UNCHANGED <<app, enabled>>
        /\ pc["web"] \in {"open", "request", "restart"}
        /\ pc'["web"] \in {"request", "restart", "activate", "abandon"}
    BY <1>3, PcIs DEF StartOpen, Sent
  <2>. QED
    BY <2>1
<1>4. CASE StartFails
  <2>1. pc'["loop"] = pc["loop"]
    BY <1>4, PcIs DEF StartFails, ExitInclusionMode
  <2>2. CASE pc["web"] = "abandon"
    BY <1>4, <2>1, <2>2, PcIs DEF StartFails, ExitInclusionMode
  <2>3. CASE pc["web"] = "undo"
    BY <1>4, <2>1, <2>3, PcIs DEF StartFails, ExitInclusionMode
  <2>4. CASE pc["web"] = "error"
    BY <1>4, <2>1, <2>4, PcIs DEF StartFails, ExitInclusionMode
  <2>. QED
    BY <1>4, <2>2, <2>3, <2>4 DEF StartFails, ExitInclusionMode
<1>5. CASE StartActivate
  BY <1>5, PcIs DEF StartActivate
<1>6. CASE StartActive
  BY <1>6, PcIs DEF StartActive
<1>7. CASE Reply
  <2>1. /\ pc'["loop"] = pc["loop"] /\ UNCHANGED <<app, enabled>>
        /\ pc["web"] \in {"reply", "post"} /\ pc'["web"] \in {"post", "idle"}
    BY <1>7, PcIs DEF Reply, HandleGetStatus
  <2>. QED
    BY <2>1
<1>. QED
  BY <1>1, <1>2, <1>3, <1>4, <1>5, <1>6, <1>7 DEF Start

LEMMA OrderedStep ==
  ASSUME IInv, [Next]_vars, ~raced'
  PROVE  Ordered'
<1>1. CASE Loop
  <2>1. Ordered /\ ~(LoopChanges(pc') /\ WebStarts(pc'))
    BY <1>1 DEF IInv, Loop, Meeting
  <2>. QED
    BY <1>1, <2>1, LoopStops, LoopOrdered DEF Loop, IInv
<1>2. CASE Web
  <2>1. Ordered /\ ~(LoopChanges(pc') /\ WebStarts(pc'))
    BY <1>2 DEF IInv, Web, Meeting
  <2>. QED
    BY <1>2, <2>1, WebStops, WebOrdered DEF Web, IInv
<1>3. CASE (\E p \in Pages : Page(p) \/ Show(p)) \/ SessionExpires \/ StatusDue \/ UNCHANGED vars
  <2>1. UNCHANGED <<app, enabled, pc, raced>>
    BY <1>3 DEF Page, Show, SessionExpires, StatusDue, vars, app, controller
  <2>. QED
    BY <2>1, OrderedUnchanged DEF IInv
<1>. QED
  BY <1>1, <1>2, <1>3 DEF Next

-----------------------------------------------------------------------------
LEMMA Initially == Init => IInv
<1>. SUFFICES ASSUME Init PROVE IInv
  OBVIOUS
<1>1. HubTypes /\ PageTypes
  BY DEF Init, HubTypes, PageTypes, AppState, ProtocolState, LoopStep, WebStep
<1>2. InboxTypes
  BY Queues DEF Init, InboxTypes
<1>3. Ordered
  BY DEF Init, Ordered, Leaving, Active, Stopping, Noticing, Starting, SetUp, LoopChanges, WebStarts, StopSteps,
         StartSteps
<1>. QED
  BY <1>1, <1>2, <1>3 DEF IInv

(* The inductive invariant of sketch, controller and pages holds in every    *)
(* reachable state.                                                          *)
THEOREM Invariance == Spec => []IInv
<1>1. IInv /\ [Next]_vars => IInv'
  BY HubTypesStep, PageTypesStep, InboxTypesStep, OrderedStep DEF IInv
<1>. QED
  BY Initially, <1>1, PTL DEF Spec

(* Everything keeps its type; no web socket ever queues more than it may.    *)
THEOREM TypeCorrect == Spec => []TypeOK
<1>1. IInv => TypeOK
  BY DEF IInv, HubTypes, PageTypes, InboxTypes, Queue, TypeOK
<1>. QED
  BY Invariance, <1>1, PTL

(* As long as no start met a change by loop(), the sketch's flag, its state  *)
(* and the controller's mode agree between changes.                          *)
THEOREM SketchKeepsAgreeing == Spec => []SketchAgrees
<1>1. IInv => SketchAgrees
  BY DEF IInv, HubTypes, Ordered, Leaving, Active, SketchAgrees, LoopChanges, WebChanges, StopSteps
<1>. QED
  BY Invariance, <1>1, PTL
===============================================================================
