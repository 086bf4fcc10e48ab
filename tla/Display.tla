------------------------------- MODULE Display -------------------------------
(***************************************************************************)
(* The TFT display of the ESP32 controller.  tftwakeup_task lights the     *)
(* screen and fills it grey, updatetftdisplay_task chooses a page, prepares*)
(* its background and draws its values, tftsleep_task darkens it after two *)
(* minutes.  They share the canvas under a mutex whose take may time out,  *)
(* and _screen_awake, _lastScreenToDisplay and the page counters without a *)
(* lock.  A notification eNoAction reaches a task only while it waits; a   *)
(* forced one (value 1) is kept until it is taken or overwritten.          *)
(***************************************************************************)
EXTENDS Integers

CONSTANTS
  BankCounts,    \* numbers of banks a user may set
  PageDelay,     \* draws of a page before the next one (5)
  CounterSize,   \* _ScreenToDisplayCounter counts modulo this (256)
  MaxEvents      \* bound: events of the WiFi, the rules and the web pages

ASSUME ConstantAssumption ==
  /\ BankCounts # {} /\ BankCounts \subseteq 1 .. 16
  /\ PageDelay \in Nat /\ CounterSize \in Nat /\ PageDelay + 1 < CounterSize
  /\ MaxEvents \in Nat

VARIABLES
  controllerState, alarm,          \* alarm: "error" a rule, "programming" an attempt
  monitoring, banks,               \* currentMonitoringEnabled, totalNumberOfBanks
  awake, backlight,                \* _screen_awake and the light
  lastScreen, counter, page,       \* _lastScreenToDisplay and the two counters
  titles, values,                  \* what is on the canvas
  wake, update, sleep,             \* the tasks: [step, force, note], [step, note, screen], a step
  events,
  missed,      \* tftsleep_task was not waiting when it was to be notified (history)
  disturbed    \* a step that can spoil the canvas was taken since a page was last to be
               \* prepared (history)

settings == <<controllerState, alarm, monitoring, banks>>
pages == <<lastScreen, counter, page>>
canvas == <<titles, values>>
displayVars == <<settings, awake, backlight, pages, canvas, wake, update, sleep, events, missed,
          disturbed>>

Screens == {"None", "Error", "VoltageOneBank", "VoltageFourBank", "State", "AVRProgrammer",
            "CurrentMonitor"}

-----------------------------------------------------------------------------
(* What PrepareTFT_... and DrawTFT_... put on the screen for a page.       *)
Readings == {"external", "module", "cell", "balancing"}
ShownBanks(n) == {<<"bank", i>> : i \in 0 .. (IF n > 4 THEN 4 ELSE n) - 1}
Monitored == {"current", "power", "voltage", "charge", "out", "in"}

TitlesOneBank == {<<"bank", 0>>} \cup {<<r, 0>> : r \in Readings}
TitlesFourBank == ShownBanks(banks) \cup {<<r, 0>> : r \in Readings}
TitlesMonitor == {<<r, 0>> : r \in Monitored}
TitlesControlState == {<<"state", 0>>}
TitlesError == {<<"error", 0>>}
TitlesAVRProgrammer == {<<"progress", 0>>}

PrepareTFT(s) ==
  CASE s = "VoltageOneBank" -> TitlesOneBank
    [] s = "VoltageFourBank" -> TitlesFourBank
    [] s = "CurrentMonitor" -> TitlesMonitor
    [] s = "State" -> TitlesControlState
    [] s = "Error" -> TitlesError
    [] s = "AVRProgrammer" -> TitlesAVRProgrammer
    [] OTHER -> titles

ValuesOneBank == {<<"bank", 0>>} \cup {<<r, 0>> : r \in Readings}
ValuesFourBank == ShownBanks(banks) \cup {<<r, 0>> : r \in Readings}
ValuesMonitor == {<<r, 0>> : r \in Monitored}
ValuesControlState == {<<"state", 0>>}
ValuesError == {<<"error", 0>>}      \* the first error only

DrawTFT(s) ==
  CASE s = "VoltageOneBank" -> ValuesOneBank
    [] s = "VoltageFourBank" -> ValuesFourBank
    [] s = "CurrentMonitor" -> ValuesMonitor
    [] s = "State" -> ValuesControlState
    [] s = "Error" -> ValuesError
    [] OTHER -> {}

Fields == TitlesOneBank \cup ShownBanks(16) \cup TitlesMonitor \cup TitlesControlState
            \cup TitlesError \cup TitlesAVRProgrammer

WakeSteps == {"wait", "ready", "fill", "filled", "light", "notify", "redraw", "refresh"}
UpdateSteps == {"wait", "ready", "prepare", "store", "draw"}
SleepSteps == {"wait", "ready", "delay", "dark", "asleep", "forget"}

DisplayTypeOK ==
  /\ controllerState \in {"Stabilizing", "Running"}
  /\ alarm \in {"none", "error", "programming"}
  /\ banks \in BankCounts
  /\ lastScreen \in Screens /\ counter \in 0 .. CounterSize - 1 /\ page \in 0 .. 1
  /\ titles \subseteq Fields /\ values \subseteq Fields
  /\ wake \in [step : WakeSteps, force : 0 .. 1, note : 0 .. 1]
  /\ update \in [step : UpdateSteps, note : 0 .. 1, screen : Screens]
  /\ sleep \in SleepSteps
  /\ events \in 0 .. MaxEvents
  /\ {monitoring, awake, backlight, missed, disturbed} \subseteq BOOLEAN

(* The end of setup(): the light is off and the wake-up task notified.     *)
DisplayInit ==
  /\ controllerState = "Stabilizing" /\ alarm \in {"none", "error"}
  /\ monitoring \in BOOLEAN /\ banks \in BankCounts
  /\ awake = FALSE /\ backlight = FALSE
  /\ lastScreen = "None" /\ counter = 0 /\ page = 0
  /\ titles = TitlesControlState /\ values = ValuesControlState
  /\ wake = [step |-> "ready", force |-> 0, note |-> 0]
  /\ update = [step |-> "wait", note |-> 0, screen |-> "None"]
  /\ sleep = "wait" /\ events = 0 /\ missed = FALSE /\ disturbed = FALSE

-----------------------------------------------------------------------------
(* xTaskNotify(eNoAction) and xTaskNotify(eSetValueWithOverwrite).         *)
Woken(t) == IF t.step = "wait" THEN [t EXCEPT !.step = "ready"] ELSE t
Notified(t, value) == [Woken(t) EXCEPT !.note = value]
CanTake(t) == t.step = "ready" \/ (t.step = "wait" /\ t.note = 1)
Taken(t, at) == [t EXCEPT !.step = at, !.note = 0]

-----------------------------------------------------------------------------
(* WhatScreenToDisplay(): a page of the Running state and the State page   *)
(* replace the programmer's and the error's.                               *)
Rotated == IF counter > PageDelay THEN page + 1 ELSE page
Page == IF Rotated > 1 \/ (Rotated = 1 /\ ~monitoring) THEN 0 ELSE Rotated

Reply ==
  IF controllerState # "Running" THEN "State"
  ELSE IF Page = 1 THEN "CurrentMonitor"
  ELSE IF banks = 1 THEN "VoltageOneBank"
  ELSE IF banks > 1 THEN "VoltageFourBank"
  ELSE IF alarm = "programming" THEN "AVRProgrammer"
  ELSE IF alarm = "error" THEN "Error"
  ELSE "None"

WhatScreenToDisplay ==
  LET running == controllerState = "Running"
      count == IF running /\ counter > PageDelay THEN 0 ELSE counter
  IN
    /\ page' = IF running THEN Page ELSE page
    /\ counter' = IF Reply = lastScreen THEN (count + 1) % CounterSize ELSE 0

-----------------------------------------------------------------------------
(* tftwakeup_task.  A wake-up that is not forced only refreshes a screen   *)
(* that is awake.                                                          *)
WakeTake ==
  /\ CanTake(wake)
  /\ LET at == IF ~awake \/ wake.note = 1 THEN "fill" ELSE "refresh"
     IN  wake' = [Taken(wake, at) EXCEPT !.force = wake.note]
  /\ UNCHANGED <<settings, awake, backlight, pages, canvas, update, sleep, events, missed,
                 disturbed>>

(* The mutex of the canvas may be out of reach for 50 ms.                  *)
TimesOut == events < MaxEvents /\ events' = events + 1

(* A grey canvas is one without titles.                                    *)
Fill ==
  /\ wake.step = "fill"
  /\ \/ titles' = {} /\ values' = {} /\ UNCHANGED events
     \/ TimesOut /\ UNCHANGED canvas
  /\ wake' = [wake EXCEPT !.step = "filled"]
  /\ UNCHANGED <<settings, awake, backlight, pages, update, sleep, missed, disturbed>>

SetAwake ==
  /\ wake.step = "filled"
  /\ awake' = TRUE
  /\ wake' = [wake EXCEPT !.step = "light"]
  /\ UNCHANGED <<settings, backlight, pages, canvas, update, sleep, events, missed, disturbed>>

LightOn ==
  /\ wake.step = "light"
  /\ backlight' = TRUE
  /\ wake' = [wake EXCEPT !.step = "notify"]
  /\ UNCHANGED <<settings, awake, pages, canvas, update, sleep, events, missed, disturbed>>

\* seeded fault: the sleep task is not told
NotifySleep_Untold ==
  /\ wake.step = "notify" /\ wake' = [wake EXCEPT !.step = "redraw"]
  /\ UNCHANGED <<settings, awake, backlight, pages, canvas, update, sleep, events, missed,
                 disturbed>>
NotifySleep ==
  /\ wake.step = "notify"
  /\ sleep' = IF sleep = "wait" THEN "ready" ELSE sleep
  /\ missed' = (missed \/ sleep \in {"dark", "asleep", "forget"})
  /\ wake' = [wake EXCEPT !.step = "redraw"]
  /\ UNCHANGED <<settings, awake, backlight, pages, canvas, update, events, disturbed>>

\* seeded fault: the refresh does not carry the force on
NotifyUpdate_Unforced ==
  /\ wake.step \in {"redraw", "refresh"}
  /\ update' = Notified(update, 0)
  /\ wake' = [wake EXCEPT !.step = "wait", !.force = 0]
  /\ UNCHANGED <<settings, awake, backlight, pages, canvas, sleep, events, missed, disturbed>>

(* A refresh that is not forced overwrites one that is.                    *)
NotifyUpdate ==
  /\ wake.step \in {"redraw", "refresh"}
  /\ update' = Notified(update, wake.force)
  /\ disturbed' = (disturbed \/ (wake.force = 0 /\ update.note = 1))
  /\ wake' = [wake EXCEPT !.step = "wait", !.force = 0]
  /\ UNCHANGED <<settings, awake, backlight, pages, canvas, sleep, events, missed>>

-----------------------------------------------------------------------------
(* updatetftdisplay_task. *)
UpdateTake ==
  /\ CanTake(update)
  /\ \/ /\ ~awake /\ update' = Taken(update, "wait")
        /\ UNCHANGED <<pages, disturbed>>
     \/ /\ awake
        /\ WhatScreenToDisplay /\ UNCHANGED lastScreen
        /\ LET at == IF lastScreen # Reply \/ update.note = 1 THEN "prepare" ELSE "draw"
           IN  /\ update' = [Taken(update, at) EXCEPT !.screen = Reply]
               /\ disturbed' = (disturbed /\ at = "draw")
  /\ UNCHANGED <<settings, awake, backlight, canvas, wake, sleep, events, missed>>

Prepare ==
  /\ update.step = "prepare"
  /\ \/ /\ titles' = PrepareTFT(update.screen) /\ values' = {}
        /\ UNCHANGED <<events, disturbed>>
     \/ TimesOut /\ disturbed' = TRUE /\ UNCHANGED canvas
  /\ update' = [update EXCEPT !.step = "store"]
  /\ UNCHANGED <<settings, awake, backlight, pages, wake, sleep, missed>>

StoreLast ==
  /\ update.step = "store"
  /\ lastScreen' = update.screen
  /\ update' = [update EXCEPT !.step = "draw"]
  /\ UNCHANGED <<settings, awake, backlight, counter, page, canvas, wake, sleep, events, missed,
                 disturbed>>

Draw ==
  /\ update.step = "draw"
  /\ \/ values' = values \cup DrawTFT(update.screen) /\ UNCHANGED events
     \/ TimesOut /\ UNCHANGED values
  /\ update' = [update EXCEPT !.step = "wait", !.screen = "None"]
  /\ UNCHANGED <<settings, awake, backlight, pages, titles, wake, sleep, missed, disturbed>>

-----------------------------------------------------------------------------
(* tftsleep_task: two minutes, and again while WhatScreenToDisplay() says  *)
(* Error.                                                                  *)
SleepTake ==
  /\ sleep = "ready" /\ sleep' = "delay"
  /\ UNCHANGED <<settings, awake, backlight, pages, canvas, wake, update, events, missed,
                 disturbed>>

DelayEnds ==
  /\ sleep = "delay"
  /\ WhatScreenToDisplay /\ UNCHANGED lastScreen
  /\ sleep' = IF Reply = "Error" THEN "delay" ELSE "dark"
  /\ UNCHANGED <<settings, awake, backlight, canvas, wake, update, events, missed, disturbed>>

LightOff ==
  /\ sleep = "dark" /\ sleep' = "asleep" /\ backlight' = FALSE
  /\ UNCHANGED <<settings, awake, pages, canvas, wake, update, events, missed, disturbed>>

FallAsleep ==
  /\ sleep = "asleep" /\ sleep' = "forget" /\ awake' = FALSE
  /\ UNCHANGED <<settings, backlight, pages, canvas, wake, update, events, missed, disturbed>>

\* seeded fault: the light goes off last
ForgetPage_Dark ==
  /\ sleep = "forget" /\ sleep' = "wait" /\ lastScreen' = "None" /\ counter' = 0
  /\ backlight' = FALSE
  /\ disturbed' = (disturbed \/ update.step \in {"prepare", "store"})
  /\ UNCHANGED <<settings, awake, page, canvas, wake, update, events, missed>>
(* updatetftdisplay_task may be about to remember the page again.          *)
ForgetPage ==
  /\ sleep = "forget" /\ sleep' = "wait" /\ lastScreen' = "None" /\ counter' = 0
  /\ disturbed' = (disturbed \/ update.step \in {"prepare", "store"})
  /\ UNCHANGED <<settings, awake, backlight, page, canvas, wake, update, events, missed>>

-----------------------------------------------------------------------------
(* Who notifies. *)

\* voltageandstatussnapshot_task and rs485_rx after readings, avrprog_task at its end
Snapshot ==
  /\ update' = Woken(update)
  /\ UNCHANGED <<settings, awake, backlight, pages, canvas, wake, sleep, events, missed,
                 disturbed>>

\* TFTScreenTouchInterrupt, ignored while the screen is awake
Touch ==
  /\ ~awake /\ wake' = Woken(wake)
  /\ UNCHANGED <<settings, awake, backlight, pages, canvas, update, sleep, events, missed,
                 disturbed>>

\* the contact of displays without touch, looked at whenever the inputs are read
WakeContact ==
  /\ wake' = Woken(wake)
  /\ UNCHANGED <<settings, awake, backlight, pages, canvas, update, sleep, events, missed,
                 disturbed>>

\* rules_task with an active error: a wake-up after every pass
RulesAlarm ==
  /\ alarm = "error" /\ wake' = Woken(wake)
  /\ UNCHANGED <<settings, awake, backlight, pages, canvas, update, sleep, events, missed,
                 disturbed>>

Event == events < MaxEvents /\ events' = events + 1
Calm == UNCHANGED <<awake, backlight, pages, canvas, sleep, missed>>

\* onWifiConnect, onWifiDisconnect
WifiChanges ==
  /\ Event /\ wake' = Notified(wake, 1)
  /\ UNCHANGED <<settings, update, disturbed>> /\ Calm

\* avrprog_task starts an attempt, and ends it
StartProgramming ==
  /\ Event /\ alarm = "none" /\ alarm' = "programming" /\ wake' = Notified(wake, 1)
  /\ UNCHANGED <<controllerState, monitoring, banks, update, disturbed>> /\ Calm

(* The programmer draws its bar on whatever page there is.                 *)
ProgressBar ==
  /\ alarm = "programming" /\ values' = values \cup {<<"progress", 0>>}
  /\ UNCHANGED <<settings, awake, backlight, pages, titles, wake, update, sleep, events, missed,
                 disturbed>>

EndProgramming ==
  /\ alarm = "programming" /\ alarm' = "none" /\ update' = Woken(update)
  /\ UNCHANGED <<controllerState, monitoring, banks, wake, events, disturbed>> /\ Calm

\* ProcessRules raises or clears an error, SetControllerState
RaiseError ==
  /\ Event /\ alarm \in {"none", "error"}
  /\ alarm' = IF alarm = "none" THEN "error" ELSE "none"
  /\ UNCHANGED <<controllerState, monitoring, banks, wake, update, disturbed>> /\ Calm

StartRunning ==
  /\ controllerState = "Stabilizing" /\ controllerState' = "Running"
  /\ UNCHANGED <<alarm, monitoring, banks, wake, update, events, disturbed>> /\ Calm

(* saveBankConfiguration and the pages of the current monitor.  A number   *)
(* of banks that changes leaves the titles of the page as they are.        *)
SaveSettings ==
  /\ Event
  /\ \/ monitoring' = ~monitoring /\ UNCHANGED <<banks, disturbed>>
     \/ banks' \in BankCounts \ {banks} /\ disturbed' = TRUE /\ UNCHANGED monitoring
  /\ UNCHANGED <<controllerState, alarm, wake, update>> /\ Calm

WakeNext ==
  WakeTake \/ Fill \/ SetAwake \/ LightOn \/ NotifySleep \/ NotifyUpdate
UpdateNext == UpdateTake \/ Prepare \/ StoreLast \/ Draw
SleepNext == SleepTake \/ DelayEnds \/ LightOff \/ FallAsleep \/ ForgetPage

DisplayNext ==
  \/ WakeNext \/ UpdateNext \/ SleepNext
  \/ Snapshot \/ Touch \/ WakeContact \/ RulesAlarm \/ WifiChanges
  \/ StartProgramming \/ ProgressBar \/ EndProgramming
  \/ RaiseError \/ StartRunning \/ SaveSettings

(* The tasks run once they can, and readings arrive again and again.       *)
DisplayFairness ==
  /\ WF_displayVars(WakeNext) /\ WF_displayVars(UpdateNext) /\ WF_displayVars(SleepNext)
  /\ WF_displayVars(Snapshot)

DisplaySpec == DisplayInit /\ [][DisplayNext]_displayVars /\ DisplayFairness

-----------------------------------------------------------------------------
Idle(t) == t.step = "wait" /\ t.note = 0

(* When the tasks are idle a screen that counts as awake is lit, however   *)
(* the wake-up and the sleep task interleave: otherwise a touch would be   *)
(* ignored in front of a dark screen.                                      *)
AwakeIsLit == awake /\ Idle(wake) /\ sleep \in {"wait", "delay"} => backlight

(* When the tasks are idle each value on a screen that is awake has its    *)
(* title, the programmer's bar aside, and the page is the one that         *)
(* _lastScreenToDisplay names.  Between deciding to prepare a page and the *)
(* next such decision one of these may spoil it: the mutex was out of      *)
(* reach, a forced refresh was overwritten by another, the number of banks *)
(* was changed, or the sleep task forgot the page just before it was       *)
(* remembered.                                                             *)
ValuesHaveTitles ==
  awake /\ lastScreen # "None" /\ Idle(wake) /\ Idle(update) /\ sleep # "forget" /\ ~disturbed
    => values \ {<<"progress", 0>>} \subseteq titles /\ titles = PrepareTFT(lastScreen)

(* A screen that is awake falls asleep again unless there is an error, or  *)
(* the wake-up task notified the sleep task while it was not waiting.      *)
SleepsAgain == awake /\ ~missed ~> ~awake \/ missed \/ alarm = "error"

(* "Delay 2 minutes, or forever if an error is active" (tft.cpp:360): the  *)
(* light is not switched off while there is an error.                      *)
ErrorKeepsScreenOn ==
  [][sleep = "delay" /\ sleep' = "dark" => alarm # "error"]_displayVars
=============================================================================
