--------------------------- MODULE ThermalControl ---------------------------
(***************************************************************************)
(* The cooling side of loop(): every pass samples the thermistors if more  *)
(* than 200 ms have gone by, runs the fan controller on what it sampled,   *)
(* and shows the worst fault on the status LED.  Meanwhile the async_tcp   *)
(* task assigns the settings the controller reads, field by field, with no *)
(* lock: each step below touches the shared struct once, except that the   *)
(* setpoint and the three gains of one PID expression are read together.   *)
(*                                                                         *)
(* Fixed point stands for float: temperatures are whole degrees, a tick is *)
(* 100 ms, the gains are in tenths, the integral in tenths of a degree     *)
(* second.  One behaviour is one boot.                                     *)
(***************************************************************************)
EXTENDS Millis

CONSTANTS
  Readings,        \* temperatures the thermistors may give
  NaN,             \* what they give when open or shorted
  Setpoints1, Setpoints2, Percents, Kps, Kis, Kds,  \* what operators ask for
  StoredSettings,  \* the settings a boot may find in NVS
  BootOutcomes,    \* what setup() may find: LittleFS, Wi-Fi, why it runs
  Carried,         \* bound: the fields a request may carry, any subset of them
  IMax,            \* anti-windup limit
  MinStart,        \* FAN3_MIN_START_PCT
  CriticalMargin,  \* THERMAL_CRITICAL_MARGIN_C
  SamplePeriod,
  MaxLag           \* bound: ticks between two passes of the loop

\* The order in which set_settings assigns what it carries.
Order == <<"pid_enabled", "setpoint1_c", "setpoint2_c", "fan_manual_pct",
           "pid_kp", "pid_ki", "pid_kd">>

Settings == [pid_enabled : BOOLEAN, setpoint1_c : Setpoints1, setpoint2_c : Setpoints2,
             fan_manual_pct : Percents, pid_kp : Kps, pid_ki : Kis, pid_kd : Kds]

Boots == [littlefs_ready : BOOLEAN, wifiInitOk : BOOLEAN,
          reason : {"power", "watchdog", "brownout"}]

ASSUME ReadingsAssumption == Readings \subseteq Int /\ NaN \notin Readings
ASSUME SettingsAssumption ==
  /\ Percents \subseteq 0..255
  /\ Setpoints1 \cup Setpoints2 \cup Kps \cup Kis \cup Kds \subseteq Int
  /\ StoredSettings \subseteq Settings
  /\ BootOutcomes \subseteq Boots
  /\ Carried \subseteq {Order[n] : n \in DOMAIN Order}
ASSUME LimitsAssumption ==
  /\ IMax \in Nat /\ MinStart \in 0..100 /\ CriticalMargin \in Int
  /\ SamplePeriod \in Nat /\ MaxLag \in Nat
  /\ SamplePeriod + 2 * MaxLag < ClockRange   \* no pass is as long as a clock wrap

VARIABLES
  settings,
  temp1, temp2,                      \* state.temp1, state.temp2
  fan_target_pct,                    \* what the firmware reports
  duty,                              \* what the PWM channels get, in percent
  pid_i, pid_prev_err, pid_prev_ms,
  last_sense, now, lag,              \* lag: ticks since the loop read the clock
  edit,                              \* handler: the fields still to assign
  lpc, dt,                           \* loop: where it is, controlLoop's dt
  boot,                              \* what setup() found
  led                                \* StatusLed::current

fanVars == <<fan_target_pct, duty>>
tempVars == <<temp1, temp2>>
pidVars == <<pid_i, pid_prev_err>>
timeVars == <<last_sense, now, lag>>
vars == <<settings, tempVars, fanVars, pidVars, pid_prev_ms, timeVars, edit, lpc, dt,
          boot, led>>

NoEdit == [f \in {} |-> 0]

Edits == {[f \in F |-> wish[f]] : F \in (SUBSET Carried) \ {{}}, wish \in Settings}

-----------------------------------------------------------------------------
(* Fan output *)

Constrain(x, lo, hi) == IF x < lo THEN lo ELSE IF x > hi THEN hi ELSE x

\* The target is reported as asked; a 3-wire fan is driven at its start duty
\* at least.
Target(pct) == IF pct > 100 THEN 100 ELSE pct
Driven(target) == IF target > 0 /\ target < MinStart THEN MinStart ELSE target

ApplyFanOutput(pct) ==
  /\ fan_target_pct' = Target(pct)
  /\ duty' = Driven(Target(pct))

\* round(num / den), halves away from zero.
Round(num, den) ==
  IF num >= 0 THEN (2 * num + den) \div (2 * den)
              ELSE -((den - 2 * num) \div (2 * den))

\* kp err + ki i + kd d + 20, rounded and cut to a percentage.  The
\* derivative of an interval of no length is zero.
PidPct(s, err, i, delta, ticks) ==
  LET steady == 10 * s.pid_kp * err + s.pid_ki * i + 2000
  IN  Constrain(IF ticks = 0 THEN Round(steady, 100)
                ELSE Round(ticks * steady + 100 * s.pid_kd * delta, 100 * ticks),
                0, 100)

-----------------------------------------------------------------------------
(* Status LED *)

\* StatusLed::severity, for the statuses some code sets.
Severity(status) ==
  CASE status = "SystemOk" -> 1
    [] status = "SystemRunningCheckLogs" -> 2
    [] status = "GeneralError" -> 3
    [] status = "NetworkError" -> 4
    [] status = "ThermalError" -> 6
    [] status = "CriticalError" -> 7

Higher(status, candidate) ==
  IF Severity(candidate) > Severity(status) THEN candidate ELSE status

ResetStatus(reason) ==
  CASE reason = "watchdog" -> "SystemRunningCheckLogs"
    [] reason = "brownout" -> "CriticalError"
    [] reason = "power" -> "SystemOk"

\* The default status setup() leaves behind.
Default(b) ==
  LET files == IF b.littlefs_ready THEN "SystemOk" ELSE "GeneralError"
      wifi == IF b.wifiInitOk THEN files ELSE Higher(files, "NetworkError")
  IN  Higher(wifi, ResetStatus(b.reason))

\* Mutant: a blind first sensor hides the second.
ThermalFaultOfFirst(limit) == temp1 # NaN /\ (temp1 > limit \/ (temp2 # NaN /\ temp2 > limit))

ThermalFaultActive(limit) ==
  (temp1 # NaN /\ temp1 > limit) \/ (temp2 # NaN /\ temp2 > limit)

-----------------------------------------------------------------------------
(* Boot *)

Init ==
  /\ settings \in StoredSettings
  /\ boot \in BootOutcomes
  /\ temp1 = NaN
  /\ temp2 = NaN
  /\ fan_target_pct = Target(IF settings.pid_enabled THEN 20 ELSE settings.fan_manual_pct)
  /\ duty = Driven(fan_target_pct)
  /\ pid_i = 0
  /\ pid_prev_err = 0
  /\ pid_prev_ms = 0
  /\ last_sense = 0
  /\ now = 0
  /\ lag = 0
  /\ edit = NoEdit
  /\ lpc = "poll"
  /\ dt = 0
  /\ led = Default(boot)

-----------------------------------------------------------------------------
(* The async_tcp task *)

BeginEdit(e) ==
  /\ edit = NoEdit
  /\ edit' = e
  /\ UNCHANGED <<settings, tempVars, fanVars, pidVars, pid_prev_ms, timeVars, lpc, dt,
                 boot, led>>

\* The handler assigns the next field the request carries.
WriteField ==
  /\ \E n \in DOMAIN Order :
       /\ Order[n] \in DOMAIN edit
       /\ \A m \in 1..(n - 1) : Order[m] \notin DOMAIN edit
       /\ settings' = [settings EXCEPT ![Order[n]] = edit[Order[n]]]
       /\ edit' = [f \in DOMAIN edit \ {Order[n]} |-> edit[f]]
  /\ UNCHANGED <<tempVars, fanVars, pidVars, pid_prev_ms, timeVars, lpc, dt, boot, led>>

-----------------------------------------------------------------------------
(* The loop task *)

Skip ==
  /\ lpc = "poll"
  /\ Elapsed(now, last_sense) <= SamplePeriod
  /\ lag' = 0
  /\ lpc' = "led"
  /\ UNCHANGED <<settings, tempVars, fanVars, pidVars, pid_prev_ms, last_sense, now,
                 edit, dt, boot, led>>

Sample(t1, t2) ==
  /\ lpc = "poll"
  /\ Elapsed(now, last_sense) > SamplePeriod
  /\ temp1' = t1
  /\ temp2' = t2
  /\ last_sense' = now
  /\ lag' = 0
  /\ lpc' = "control"
  /\ UNCHANGED <<settings, fanVars, pidVars, pid_prev_ms, now, edit, dt, boot, led>>

\* The hottest working sensor, NaN if there is none.
Hottest ==
  IF temp1 = NaN THEN temp2
  ELSE IF temp2 = NaN THEN temp1
  ELSE IF temp1 >= temp2 THEN temp1 ELSE temp2

\* The clock, the blind return, and the mode.  The interval is taken, and its
\* start moved, even if nothing is computed over it.
StartControl ==
  /\ lpc = "control"
  /\ dt' = IF pid_prev_ms = 0 THEN 1 ELSE Elapsed(now, pid_prev_ms)
  /\ pid_prev_ms' = now
  /\ lpc' = IF Hottest = NaN THEN "led"
            ELSE IF settings.pid_enabled THEN "pid" ELSE "manual"
  /\ UNCHANGED <<settings, tempVars, fanVars, pidVars, timeVars, edit, boot, led>>

\* Mutant: the integral is not limited.
RunPidWindsUp ==
  /\ lpc = "pid"
  /\ LET err == Hottest - settings.setpoint1_c
     IN  /\ pid_i' = pid_i + err * dt
         /\ pid_prev_err' = err
         /\ ApplyFanOutput(PidPct(settings, err, pid_i', err - pid_prev_err, dt))
  /\ lpc' = "led"
  /\ dt' = 0
  /\ UNCHANGED <<settings, tempVars, pid_prev_ms, timeVars, edit, boot, led>>

RunPid ==
  /\ lpc = "pid"
  /\ LET err == Hottest - settings.setpoint1_c
     IN  /\ pid_i' = Constrain(pid_i + err * dt, -IMax, IMax)
         /\ pid_prev_err' = err
         /\ ApplyFanOutput(PidPct(settings, err, pid_i', err - pid_prev_err, dt))
  /\ lpc' = "led"
  /\ dt' = 0
  /\ UNCHANGED <<settings, tempVars, pid_prev_ms, timeVars, edit, boot, led>>

RunManual ==
  /\ lpc = "manual"
  /\ ApplyFanOutput(settings.fan_manual_pct)
  /\ lpc' = "led"
  /\ dt' = 0
  /\ UNCHANGED <<settings, tempVars, pidVars, pid_prev_ms, timeVars, edit, boot, led>>

\* The faults are weighed anew in every pass.
ShowStatus ==
  /\ lpc = "led"
  /\ LET files == IF boot.littlefs_ready THEN Default(boot)
                  ELSE Higher(Default(boot), "GeneralError")
         wifi == IF boot.wifiInitOk THEN files ELSE Higher(files, "NetworkError")
     IN  led' = IF ThermalFaultActive(settings.setpoint2_c + CriticalMargin)
                THEN Higher(wifi, "ThermalError") ELSE wifi
  /\ lpc' = "poll"
  /\ dt' = 0
  /\ UNCHANGED <<settings, tempVars, fanVars, pidVars, pid_prev_ms, timeVars, edit, boot>>

Loop ==
  \/ Skip
  \/ \E t1, t2 \in Readings \cup {NaN} : Sample(t1, t2)
  \/ StartControl \/ RunPid \/ RunManual \/ ShowStatus

Tick ==
  /\ lag < MaxLag
  /\ lag' = lag + 1
  /\ now' = NextTick(now)
  /\ UNCHANGED <<settings, tempVars, fanVars, pidVars, pid_prev_ms, last_sense, edit, lpc,
                 dt, boot, led>>

Next == (\E e \in Edits : BeginEdit(e)) \/ WriteField \/ Loop \/ Tick

\* Both tasks are scheduled for ever and time passes.  Requests come as they
\* like, and the sensors read what they like.
Fairness == WF_vars(WriteField) /\ WF_vars(Loop) /\ WF_vars(Tick)

Spec == Init /\ [][Next]_vars
FairSpec == Spec /\ Fairness

-----------------------------------------------------------------------------
(* Properties *)

\* Type invariant: the controller's variables have their types; the integral
\* stays within its limit, the target is a percentage, and the controller
\* computes on a temperature only where a sensor gave one.
TypeOK ==
  /\ settings \in Settings
  /\ temp1 \in Readings \cup {NaN}
  /\ temp2 \in Readings \cup {NaN}
  /\ fan_target_pct \in 0..100
  /\ duty \in 0..100
  /\ pid_i \in -IMax..IMax
  /\ pid_prev_err \in Int
  /\ {pid_prev_ms, last_sense, now} \subseteq Clock
  /\ lag \in 0..MaxLag
  /\ edit = NoEdit \/ edit \in Edits
  /\ lpc \in {"poll", "control", "pid", "manual", "led"}
  /\ dt \in Clock \cup {1}
  /\ boot \in BootOutcomes
  /\ led \in {"SystemOk", "SystemRunningCheckLogs", "GeneralError", "NetworkError",
              "ThermalError", "CriticalError"}
  /\ lpc \in {"pid", "manual"} => Hottest # NaN

\* What the past may weigh: whatever the history (hours of cold, a spell of
\* manual control, a blind sensor), the integral moves the fan by no more
\* than |ki| * IMax away from the proportional law of controlLoop.
Abs(x) == IF x < 0 THEN -x ELSE x
PastWeighsLittle ==
  [][RunPid /\ settings.pid_kd = 0 =>
       LET err == Hottest - settings.setpoint1_c
           base == 10 * settings.pid_kp * err + 2000
           reach == Abs(settings.pid_ki) * IMax
       IN  /\ fan_target_pct' >= Constrain(Round(base - reach, 100), 0, 100)
           /\ fan_target_pct' <= Constrain(Round(base + reach, 100), 0, 100)]_vars

\* The fan a steady controller should give: the manual percentage, or the PID
\* law with its integral wound up on the side of the error.
SteadyPct ==
  IF ~settings.pid_enabled THEN Target(settings.fan_manual_pct)
  ELSE LET err == Hottest - settings.setpoint1_c
           wound == IF err = 0 THEN pid_i ELSE IF err > 0 THEN IMax ELSE -IMax
       IN  PidPct(settings, err, wound, 0, 1)

RequestsStop == <>[](edit = NoEdit)
TempsHold == <>[][UNCHANGED tempVars]_vars

\* Once requests stop and the temperature holds, a fan that some sensor
\* controls settles where the settings want it, for good: no torn read of
\* mode and percentage, clock wrap, stale integral or derivative stays.
FanSettles ==
  RequestsStop /\ TempsHold /\ <>[](Hottest # NaN) =>
    <>[](Hottest # NaN /\ fan_target_pct = SteadyPct /\ duty = Driven(SteadyPct))

\* The faults that are present.
Faults ==
  {ResetStatus(boot.reason)}
  \cup (IF boot.littlefs_ready THEN {} ELSE {"GeneralError"})
  \cup (IF boot.wifiInitOk THEN {} ELSE {"NetworkError"})
  \cup (IF \E t \in {temp1, temp2} \ {NaN} : t > settings.setpoint2_c + CriticalMargin
        THEN {"ThermalError"} ELSE {})

\* Once requests stop and the temperature holds, the LED shows the worst of
\* the faults that are present, and drops an alarm that is over.
LedShowsWorst ==
  RequestsStop /\ TempsHold =>
    <>[](led \in Faults /\ \A f \in Faults : Severity(f) <= Severity(led))
=============================================================================
