---------------------------- MODULE ThermalProofs ----------------------------
(***************************************************************************)
(* The two halves of the thermal subsystem.  For every set of              *)
(* temperatures, settings, limits and clock widths: the controller's types *)
(* hold, and the integral moves the fan by no more than its limit allows.  *)
(* For every number of channels and every set of baths and fits: captures  *)
(* belong to the channel of their session, a request leaves every channel  *)
(* with its stored curve, and only an overlap mixes two curves.            *)
(***************************************************************************)
EXTENDS ThermalControl, ThermCal, TLAPS

----------------------------------------------------------------------------
(* The controller *)

\* A value that is cut to an interval is in it.
LEMMA ConstrainType ==
  ASSUME NEW x \in Int, NEW lo \in Int, NEW hi \in Int, lo <= hi
  PROVE  Constrain(x, lo, hi) \in lo..hi
BY DEF Constrain

\* Rounding a fraction gives an integer.
LEMMA RoundType ==
  ASSUME NEW num \in Int, NEW den \in Nat \ {0}
  PROVE  Round(num, den) \in Int
BY DEF Round

\* Cancelling a common factor of a floor division.
LEMMA DivCancels ==
  ASSUME NEW a \in Nat, NEW b \in Nat \ {0}, NEW t \in Nat \ {0}
  PROVE  (t * a) \div (t * b) = a \div b
<1> DEFINE q == a \div b
<1>1. q \in Nat /\ b * q <= a /\ a < b * (q + 1)
  OBVIOUS
<1>2. t * b \in Nat \ {0} /\ t * a \in Nat
  OBVIOUS
<1>3. (t * b) * q <= t * a
  <2>1. t * (b * q) <= t * a
    BY <1>1
  <2> QED
    BY <2>1, <1>1
<1>4. t * a < (t * b) * (q + 1)
  <2>1. t * a < t * (b * (q + 1))
    BY <1>1
  <2> QED
    BY <2>1, <1>1
<1> HIDE DEF q
<1>5. ASSUME NEW x \in Nat, NEW d \in Nat \ {0}, NEW p \in Nat, d * p <= x, x < d * (p + 1)
      PROVE  x \div d = p
  BY <1>5
<1>6. (t * a) \div (t * b) = q
  BY <1>1, <1>2, <1>3, <1>4, <1>5
<1> QED
  BY <1>6 DEF q

\* Rounding to hundredths is monotone ...
LEMMA RoundMonotone ==
  ASSUME NEW a \in Int, NEW b \in Int, a <= b
  PROVE  Round(a, 100) <= Round(b, 100)
BY DEF Round

\* ... and does not see a common factor.
LEMMA RoundCancels ==
  ASSUME NEW s \in Int, NEW t \in Nat \ {0}
  PROVE  Round(t * s, 100 * t) = Round(s, 100)
<1>1. CASE s >= 0
  <2>1. t * s >= 0
    BY <1>1
  <2>2. Round(t * s, 100 * t) = (t * (2 * s + 100)) \div (t * 200)
    <3>1. 2 * (t * s) + 100 * t = t * (2 * s + 100) /\ 2 * (100 * t) = t * 200
      OBVIOUS
    <3> QED
      BY <2>1, <3>1 DEF Round
  <2>3. 2 * s + 100 \in Nat
    BY <1>1
  <2>4. (t * (2 * s + 100)) \div (t * 200) = (2 * s + 100) \div 200
    BY <2>3, DivCancels
  <2> QED
    BY <1>1, <2>2, <2>4 DEF Round
<1>2. CASE s < 0
  <2>1. t * s < 0
    BY <1>2
  <2>2. Round(t * s, 100 * t) = -((t * (100 - 2 * s)) \div (t * 200))
    <3>1. 100 * t - 2 * (t * s) = t * (100 - 2 * s) /\ 2 * (100 * t) = t * 200
      OBVIOUS
    <3> QED
      BY <2>1, <3>1 DEF Round
  <2>3. 100 - 2 * s \in Nat
    BY <1>2
  <2>4. (t * (100 - 2 * s)) \div (t * 200) = (100 - 2 * s) \div 200
    BY <2>3, DivCancels
  <2> QED
    BY <1>2, <2>2, <2>4 DEF Round
<1> QED
  BY <1>1, <1>2

\* The weight of an integral within its limit.
LEMMA Reach ==
  ASSUME NEW ki \in Int, NEW i \in -IMax..IMax
  PROVE  /\ ki * i \in Int /\ Abs(ki) * IMax \in Int
         /\ -(Abs(ki) * IMax) <= ki * i /\ ki * i <= Abs(ki) * IMax
<1> USE LimitsAssumption
<1>1. CASE ki >= 0
  <2>1. ki * i <= ki * IMax /\ ki * (-IMax) <= ki * i
    BY <1>1
  <2>2. ki * (-IMax) = -(ki * IMax)
    OBVIOUS
  <2> QED
    BY <1>1, <2>1, <2>2 DEF Abs
<1>2. CASE ki < 0
  <2> DEFINE m == -ki
  <2>1. m \in Nat
    BY <1>2
  <2>2. m * i <= m * IMax /\ m * (-IMax) <= m * i
    BY <2>1
  <2>3. m * (-IMax) = -(m * IMax) /\ ki * i = -(m * i)
    OBVIOUS
  <2> QED
    BY <1>2, <2>2, <2>3 DEF Abs
<1> QED
  BY <1>1, <1>2

-----------------------------------------------------------------------------
(* Types *)

\* The fields of the settings as numbers.
LEMMA SettingsType ==
  ASSUME NEW s \in Settings
  PROVE  /\ s.pid_enabled \in BOOLEAN
         /\ s.fan_manual_pct \in 0..255
         /\ s.setpoint1_c \in Int /\ s.setpoint2_c \in Int
         /\ s.pid_kp \in Int /\ s.pid_ki \in Int /\ s.pid_kd \in Int
BY SettingsAssumption DEF Settings

\* The PID law gives a percentage, whatever the settings.
LEMMA PidPctType ==
  ASSUME NEW s \in Settings, NEW err \in Int, NEW i \in Int, NEW delta \in Int,
         NEW ticks \in Nat
  PROVE  PidPct(s, err, i, delta, ticks) \in 0..100
<1> DEFINE steady == 10 * s.pid_kp * err + s.pid_ki * i + 2000
<1>1. steady \in Int
  BY SettingsType
<1>2. CASE ticks = 0
  <2> HIDE DEF steady
  <2>1. Round(steady, 100) \in Int
    BY <1>1, RoundType
  <2>2. Constrain(Round(steady, 100), 0, 100) \in 0..100
    BY <2>1 DEF Constrain
  <2> QED
    BY <1>2, <2>2 DEF PidPct, steady
<1>3. CASE ticks # 0
  <2>1. ticks * steady + 100 * s.pid_kd * delta \in Int
    BY <1>1, SettingsType
  <2>2. 100 * ticks \in Nat \ {0}
    BY <1>3
  <2> HIDE DEF steady
  <2>3. Round(ticks * steady + 100 * s.pid_kd * delta, 100 * ticks) \in Int
    BY <2>1, <2>2, RoundType
  <2>4. Constrain(Round(ticks * steady + 100 * s.pid_kd * delta, 100 * ticks), 0, 100)
          \in 0..100
    BY <2>3 DEF Constrain
  <2> QED
    BY <1>3, <2>4 DEF PidPct, steady
<1> QED
  BY <1>2, <1>3

\* Whatever percentage is asked for, target and duty are percentages.
LEMMA FanOutputType ==
  ASSUME NEW pct \in Nat, ApplyFanOutput(pct)
  PROVE  fan_target_pct' \in 0..100 /\ duty' \in 0..100
BY LimitsAssumption DEF ApplyFanOutput, Target, Driven

\* setup() leaves one of five default statuses.
LEMMA StatusType ==
  ASSUME NEW b \in Boots
  PROVE  Default(b) \in {"SystemOk", "SystemRunningCheckLogs", "GeneralError",
                         "NetworkError", "CriticalError"}
BY DEF Boots, Default, Higher, ResetStatus

\* The difference of two clock readings is a clock value.
LEMMA ElapsedType ==
  ASSUME NEW t \in Clock, NEW t0 \in Clock
  PROVE  Elapsed(t, t0) \in Clock
BY ClockAssumption DEF Elapsed, Clock

\* Where a sensor works, the temperature is a number.
LEMMA HottestType ==
  ASSUME temp1 \in Readings \cup {NaN}, temp2 \in Readings \cup {NaN}, Hottest # NaN
  PROVE  Hottest \in Int
BY ReadingsAssumption DEF Hottest

\* Assigning the next field of a request leaves settings that are settings
\* and a request that is one, or finished.
LEMMA WriteFieldType ==
  ASSUME settings \in Settings, edit = NoEdit \/ edit \in Edits, WriteField
  PROVE  settings' \in Settings /\ (edit' = NoEdit \/ edit' \in Edits)
<1>1. PICK n \in DOMAIN Order :
        /\ Order[n] \in DOMAIN edit
        /\ settings' = [settings EXCEPT ![Order[n]] = edit[Order[n]]]
        /\ edit' = [f \in DOMAIN edit \ {Order[n]} |-> edit[f]]
  BY DEF WriteField
<1>2. edit # NoEdit
  BY <1>1 DEF NoEdit
<1>3. PICK F \in SUBSET Carried, wish \in Settings : edit = [f \in F |-> wish[f]]
  BY <1>2 DEF Edits
<1>4. settings' = [settings EXCEPT ![Order[n]] = wish[Order[n]]]
  BY <1>1, <1>3
<1>5. n \in 1..7
  BY DEF Order
<1>6. settings' \in Settings
  <2>1. CASE n = 1
    BY <1>4, <2>1 DEF Order, Settings
  <2>2. CASE n = 2
    BY <1>4, <2>2 DEF Order, Settings
  <2>3. CASE n = 3
    BY <1>4, <2>3 DEF Order, Settings
  <2>4. CASE n = 4
    BY <1>4, <2>4 DEF Order, Settings
  <2>5. CASE n = 5
    BY <1>4, <2>5 DEF Order, Settings
  <2>6. CASE n = 6
    BY <1>4, <2>6 DEF Order, Settings
  <2>7. CASE n = 7
    BY <1>4, <2>7 DEF Order, Settings
  <2> QED
    BY <1>5, <2>1, <2>2, <2>3, <2>4, <2>5, <2>6, <2>7
<1>7. edit' = NoEdit \/ edit' \in Edits
  <2> DEFINE G == F \ {Order[n]}
  <2>1. edit' = [f \in G |-> wish[f]] /\ G \in SUBSET Carried
    BY <1>1, <1>3
  <2>2. CASE G = {}
    <3>1. [f \in G |-> wish[f]] = [f \in {} |-> 0]
      <4>1. \A g : g = {} => [f \in g |-> wish[f]] = [f \in {} |-> 0]
        OBVIOUS
      <4> QED
        BY <2>2, <4>1, Zenon
    <3> QED
      BY <2>1, <3>1, Zenon DEF NoEdit
  <2>3. CASE G # {}
    <3>1. G \in (SUBSET Carried) \ {{}}
      BY <2>1, <2>3
    <3> QED
      BY <2>1, <3>1 DEF Edits
  <2> QED
    BY <2>2, <2>3
<1> QED
  BY <1>6, <1>7

\* Every variable keeps its type: the integral stays within its limit, the
\* target is a percentage, and the controller computes on a real temperature.
THEOREM TypeCorrect == Spec => []TypeOK
<1>1. Init => TypeOK
  <2> SUFFICES ASSUME Init PROVE TypeOK
    OBVIOUS
  <2>1. settings \in Settings /\ boot \in BootOutcomes /\ boot \in Boots
    BY SettingsAssumption DEF Init
  <2>2. fan_target_pct \in 0..100
    BY <2>1, SettingsType DEF Init, Target
  <2>3. duty \in 0..100
    BY <2>2, LimitsAssumption DEF Init, Driven
  <2>4. 0 \in Clock /\ 0 \in 0..MaxLag /\ 0 \in -IMax..IMax
    BY ClockAssumption, LimitsAssumption DEF Clock
  <2>5. led \in {"SystemOk", "SystemRunningCheckLogs", "GeneralError", "NetworkError",
                 "ThermalError", "CriticalError"}
    BY <2>1, StatusType DEF Init
  <2> QED
    BY <2>1, <2>2, <2>3, <2>4, <2>5 DEF Init, TypeOK
<1>2. TypeOK /\ [Next]_vars => TypeOK'
  <2> SUFFICES ASSUME TypeOK, [Next]_vars PROVE TypeOK'
    OBVIOUS
  <2> USE DEF TypeOK
  <2>a. UNCHANGED tempVars => Hottest' = Hottest
    BY DEF Hottest, tempVars
  <2>1. ASSUME NEW e \in Edits, BeginEdit(e) PROVE TypeOK'
    BY <2>1, <2>a DEF BeginEdit, tempVars, fanVars, pidVars, timeVars
  <2>2. CASE WriteField
    <3>1. settings' \in Settings /\ (edit' = NoEdit \/ edit' \in Edits)
      BY <2>2, WriteFieldType
    <3> QED
      BY <2>2, <2>a, <3>1 DEF WriteField, tempVars, fanVars, pidVars, timeVars
  <2>3. CASE Skip
    BY <2>3, LimitsAssumption DEF Skip, tempVars, fanVars, pidVars
  <2>4. ASSUME NEW t1 \in Readings \cup {NaN}, NEW t2 \in Readings \cup {NaN}, Sample(t1, t2)
        PROVE  TypeOK'
    BY <2>4, LimitsAssumption DEF Sample, fanVars, pidVars
  <2>5. CASE StartControl
    <3>1. dt' \in Clock \cup {1}
      <4>1. Elapsed(now, pid_prev_ms) \in Clock
        BY ElapsedType
      <4> QED
        BY <2>5, <4>1 DEF StartControl
    <3>2. lpc' \in {"pid", "manual"} => Hottest' # NaN
      BY <2>5, <2>a DEF StartControl
    <3> QED
      BY <2>5, <3>1, <3>2 DEF StartControl, tempVars, fanVars, pidVars, timeVars
  <2>6. CASE RunPid
    <3> DEFINE err == Hottest - settings.setpoint1_c
    <3>1. Hottest \in Int /\ settings.setpoint1_c \in Int
      BY <2>6, HottestType, SettingsType DEF RunPid
    <3>2. err \in Int /\ dt \in Nat /\ pid_i \in Int
      BY <3>1, LimitsAssumption, ClockAssumption DEF Clock
    <3>3. pid_i' \in -IMax..IMax
      <4> DEFINE sum == pid_i + err * dt
      <4>1. sum \in Int
        BY <3>2
      <4>2. pid_i' = Constrain(sum, -IMax, IMax)
        BY <2>6 DEF RunPid
      <4>3. -IMax \in Int /\ IMax \in Int /\ -IMax <= IMax
        BY LimitsAssumption
      <4> HIDE DEF sum
      <4> QED
        BY <4>1, <4>2, <4>3, ConstrainType
    <3>4. PidPct(settings, err, pid_i', err - pid_prev_err, dt) \in 0..100
      BY <3>2, <3>3, PidPctType, LimitsAssumption
    <3>5. fan_target_pct' \in 0..100 /\ duty' \in 0..100
      BY <2>6, <3>4, FanOutputType DEF RunPid
    <3>6. pid_prev_err' \in Int
      BY <2>6, <3>2 DEF RunPid
    <3>7. 0 \in Clock
      BY ClockAssumption DEF Clock
    <3> QED
      BY <2>6, <3>3, <3>5, <3>6, <3>7 DEF RunPid, tempVars, timeVars
  <2>7. CASE RunManual
    <3>1. fan_target_pct' \in 0..100 /\ duty' \in 0..100
      BY <2>7, FanOutputType, SettingsType DEF RunManual
    <3>2. 0 \in Clock
      BY ClockAssumption DEF Clock
    <3> QED
      BY <2>7, <3>1, <3>2 DEF RunManual, tempVars, pidVars, timeVars
  <2>8. CASE ShowStatus
    <3>1. led' \in {"SystemOk", "SystemRunningCheckLogs", "GeneralError", "NetworkError",
                    "ThermalError", "CriticalError"}
      <4>1. Default(boot) \in {"SystemOk", "SystemRunningCheckLogs", "GeneralError",
                               "NetworkError", "CriticalError"}
        BY StatusType, SettingsAssumption
      <4> QED
        BY <2>8, <4>1 DEF ShowStatus, Higher
    <3>2. 0 \in Clock
      BY ClockAssumption DEF Clock
    <3> QED
      BY <2>8, <3>1, <3>2 DEF ShowStatus, tempVars, fanVars, pidVars, timeVars
  <2>9. CASE Tick
    <3>1. now' \in Clock /\ lag' \in 0..MaxLag
      BY <2>9, ClockAssumption, LimitsAssumption DEF Tick, NextTick, Clock
    <3> QED
      BY <2>9, <2>a, <3>1 DEF Tick, tempVars, fanVars, pidVars
  <2>10. CASE UNCHANGED vars
    BY <2>10, <2>a DEF vars, tempVars, fanVars, pidVars, timeVars
  <2> QED
    BY <2>1, <2>2, <2>3, <2>4, <2>5, <2>6, <2>7, <2>8, <2>9, <2>10 DEF Next, Loop
<1> QED
  BY <1>1, <1>2, PTL DEF Spec

-----------------------------------------------------------------------------
(* What the past may weigh *)

\* Without a derivative gain the interval does not matter: the law is the
\* proportional one and the integral.
LEMMA PidWithoutDerivative ==
  ASSUME NEW s \in Settings, s.pid_kd = 0, NEW err \in Int, NEW i \in Int,
         NEW delta \in Int, NEW ticks \in Nat
  PROVE  PidPct(s, err, i, delta, ticks) =
           Constrain(Round(10 * s.pid_kp * err + s.pid_ki * i + 2000, 100), 0, 100)
<1> DEFINE steady == 10 * s.pid_kp * err + s.pid_ki * i + 2000
<1>1. steady \in Int
  BY SettingsType
<1>2. 100 * s.pid_kd * delta = 0
  OBVIOUS
<1>3. CASE ticks = 0
  BY <1>3 DEF PidPct
<1>4. CASE ticks # 0
  <2> HIDE DEF steady
  <2>1. ticks * steady + 100 * s.pid_kd * delta = ticks * steady
    BY <1>1, <1>2
  <2>2. Round(ticks * steady, 100 * ticks) = Round(steady, 100)
    BY ZenonT(60), <1>1, <1>4, RoundCancels
  <2> QED
    BY <1>4, <2>1, <2>2 DEF PidPct, steady
<1> QED
  BY <1>3, <1>4

\* One pass of the controller.
LEMMA StepPastWeighsLittle ==
  ASSUME TypeOK, TypeOK', RunPid, settings.pid_kd = 0
  PROVE  LET err == Hottest - settings.setpoint1_c
             base == 10 * settings.pid_kp * err + 2000
             reach == Abs(settings.pid_ki) * IMax
         IN  /\ fan_target_pct' >= Constrain(Round(base - reach, 100), 0, 100)
             /\ fan_target_pct' <= Constrain(Round(base + reach, 100), 0, 100)
<1> DEFINE err == Hottest - settings.setpoint1_c
           base == 10 * settings.pid_kp * err + 2000
           reach == Abs(settings.pid_ki) * IMax
           weight == settings.pid_ki * pid_i'
<1>1. settings \in Settings /\ settings.pid_kp \in Int /\ settings.pid_ki \in Int
  BY SettingsType DEF TypeOK
<1>2. err \in Int /\ pid_prev_err \in Int /\ dt \in Nat
  <2>1. Hottest \in Int
    BY HottestType DEF TypeOK, RunPid
  <2> QED
    BY <2>1, SettingsType, ClockAssumption DEF TypeOK, Clock
<1>3. pid_i' \in -IMax..IMax /\ pid_i' \in Int
  BY LimitsAssumption DEF TypeOK
<1>4. weight \in Int /\ reach \in Int /\ -reach <= weight /\ weight <= reach
  BY <1>1, <1>3, Reach
<1>5. base \in Int
  BY <1>1, <1>2
<1>6. fan_target_pct' = Target(PidPct(settings, err, pid_i', err - pid_prev_err, dt))
  BY DEF RunPid, ApplyFanOutput
<1>7. PidPct(settings, err, pid_i', err - pid_prev_err, dt)
        = Constrain(Round(base + weight, 100), 0, 100)
  <2>1. err - pid_prev_err \in Int
    BY <1>2
  <2>2. 10 * settings.pid_kp * err + settings.pid_ki * pid_i' + 2000 = base + weight
    BY <1>1, <1>2, <1>3
  <2> HIDE DEF err, base, weight
  <2>3. PidPct(settings, err, pid_i', err - pid_prev_err, dt)
          = Constrain(Round(10 * settings.pid_kp * err + settings.pid_ki * pid_i' + 2000, 100),
                      0, 100)
    BY <1>1, <1>2, <1>3, <2>1, PidWithoutDerivative
  <2> QED
    BY <2>2, <2>3
<1> HIDE DEF err, base, reach, weight
<1>8. /\ base - reach \in Int /\ base + reach \in Int /\ base + weight \in Int
      /\ base - reach <= base + weight /\ base + weight <= base + reach
  BY <1>4, <1>5
<1>9. /\ Round(base - reach, 100) <= Round(base + weight, 100)
      /\ Round(base + weight, 100) <= Round(base + reach, 100)
  BY <1>8, RoundMonotone
<1>10. /\ Round(base - reach, 100) \in Int /\ Round(base + weight, 100) \in Int
       /\ Round(base + reach, 100) \in Int
  BY <1>8, RoundType
<1>11. fan_target_pct' = Constrain(Round(base + weight, 100), 0, 100)
  BY <1>6, <1>7, <1>10 DEF Target, Constrain
<1>12. /\ fan_target_pct' >= Constrain(Round(base - reach, 100), 0, 100)
       /\ fan_target_pct' <= Constrain(Round(base + reach, 100), 0, 100)
  BY <1>9, <1>10, <1>11 DEF Constrain
<1> QED
  BY <1>12 DEF err, base, reach

\* However long the cold or the spell of manual control before it, a pass of
\* the controller is within |ki| * IMax of the proportional law.
THEOREM PastIsBounded == Spec => PastWeighsLittle
<1>1. TypeOK /\ TypeOK' =>
        (RunPid /\ settings.pid_kd = 0 =>
           LET err == Hottest - settings.setpoint1_c
               base == 10 * settings.pid_kp * err + 2000
               reach == Abs(settings.pid_ki) * IMax
           IN  /\ fan_target_pct' >= Constrain(Round(base - reach, 100), 0, 100)
               /\ fan_target_pct' <= Constrain(Round(base + reach, 100), 0, 100))
  BY StepPastWeighsLittle
<1> QED
  BY <1>1, TypeCorrect, PTL DEF PastWeighsLittle

----------------------------------------------------------------------------
(* The calibration of the thermistors: types *)

\* A stored curve is a curve.
LEMMA StoredType ==
  ASSUME CalTypeOK, NEW ch \in Channels
  PROVE  Stored(ch) \in Curve /\ Stored(ch).nominal = Stored(ch).beta
BY DEF CalTypeOK, Stored, Curve, Base, Whole, Numbers

\* The assumption on the constants makes 1 a channel.
LEMMA FirstChannel == 1 \in Channels
BY CalAssumption DEF Channels

\* A capture leaves a session.
LEMMA CaptureType ==
  ASSUME CalTypeOK, NEW ch \in Channels, NEW point \in Points, NEW actual \in Temps,
         TakePoint(ch, point, actual)
  PROVE  CalTypeOK'
<1> DEFINE c == [channel |-> ch, actual |-> actual]
<1>1. {c} \subseteq Capture
  BY DEF Capture
<1> HIDE DEF c
<1>2. session' = IF point = "low" THEN [session EXCEPT !.low = {c}]
                                  ELSE [session EXCEPT !.high = {c}]
  BY DEF TakePoint, c
<1>3. session'.active \in BOOLEAN /\ session'.channel \in Channels
      /\ session' = [active |-> session'.active, channel |-> session'.channel,
                     low |-> session'.low, high |-> session'.high]
      /\ session'.low \subseteq Capture /\ session'.high \subseteq Capture
  BY <1>1, <1>2 DEF CalTypeOK
<1> QED
  BY <1>3 DEF TakePoint, CalTypeOK, loopVars, history

\* Nothing but fits of the configured set is stored.
LEMMA CalibrationType ==
  ASSUME CalTypeOK, NEW ch \in Channels
  PROVE  Solve(ch) \/ Clear(ch) => CalTypeOK'
<1>1. ASSUME Solve(ch) PROVE CalTypeOK'
  <2>1. thermistors' \in [Channels -> [valid : BOOLEAN, fit : Numbers]]
    <3>1. PICK fit \in Fits : thermistors' = [thermistors EXCEPT ![ch] = [valid |-> TRUE, fit |-> fit]]
      BY <1>1 DEF Solve
    <3> QED
      BY <3>1 DEF CalTypeOK, Numbers
  <2> QED
    BY <1>1, <2>1, FirstChannel DEF Solve, Rewrite, NoSession, CalTypeOK, loopVars
<1>2. ASSUME Clear(ch) PROVE CalTypeOK'
  <2>1. thermistors' \in [Channels -> [valid : BOOLEAN, fit : Numbers]]
    BY <1>2 DEF Clear, CalTypeOK, Numbers
  <2> QED
    BY <1>2, <2>1, FirstChannel DEF Clear, Rewrite, NoSession, CalTypeOK, loopVars
<1> QED
  BY <1>1, <1>2

\* One assignment of refreshThermistorParams.
LEMMA AssignType ==
  ASSUME CalTypeOK, NEW step, NEW field \in Curve, NEW next, Assign(step, field, next),
         next \in {"base_beta", "nominal", "beta", "next"}
  PROVE  CalTypeOK'
<1>1. params' \in [Channels -> Curve]
  BY DEF Assign, CalTypeOK
<1> QED
  BY <1>1 DEF Assign, CalTypeOK, loopVars, history

LEMMA RefreshType ==
  ASSUME CalTypeOK, Refresh
  PROVE  CalTypeOK'
<1>1. hch \in Channels /\ params[hch] \in Curve /\ thermistors[hch].fit \in Numbers /\ 0 \in Numbers
  BY DEF CalTypeOK, Numbers
<1>2. \A n \in Numbers : /\ [params[hch] EXCEPT !.nominal = n] \in Curve
                         /\ [params[hch] EXCEPT !.beta = n] \in Curve
  BY <1>1 DEF Curve
<1>3. Base.nominal \in Numbers /\ Base.beta \in Numbers
  BY DEF Base, Whole, Numbers
<1>4. CASE Assign("base_nominal", [params[hch] EXCEPT !.nominal = Base.nominal], "base_beta")
  BY <1>2, <1>3, <1>4, AssignType
<1>5. CASE Assign("base_beta", [params[hch] EXCEPT !.beta = Base.beta],
                  IF thermistors[hch].valid THEN "nominal" ELSE "next")
  BY <1>2, <1>3, <1>5, AssignType
<1>6. CASE Assign("nominal", [params[hch] EXCEPT !.nominal = thermistors[hch].fit], "beta")
  BY <1>1, <1>2, <1>6, AssignType
<1>7. CASE Assign("beta", [params[hch] EXCEPT !.beta = thermistors[hch].fit], "next")
  BY <1>1, <1>2, <1>7, AssignType
<1>8. CASE NextChannel
  <2>1. hch' \in Channels
    <3>1. hch \in 1..NChannels
      BY DEF CalTypeOK, Channels
    <3>2. hch' = IF hch < NChannels THEN hch + 1 ELSE 1
      BY <1>8 DEF NextChannel
    <3> QED
      BY <3>1, <3>2, CalAssumption DEF Channels
  <2> QED
    BY <1>8, <2>1 DEF NextChannel, CalTypeOK, loopVars, history
<1> QED
  BY <1>4, <1>5, <1>6, <1>7, <1>8 DEF Refresh

LEMMA ReadingType ==
  ASSUME CalTypeOK, ReadNominal \/ ReadBeta
  PROVE  CalTypeOK'
<1>1. CASE ReadNominal
  <2>1. half' \in Numbers
    BY <1>1 DEF ReadNominal, CalTypeOK, Curve
  <2> QED
    BY <1>1, <2>1 DEF ReadNominal, CalTypeOK, handlerVars
<1>2. CASE ReadBeta
  <2>1. lch' \in Channels
    <3>1. lch \in 1..NChannels
      BY DEF CalTypeOK, Channels
    <3>2. lch' = IF lch < NChannels THEN lch + 1 ELSE 1
      BY <1>2 DEF ReadBeta
    <3> QED
      BY <3>1, <3>2, CalAssumption DEF Channels
  <2>2. used' \in [Channels -> Curve]
    BY <1>2 DEF ReadBeta, CalTypeOK, Curve
  <2>3. overlapped' \in [Channels -> BOOLEAN]
    BY <1>2 DEF ReadBeta, CalTypeOK
  <2> QED
    BY <1>2, <2>1, <2>2, <2>3 DEF ReadBeta, CalTypeOK, handlerVars
<1> QED
  BY <1>1, <1>2

\* The types of the session, the curves and the two tasks.
THEOREM CalTypeCorrect == CalSpec => []CalTypeOK
<1>1. CalInit => CalTypeOK
  <2> SUFFICES ASSUME CalInit PROVE CalTypeOK
    OBVIOUS
  <2>1. thermistors \in [Channels -> [valid : BOOLEAN, fit : Numbers]]
    <3>1. [valid |-> FALSE, fit |-> 0] \in [valid : BOOLEAN, fit : Numbers]
      BY DEF Numbers
    <3>2. ASSUME NEW t \in [valid : {TRUE}, fit : Fits]
          PROVE  t \in [valid : BOOLEAN, fit : Numbers]
      <4>1. t = [valid |-> t.valid, fit |-> t.fit] /\ t.valid \in BOOLEAN /\ t.fit \in Numbers
        BY DEF Numbers
      <4> QED
        BY <4>1
    <3>3. \A ch \in Channels : thermistors[ch] \in [valid : BOOLEAN, fit : Numbers]
      BY <3>1, <3>2 DEF CalInit
    <3> QED
      BY <3>3 DEF CalInit
  <2>2. \A ch \in Channels : Stored(ch) \in Curve
    BY <2>1 DEF Stored, Curve, Base, Whole, Numbers
  <2>3. params \in [Channels -> Curve]
    BY <2>2 DEF CalInit
  <2> QED
    BY <2>1, <2>3, FirstChannel DEF CalInit, CalTypeOK, NoSession, Numbers
<1>2. CalTypeOK /\ [CalNext]_calVars => CalTypeOK'
  <2> SUFFICES ASSUME CalTypeOK, [CalNext]_calVars PROVE CalTypeOK'
    OBVIOUS
  <2>1. ASSUME NEW ch \in Channels, Request(ch) PROVE CalTypeOK'
    <3>1. CASE Start(ch) \/ Cancel(ch)
      <4>1. CASE Start(ch)
        BY <4>1, FirstChannel DEF Start, NoSession, CalTypeOK, loopVars, history
      <4>2. CASE Cancel(ch)
        BY <4>2, FirstChannel DEF Cancel, NoSession, CalTypeOK, loopVars, history
      <4> QED
        BY <3>1, <4>1, <4>2
    <3>2. CASE Solve(ch) \/ Clear(ch)
      BY <3>2, CalibrationType
    <3>3. ASSUME NEW point \in Points, NEW actual \in Temps, TakePoint(ch, point, actual)
          PROVE  CalTypeOK'
      BY <3>3, CaptureType
    <3> QED
      BY <2>1, <3>1, <3>2, <3>3 DEF Request
  <2>2. CASE UNCHANGED calVars
    BY <2>2 DEF calVars, handlerVars, loopVars, history, CalTypeOK
  <2> QED
    BY <2>1, <2>2, RefreshType, ReadingType DEF CalNext
<1> QED
  BY <1>1, <1>2, PTL DEF CalSpec

----------------------------------------------------------------------------
(* The session *)

\* Whoever starts, cancels and captures in whatever order, what is solved for a
\* channel was captured on that channel (/api/therm/calibration).
THEOREM CapturesAreOfTheChannel == CalSpec => []CapturesOfChannel
<1>1. CalInit => CapturesOfChannel
  BY DEF CalInit, NoSession, CapturesOfChannel
<1>2. CalTypeOK /\ CapturesOfChannel /\ [CalNext]_calVars => CapturesOfChannel'
  <2> SUFFICES ASSUME CalTypeOK, CapturesOfChannel, [CalNext]_calVars PROVE CapturesOfChannel'
    OBVIOUS
  <2>1. ASSUME NEW ch \in Channels, Request(ch) PROVE CapturesOfChannel'
    <3>1. CASE Start(ch)
      <4>1. session'.low = {} /\ session'.high = {}
        BY <3>1 DEF Start, NoSession
      <4> QED
        BY <4>1 DEF CapturesOfChannel
    <3>2. CASE session' = NoSession \/ session' = session
      BY <3>2 DEF NoSession, CapturesOfChannel
    <3>3. CASE Cancel(ch) \/ Solve(ch) \/ Clear(ch)
      BY <3>2, <3>3 DEF Cancel, Solve, Clear
    <3>4. ASSUME NEW point \in Points, NEW actual \in Temps, TakePoint(ch, point, actual)
          PROVE  CapturesOfChannel'
      <4> DEFINE c == [channel |-> ch, actual |-> actual]
      <4>1. c.channel = ch
        OBVIOUS
      <4> HIDE DEF c
      <4>2. session' = IF point = "low" THEN [session EXCEPT !.low = {c}]
                                        ELSE [session EXCEPT !.high = {c}]
        BY <3>4 DEF TakePoint, c
      <4>3. session'.channel = session.channel
            /\ session'.low \cup session'.high \subseteq session.low \cup session.high \cup {c}
        BY <4>2 DEF CalTypeOK
      <4>4. session.channel = ch
        BY <3>4 DEF TakePoint, Mine
      <4> QED
        BY <4>1, <4>3, <4>4 DEF CapturesOfChannel
    <3> QED
      BY <2>1, <3>1, <3>3, <3>4 DEF Request
  <2>2. CASE Refresh \/ ReadNominal \/ ReadBeta \/ UNCHANGED calVars
    <3>1. session' = session
      BY <2>2 DEF Refresh, Assign, NextChannel, ReadNominal, ReadBeta, handlerVars, calVars
    <3> QED
      BY <3>1 DEF CapturesOfChannel
  <2> QED
    BY <2>1, <2>2 DEF CalNext
<1> QED
  BY <1>1, <1>2, CalTypeCorrect, PTL DEF CalSpec

----------------------------------------------------------------------------
(* The curves.  While they are rewritten, the channels before hch are done,  *)
(* and hch itself is as far as hpc says.                                     *)

Progress(ch) ==
  /\ hpc = "base_beta" => params[ch].nominal = Base.nominal
  /\ hpc \in {"nominal", "beta"} => thermistors[ch].valid
  /\ hpc = "beta" => params[ch].nominal = thermistors[ch].fit
  /\ hpc = "next" => params[ch] = Stored(ch)

Rewritten ==
  /\ hpc = "idle" => \A ch \in Channels : params[ch] = Stored(ch)
  /\ hpc # "idle" => Progress(hch) /\ \A ch \in Channels : ch < hch => params[ch] = Stored(ch)

\* A step that leaves the handler's variables alone.
LEMMA RewrittenStays ==
  ASSUME Rewritten, UNCHANGED <<hpc, hch, params, thermistors>>
  PROVE  Rewritten'
BY DEF Rewritten, Progress, Stored

\* A curve of which one number is replaced.
LEMMA Replaced ==
  ASSUME NEW c \in Curve, NEW n
  PROVE  /\ [c EXCEPT !.nominal = n] = [nominal |-> n, beta |-> c.beta]
         /\ [c EXCEPT !.beta = n] = [nominal |-> c.nominal, beta |-> n]
BY DEF Curve

\* An assignment changes the curve of hch and nothing of the others.
LEMMA AssignStep ==
  ASSUME CalTypeOK, Rewritten, NEW step, NEW field, NEW next, Assign(step, field, next),
         step # "idle", next # "idle"
  PROVE  /\ hch' = hch /\ hpc' = next /\ hpc = step /\ thermistors' = thermistors
         /\ params'[hch] = field
         /\ Progress(hch)' => Rewritten'
<1>1. hch' = hch /\ hpc' = next /\ hpc = step /\ thermistors' = thermistors
      /\ params' = [params EXCEPT ![hch] = field]
  BY DEF Assign
<1>2. hch \in 1..NChannels /\ params \in [Channels -> Curve]
  BY DEF CalTypeOK, Channels
<1>3. params'[hch] = field
  BY <1>1, <1>2 DEF Channels
<1>4. ASSUME NEW ch \in Channels, ch < hch
      PROVE  params'[ch] = Stored(ch)'
  <2>1. ch # hch
    BY <1>2, <1>4, CalAssumption DEF Channels
  <2>2. params'[ch] = params[ch] /\ params[ch] = Stored(ch)
    BY <1>1, <1>2, <1>4, <2>1 DEF Rewritten
  <2> QED
    BY <1>1, <2>2 DEF Stored
<1> QED
  BY <1>1, <1>3, <1>4 DEF Rewritten

LEMMA RewrittenRefresh ==
  ASSUME CalTypeOK, Rewritten, Refresh
  PROVE  Rewritten'
<1> DEFINE old == params[hch]
           fit == thermistors[hch].fit
<1>1. hch \in Channels /\ old \in Curve
  BY DEF CalTypeOK
<1>2. \A n : /\ [old EXCEPT !.nominal = n] = [nominal |-> n, beta |-> old.beta]
             /\ [old EXCEPT !.beta = n] = [nominal |-> old.nominal, beta |-> n]
  BY <1>1, Replaced
<1>0. Base.nominal = 0 /\ Base.beta = 0 /\ Base = [nominal |-> 0, beta |-> 0]
  BY DEF Base, Whole
<1>3. CASE Assign("base_nominal", [old EXCEPT !.nominal = Base.nominal], "base_beta")
  <2>1. Assign("base_nominal", [nominal |-> 0, beta |-> old.beta], "base_beta")
    BY <1>0, <1>2, <1>3
  <2>2. hch' = hch /\ hpc' = "base_beta" /\ (Progress(hch)' => Rewritten')
        /\ params'[hch] = [nominal |-> 0, beta |-> old.beta]
    BY <2>1, AssignStep
  <2>3. params'[hch].nominal = 0
    BY <2>2
  <2> QED
    BY <1>0, <2>2, <2>3 DEF Progress
<1>4. CASE Assign("base_beta", [old EXCEPT !.beta = Base.beta],
                  IF thermistors[hch].valid THEN "nominal" ELSE "next")
  <2> DEFINE next == IF thermistors[hch].valid THEN "nominal" ELSE "next"
  <2>1. Assign("base_beta", [nominal |-> old.nominal, beta |-> 0], next)
    BY <1>0, <1>2, <1>4
  <2>2. next # "idle" /\ (thermistors[hch].valid => next = "nominal")
        /\ (~thermistors[hch].valid => next = "next")
    OBVIOUS
  <2> HIDE DEF next
  <2>3. hch' = hch /\ hpc = "base_beta" /\ hpc' = next /\ thermistors' = thermistors
        /\ params'[hch] = [nominal |-> old.nominal, beta |-> 0]
        /\ (Progress(hch)' => Rewritten')
    BY <2>1, <2>2, AssignStep
  <2>4. old.nominal = 0
    BY <1>0, <2>3 DEF Rewritten, Progress
  <2>5. params'[hch] = Base
    BY <1>0, <2>3, <2>4
  <2>6. CASE thermistors[hch].valid
    BY <2>2, <2>3, <2>6 DEF Progress
  <2>7. CASE ~thermistors[hch].valid
    <3>1. Stored(hch)' = Base
      BY <2>3, <2>7 DEF Stored
    <3> QED
      BY <2>2, <2>3, <2>5, <2>7, <3>1 DEF Progress
  <2> QED
    BY <2>6, <2>7
<1>5. CASE Assign("nominal", [old EXCEPT !.nominal = fit], "beta")
  <2>1. Assign("nominal", [nominal |-> fit, beta |-> old.beta], "beta")
    BY <1>2, <1>5
  <2>2. hch' = hch /\ hpc = "nominal" /\ hpc' = "beta" /\ thermistors' = thermistors
        /\ params'[hch] = [nominal |-> fit, beta |-> old.beta]
        /\ (Progress(hch)' => Rewritten')
    BY <2>1, AssignStep
  <2>3. params'[hch].nominal = fit /\ thermistors[hch].valid
    BY <2>2 DEF Progress, Rewritten
  <2> QED
    BY <2>2, <2>3 DEF Progress
<1>6. CASE Assign("beta", [old EXCEPT !.beta = fit], "next")
  <2>1. Assign("beta", [nominal |-> old.nominal, beta |-> fit], "next")
    BY <1>2, <1>6
  <2>2. hch' = hch /\ hpc = "beta" /\ hpc' = "next" /\ thermistors' = thermistors
        /\ params'[hch] = [nominal |-> old.nominal, beta |-> fit]
        /\ (Progress(hch)' => Rewritten')
    BY <2>1, AssignStep
  <2>3. thermistors[hch].valid /\ old.nominal = fit
    BY <2>2 DEF Rewritten, Progress
  <2>4. params'[hch] = Whole(fit)
    BY <2>2, <2>3 DEF Whole
  <2>5. Stored(hch)' = Whole(fit)
    BY <2>2, <2>3 DEF Stored, Whole
  <2> QED
    BY <2>2, <2>4, <2>5 DEF Progress
<1>7. CASE NextChannel
  <2>1. hpc = "next" /\ params' = params /\ thermistors' = thermistors
        /\ hch' = (IF hch < NChannels THEN hch + 1 ELSE 1)
        /\ hpc' = (IF hch < NChannels THEN "base_nominal" ELSE "idle")
    BY <1>7 DEF NextChannel
  <2>2. hch \in 1..NChannels /\ NChannels \in Nat
    BY <1>1, CalAssumption DEF Channels
  <2>3. \A ch \in Channels : ch <= hch => params'[ch] = Stored(ch)'
    <3>1. params[hch] = Stored(hch) /\ \A ch \in Channels : ch < hch => params[ch] = Stored(ch)
      BY <2>1 DEF Rewritten, Progress
    <3>2. \A ch \in Channels : ch <= hch => ch < hch \/ ch = hch
      BY <2>2 DEF Channels
    <3> QED
      BY <2>1, <3>1, <3>2 DEF Stored
  <2>4. CASE hch < NChannels
    <3>1. hpc' = "base_nominal" /\ Progress(hch)'
      BY <2>1, <2>4 DEF Progress
    <3>2. \A ch \in 1..NChannels : ch < hch + 1 => ch <= hch
      BY <2>2
    <3> QED
      BY <2>1, <2>3, <2>4, <3>1, <3>2 DEF Rewritten, Channels
  <2>5. CASE ~(hch < NChannels)
    <3>1. \A ch \in 1..NChannels : ch <= hch
      BY <2>2, <2>5
    <3> QED
      BY <2>1, <2>3, <2>5, <3>1 DEF Rewritten, Channels
  <2> QED
    BY <2>4, <2>5
<1> QED
  BY <1>3, <1>4, <1>5, <1>6, <1>7 DEF Refresh

\* A rewrite begins with the first channel, and nothing is said of the others.
LEMMA RewrittenBegins ==
  ASSUME Rewrite
  PROVE  Rewritten'
<1>1. hpc' = "base_nominal" /\ hch' = 1
  BY DEF Rewrite
<1>2. \A ch \in 1..NChannels : ~(ch < 1)
  BY CalAssumption
<1>3. \A ch \in Channels : ~(ch < hch')
  BY <1>1, <1>2 DEF Channels
<1> QED
  BY <1>1, <1>3 DEF Rewritten, Progress

LEMMA RewrittenNext == CalTypeOK /\ Rewritten /\ [CalNext]_calVars => Rewritten'
<1> SUFFICES ASSUME CalTypeOK, Rewritten, [CalNext]_calVars PROVE Rewritten'
  OBVIOUS
<1>1. ASSUME NEW ch \in Channels, Request(ch) PROVE Rewritten'
  <2>1. CASE Solve(ch) \/ Clear(ch)
    BY <2>1, RewrittenBegins DEF Solve, Clear
  <2>2. CASE Start(ch) \/ Cancel(ch)
             \/ \E point \in Points, actual \in Temps : TakePoint(ch, point, actual)
    <3>1. UNCHANGED <<hpc, hch, params, thermistors>>
      BY <2>2 DEF Start, Cancel, TakePoint
    <3> QED
      BY <3>1, RewrittenStays
  <2> QED
    BY <1>1, <2>1, <2>2 DEF Request
<1>2. CASE ReadNominal \/ ReadBeta \/ UNCHANGED calVars
  <2>1. UNCHANGED <<hpc, hch, params, thermistors>>
    BY <1>2 DEF ReadNominal, ReadBeta, handlerVars, calVars
  <2> QED
    BY <2>1, RewrittenStays
<1> QED
  BY <1>1, <1>2, RewrittenRefresh DEF CalNext

LEMMA AlwaysRewritten == CalSpec => []Rewritten
<1>1. CalInit => Rewritten
  BY DEF CalInit, Rewritten
<1> QED
  BY <1>1, RewrittenNext, CalTypeCorrect, PTL DEF CalSpec

\* Once a request is done, every channel has its stored curve, also the one that
\* was not calibrated (refreshThermistorParams).
THEOREM CurvesFollowSettings == CalSpec => []CurveFollowsSettings
<1>1. Rewritten => CurveFollowsSettings
  BY DEF Rewritten, CurveFollowsSettings
<1> QED
  BY <1>1, AlwaysRewritten, PTL

----------------------------------------------------------------------------
(* The readings.  Unless the curves were rewritten meanwhile, the number the *)
(* loop has read is half of a curve that is whole.                           *)

HalfIsWhole ==
  cpc = "beta" /\ ~meanwhile => hpc = "idle" /\ half = params[lch].nominal

\* A reading mixes two curves only if a rewrite overlapped it (sampleSensors
\* against refreshThermistorParams).
THEOREM OnlyOverlapMixes == CalSpec => []MixedOnlyByOverlap
<1>1. CalInit => HalfIsWhole /\ MixedOnlyByOverlap
  <2> SUFFICES ASSUME CalInit PROVE HalfIsWhole /\ MixedOnlyByOverlap
    OBVIOUS
  <2>1. \A ch \in Channels : used[ch].nominal = used[ch].beta
    BY DEF CalInit, Stored, Base, Whole
  <2> QED
    BY <2>1 DEF CalInit, HalfIsWhole, MixedOnlyByOverlap
<1>2. CalTypeOK /\ Rewritten /\ HalfIsWhole /\ MixedOnlyByOverlap /\ [CalNext]_calVars
        => HalfIsWhole' /\ MixedOnlyByOverlap'
  <2> SUFFICES ASSUME CalTypeOK, Rewritten, HalfIsWhole, MixedOnlyByOverlap, [CalNext]_calVars
               PROVE  HalfIsWhole' /\ MixedOnlyByOverlap'
    OBVIOUS
  <2>1. ASSUME NEW ch \in Channels, Request(ch) PROVE HalfIsWhole' /\ MixedOnlyByOverlap'
    <3>1. UNCHANGED <<cpc, lch, half, used, overlapped>>
      BY <2>1 DEF Request, Start, Cancel, TakePoint, Solve, Clear, Rewrite, loopVars, history
    <3>2. CASE Solve(ch) \/ Clear(ch)
      BY <3>1, <3>2 DEF Solve, Clear, Rewrite, HalfIsWhole, MixedOnlyByOverlap
    <3>3. CASE UNCHANGED <<hpc, params, meanwhile>>
      BY <3>1, <3>3 DEF HalfIsWhole, MixedOnlyByOverlap
    <3> QED
      BY <2>1, <3>2, <3>3 DEF Request, Start, Cancel, TakePoint, history
  <2>2. CASE Refresh
    <3>1. hpc # "idle" /\ UNCHANGED <<cpc, lch, half, used, meanwhile, overlapped>>
      BY <2>2 DEF Refresh, Assign, NextChannel, loopVars, history
    <3> QED
      BY <3>1 DEF HalfIsWhole, MixedOnlyByOverlap
  <2>3. CASE ReadNominal
    BY <2>3 DEF ReadNominal, handlerVars, HalfIsWhole, MixedOnlyByOverlap, CalTypeOK
  <2>4. CASE ReadBeta
    <3>1. lch \in Channels /\ used \in [Channels -> Curve] /\ overlapped \in [Channels -> BOOLEAN]
      BY DEF CalTypeOK
    <3>2. /\ cpc = "beta" /\ cpc' = "idle"
          /\ used' = [used EXCEPT ![lch] = [nominal |-> half, beta |-> params[lch].beta]]
          /\ overlapped' = [overlapped EXCEPT ![lch] = meanwhile]
      BY <2>4 DEF ReadBeta
    <3>3. ~meanwhile => half = params[lch].beta
      <4> SUFFICES ASSUME ~meanwhile PROVE half = params[lch].beta
        OBVIOUS
      <4>1. half = params[lch].nominal /\ params[lch] = Stored(lch)
        BY <3>1, <3>2 DEF HalfIsWhole, Rewritten
      <4> QED
        BY <3>1, <4>1, StoredType
    <3>4. ASSUME NEW ch \in Channels, ~overlapped'[ch]
          PROVE  used'[ch].nominal = used'[ch].beta
      <4>1. CASE ch = lch
        BY <3>1, <3>2, <3>3, <3>4, <4>1
      <4>2. CASE ch # lch
        BY <3>1, <3>2, <3>4, <4>2 DEF MixedOnlyByOverlap
      <4> QED
        BY <4>1, <4>2
    <3> QED
      BY <3>2, <3>4 DEF HalfIsWhole, MixedOnlyByOverlap
  <2>5. CASE UNCHANGED calVars
    BY <2>5 DEF calVars, handlerVars, loopVars, history, HalfIsWhole, MixedOnlyByOverlap
  <2> QED
    BY <2>1, <2>2, <2>3, <2>4, <2>5 DEF CalNext
<1> QED
  BY <1>1, <1>2, CalTypeCorrect, AlwaysRewritten, PTL DEF CalSpec
=============================================================================
