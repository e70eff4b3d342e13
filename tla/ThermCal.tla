------------------------------ MODULE ThermCal ------------------------------
(* The calibration of the thermistors: one session that all clients share    *)
(* (/api/therm/calibration, on async_tcp), and the curve of every channel,   *)
(* which refreshThermistorParams rewrites while the loop converts readings   *)
(* with it.                                                                  *)
EXTENDS Integers

CONSTANTS
  NChannels,   \* 2 probes
  Temps,       \* temperatures of reference baths
  Fits         \* what a solve comes to, as names of curves

ASSUME CalAssumption == NChannels \in Nat \ {0} /\ Fits \subseteq Nat \ {0}

Channels == 1..NChannels
Points == {"low", "high"}

(* A curve has two numbers, its nominal resistance and its beta.  Those of   *)
(* one fit have its name, those of config.h are 0.                           *)
Numbers == Fits \cup {0}
Curve == [nominal : Numbers, beta : Numbers]
Whole(n) == [nominal |-> n, beta |-> n]
Base == Whole(0)

Capture == [channel : Channels, actual : Temps]
NoSession == [active |-> FALSE, channel |-> 1, low |-> {}, high |-> {}]

VARIABLES
  session,      \* therm_cal_session; a capture is a set of at most one
  thermistors,  \* settings.thermistors: per channel, valid and the fit
  params,       \* thermistor_params: per channel, the curve in use
  hpc,          \* the handler: "idle", or what refreshThermistorParams does next
  hch,          \* ... and for which channel
  cpc,          \* the loop's conversion: "idle", or what it reads next
  lch,          \* ... and for which channel
  half,         \* the nominal resistance it has read
  used,         \* per channel: the curve of the latest reading
  meanwhile,    \* history: the curves were rewritten during the reading in progress
  overlapped    \* history, per channel: ... during the latest reading

handlerVars == <<session, thermistors, params, hpc, hch>>
loopVars == <<cpc, lch, half, used>>
history == <<meanwhile, overlapped>>
calVars == <<handlerVars, loopVars, history>>

Stored(ch) == IF thermistors[ch].valid THEN Whole(thermistors[ch].fit) ELSE Base

CalInit ==
  /\ session = NoSession
  /\ thermistors \in [Channels -> {[valid |-> FALSE, fit |-> 0]}
                                  \cup [valid : {TRUE}, fit : Fits]]
  /\ params = [ch \in Channels |-> Stored(ch)]
  /\ hpc = "idle" /\ hch = 1 /\ cpc = "idle" /\ lch = 1 /\ half = 0
  /\ used = params
  /\ meanwhile = FALSE /\ overlapped = [ch \in Channels |-> FALSE]

----------------------------------------------------------------------------
(* Requests.  Each names its channel; one that does not means the channel of *)
(* the session, or the first.                                                *)

Mine(ch) == session.active /\ session.channel = ch

(* Mutant: captures of the session before are kept.                          *)
StartKeepsCaptures(ch) ==
  /\ hpc = "idle"
  /\ session' = [session EXCEPT !.active = TRUE, !.channel = ch]
  /\ UNCHANGED <<thermistors, params, hpc, hch, loopVars, history>>

Start(ch) ==
  /\ hpc = "idle"
  /\ session' = [NoSession EXCEPT !.active = TRUE, !.channel = ch]
  /\ UNCHANGED <<thermistors, params, hpc, hch, loopVars, history>>

Cancel(ch) ==
  /\ hpc = "idle" /\ Mine(ch)
  /\ session' = NoSession
  /\ UNCHANGED <<thermistors, params, hpc, hch, loopVars, history>>

TakePoint(ch, point, actual) ==
  /\ hpc = "idle" /\ Mine(ch)
  /\ LET c == {[channel |-> ch, actual |-> actual]}
     IN session' = IF point = "low" THEN [session EXCEPT !.low = c]
                                    ELSE [session EXCEPT !.high = c]
  /\ UNCHANGED <<thermistors, params, hpc, hch, loopVars, history>>

Rewrite == /\ hpc' = "base_nominal" /\ hch' = 1
           /\ meanwhile' = TRUE /\ UNCHANGED overlapped

(* A fit needs two captures at different temperatures.                       *)
Solve(ch) ==
  /\ hpc = "idle" /\ Mine(ch)
  /\ \E low \in session.low, high \in session.high : low.actual # high.actual
  /\ \E fit \in Fits : thermistors' = [thermistors EXCEPT ![ch] = [valid |-> TRUE, fit |-> fit]]
  /\ Rewrite
  /\ session' = NoSession
  /\ UNCHANGED <<params, loopVars>>

(* Mutant: the curve is changed without refreshThermistorParams.             *)
ClearInPlace(ch) ==
  /\ hpc = "idle"
  /\ thermistors' = [thermistors EXCEPT ![ch] = [valid |-> FALSE, fit |-> 0]]
  /\ params' = [params EXCEPT ![ch].nominal = Base.nominal]
  /\ session' = IF Mine(ch) THEN NoSession ELSE session
  /\ UNCHANGED <<hpc, hch, loopVars, history>>

Clear(ch) ==
  /\ hpc = "idle"
  /\ thermistors' = [thermistors EXCEPT ![ch] = [valid |-> FALSE, fit |-> 0]]
  /\ Rewrite
  /\ session' = IF Mine(ch) THEN NoSession ELSE session
  /\ UNCHANGED <<params, loopVars>>

(* refreshThermistorParams: per channel the struct of config.h is copied,    *)
(* then two numbers are replaced if there is a calibration.                  *)
Assign(step, field, next) ==
  /\ hpc = step
  /\ params' = [params EXCEPT ![hch] = field]
  /\ hpc' = next /\ UNCHANGED <<session, thermistors, hch, loopVars, history>>

(* Mutant: the first channel only.                                           *)
NextChannelNever ==
  /\ hpc = "next"
  /\ hch' = 1 /\ hpc' = "idle"
  /\ UNCHANGED <<session, thermistors, params, loopVars, history>>

NextChannel ==
  /\ hpc = "next"
  /\ IF hch < NChannels THEN hch' = hch + 1 /\ hpc' = "base_nominal"
                        ELSE hch' = 1 /\ hpc' = "idle"
  /\ UNCHANGED <<session, thermistors, params, loopVars, history>>

Refresh ==
  \/ Assign("base_nominal", [params[hch] EXCEPT !.nominal = Base.nominal], "base_beta")
  \/ Assign("base_beta", [params[hch] EXCEPT !.beta = Base.beta],
            IF thermistors[hch].valid THEN "nominal" ELSE "next")
  \/ Assign("nominal", [params[hch] EXCEPT !.nominal = thermistors[hch].fit], "beta")
  \/ Assign("beta", [params[hch] EXCEPT !.beta = thermistors[hch].fit], "next")
  \/ NextChannel

----------------------------------------------------------------------------
(* The loop: sampleSensors converts channel by channel; a conversion reads   *)
(* the two numbers of the curve one after the other.                         *)

ReadNominal ==
  /\ cpc = "idle" /\ half' = params[lch].nominal
  /\ cpc' = "beta"
  /\ meanwhile' = (hpc # "idle")
  /\ UNCHANGED <<handlerVars, lch, used, overlapped>>

ReadBeta ==
  /\ cpc = "beta"
  /\ used' = [used EXCEPT ![lch] = [nominal |-> half, beta |-> params[lch].beta]]
  /\ cpc' = "idle" /\ lch' = IF lch < NChannels THEN lch + 1 ELSE 1
  /\ overlapped' = [overlapped EXCEPT ![lch] = meanwhile]
  /\ UNCHANGED <<handlerVars, half, meanwhile>>

Request(ch) == \/ Start(ch) \/ Cancel(ch) \/ Solve(ch) \/ Clear(ch)
                  \/ \E point \in Points, actual \in Temps : TakePoint(ch, point, actual)

CalNext ==
  \/ \E ch \in Channels : Request(ch)
  \/ Refresh
  \/ ReadNominal \/ ReadBeta

(* A handler that has begun ends, and the loop goes round for ever.          *)
CalSpec ==
  /\ CalInit /\ [][CalNext]_calVars
  /\ WF_calVars(Refresh) /\ WF_calVars(ReadNominal) /\ WF_calVars(ReadBeta)

----------------------------------------------------------------------------
(* Properties *)

(* The types of the session, the curves and the two tasks.                   *)
CalTypeOK ==
  /\ session.active \in BOOLEAN /\ session.channel \in Channels
  /\ session = [active |-> session.active, channel |-> session.channel,
                low |-> session.low, high |-> session.high]
  /\ session.low \subseteq Capture /\ session.high \subseteq Capture
  /\ thermistors \in [Channels -> [valid : BOOLEAN, fit : Numbers]]
  /\ params \in [Channels -> Curve] /\ used \in [Channels -> Curve]
  /\ hpc \in {"idle", "base_nominal", "base_beta", "nominal", "beta", "next"}
  /\ cpc \in {"idle", "beta"} /\ hch \in Channels /\ lch \in Channels
  /\ half \in Numbers /\ meanwhile \in BOOLEAN /\ overlapped \in [Channels -> BOOLEAN]

(* Whoever starts, cancels and captures in whatever order, what is solved    *)
(* for a channel was captured on that channel.                               *)
CapturesOfChannel ==
  \A c \in session.low \cup session.high : c.channel = session.channel

(* Once a request is done, the curve in use is the one the settings have,    *)
(* for every channel and not only for the one that was calibrated.           *)
CurveFollowsSettings ==
  hpc = "idle" => \A ch \in Channels : params[ch] = Stored(ch)

(* A reading is converted with a curve that is the stored one of some time,  *)
(* unless the curves were rewritten between its first number and its second; *)
(* then it may be a mixture, of either channel.                              *)
MixedOnlyByOverlap ==
  \A ch \in Channels : ~overlapped[ch] => used[ch].nominal = used[ch].beta

(* When no more calibration is solved or cleared, readings come to be        *)
(* converted with the stored curve for good.                                 *)
ReadingsFollow ==
  <>[](hpc = "idle") => <>[](\A ch \in Channels : used[ch] = Stored(ch))
=============================================================================
