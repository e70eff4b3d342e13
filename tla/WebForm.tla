------------------------------ MODULE WebForm ------------------------------
(* The cooling form of a page (app.js) over the link: three widgets with     *)
(* their flags - the mode, the slider of the manual percentage, and one      *)
(* number field for all of them - against the state broadcasts.              *)
EXTENDS WebLink

CONSTANTS
  Percents,    \* positions of the slider, and fan targets
  Numerals,    \* what an operator types into the number field
  NoNumber,    \* the field before any broadcast has filled it
  MaxEdits     \* bound: changes to the widgets, of all pages

ASSUME FormAssumption ==
  /\ {20, 30} \subseteq Percents /\ 0 \in Numerals /\ MaxEdits \in Nat /\ NoNumber \notin Numerals
  /\ Settings = [pid : BOOLEAN, man : Percents, sp : Numerals \cup {NoNumber}]

VARIABLES
  form,   \* per page: the widgets, their flags, what was applied last
  fan,    \* state.fan_target_pct
  edits

formVars == <<form, fan, edits, linkVars>>

Forms == [pidEnabled : BOOLEAN, modeDirty : BOOLEAN, appliedPid : BOOLEAN,
          man : Percents, manDirty : BOOLEAN, appliedMan : Percents,
          sp : Numerals \cup {NoNumber}, spDirty : BOOLEAN, appliedSp : Numerals \cup {NoNumber},
          awaiting : BOOLEAN]   \* awaitingApply

FormInit ==
  /\ \E pid \in BOOLEAN, man \in Percents, sp \in Numerals :
       /\ LinkInit([pid |-> pid, man |-> man, sp |-> sp])
       /\ fan = IF pid THEN 20 ELSE man
  /\ edits = 0
  /\ form = [c \in Clients |->
       [pidEnabled |-> TRUE, modeDirty |-> FALSE, appliedPid |-> TRUE,
        man |-> 30, manDirty |-> FALSE, appliedMan |-> 30,
        sp |-> NoNumber, spDirty |-> FALSE, appliedSp |-> NoNumber,
        awaiting |-> FALSE]]

----------------------------------------------------------------------------
(* The firmware's side: a broadcast has the fan target, not the manual       *)
(* percentage; NaN travels as null, and null is read as 0.                   *)

Report(s) == [pid |-> s.pid, fan |-> fan, sp |-> s.sp]

(* Mutant: null is kept.                                                     *)
AsFloatAsItIs(s) == s

AsFloat(s) == [s EXCEPT !.sp = IF @ = NoNumber THEN 0 ELSE @]

HandleForm(c) ==
  /\ \/ HandleConnect(c, Report(applied)) \/ HandleGetState(c, Report(applied))
     \/ HandlePing(c)
     \/ HandleSettings(c, AsFloat(Sent(c)), Report(AsFloat(Sent(c))))
  /\ UNCHANGED <<form, fan, edits>>

BuildReport == BuildBroadcast(Report(applied)) /\ UNCHANGED <<form, fan, edits>>

SendReport == SendBroadcast /\ UNCHANGED <<form, fan, edits>>

(* A pass of the controller.  What the PID comes to is not this module's.    *)
ControlPass == /\ fan' \in (IF applied.pid THEN Percents ELSE {applied.man})
               /\ UNCHANGED <<form, edits, linkVars>>

----------------------------------------------------------------------------
(* What a broadcast does to the form *)

(* Mutants: a broadcast that agrees leaves the mark; one that does not is    *)
(* ignored although nothing is pending.                                      *)
ShowModeKeepsMark(f, pid) ==
  LET g == [f EXCEPT !.appliedPid = pid]
  IN IF f.modeDirty THEN g ELSE [g EXCEPT !.pidEnabled = pid]

ShowModeShy(f, pid) ==
  LET g == [f EXCEPT !.appliedPid = pid]
  IN IF f.pidEnabled # pid THEN g ELSE [g EXCEPT !.modeDirty = FALSE]

ShowMode(f, pid) ==
  LET g == [f EXCEPT !.appliedPid = pid]
  IN IF f.modeDirty /\ f.pidEnabled # pid THEN g
     ELSE [g EXCEPT !.modeDirty = FALSE, !.pidEnabled = pid]

ShowFan(f, pid, pct) ==
  LET dirty == f.manDirty /\ ~pid /\ f.man # pct
  IN [f EXCEPT !.appliedMan = pct, !.manDirty = dirty, !.man = IF dirty THEN @ ELSE pct]

ShowField(f, sp) ==
  [f EXCEPT !.appliedSp = sp, !.spDirty = @ /\ f.sp # sp,
            !.sp = IF f.spDirty THEN @ ELSE sp]

ApplyState(f, r) ==
  [ShowField(ShowFan(ShowMode(f, r.pid), r.pid, r.fan), r.sp) EXCEPT !.awaiting = FALSE]

ReceiveForm(c) ==
  \/ /\ ReceiveState(c)
     /\ form' = [form EXCEPT ![c] = ApplyState(@, Head(down[c]).state)]
     /\ UNCHANGED <<fan, edits>>
  \/ /\ ReceivePong(c)
     /\ UNCHANGED <<form, fan, edits>>

----------------------------------------------------------------------------
(* What the operator does to the form *)

ClickMode(c, pid) ==
  /\ form[c].pidEnabled # pid
  /\ form' = [form EXCEPT ![c].pidEnabled = pid,
                          ![c].modeDirty = pid # form[c].appliedPid,
                          ![c].manDirty = @ /\ ~pid]

Slide(c, pct) ==
  /\ ~form[c].pidEnabled /\ pct # form[c].man
  /\ form' = [form EXCEPT ![c].man = pct, ![c].manDirty = pct # form[c].appliedMan]

TypeNumber(c, v) ==
  /\ v # form[c].sp
  /\ form' = [form EXCEPT ![c].sp = v, ![c].spDirty = TRUE]

Edit(c) == /\ edits < MaxEdits /\ edits' = edits + 1
           /\ \/ \E pid \in BOOLEAN : ClickMode(c, pid)
              \/ \E pct \in Percents : Slide(c, pct)
              \/ \E v \in Numerals : TypeNumber(c, v)
           /\ UNCHANGED <<fan, linkVars>>

(* The flags of the mode and of the slider go down whether the message is    *)
(* sent or, offline, dropped; those of the fields only when a broadcast has  *)
(* the same number.                                                          *)
Save(c) ==
  /\ SendSettings(c, [pid |-> form[c].pidEnabled, man |-> form[c].man, sp |-> form[c].sp])
  /\ form' = [form EXCEPT ![c].awaiting = TRUE, ![c].modeDirty = FALSE, ![c].manDirty = FALSE]
  /\ UNCHANGED <<fan, edits>>

OperateForm(c) ==
  \/ Edit(c)
  \/ Save(c)
  \/ (AskState(c) \/ SendPing(c)) /\ UNCHANGED <<form, fan, edits>>

LinkAlone(c) == (TimerEnds(c) \/ Connect(c) \/ Drop(c)) /\ UNCHANGED <<form, fan, edits>>

FormNext == \/ \E c \in Clients : OperateForm(c) \/ LinkAlone(c) \/ HandleForm(c) \/ ReceiveForm(c)
            \/ BuildReport \/ SendReport \/ ControlPass

FormSpec == /\ FormInit /\ [][FormNext]_formVars
            /\ \A c \in Clients : WF_formVars(HandleForm(c)) /\ WF_formVars(ReceiveForm(c))
            /\ WF_formVars(BuildReport) /\ WF_formVars(SendReport) /\ WF_formVars(ControlPass)

----------------------------------------------------------------------------
(* Properties *)

(* Types of the form and of what travels to it.                              *)
FormTypeOK == /\ form \in [Clients -> Forms] /\ fan \in Percents /\ edits \in 0..MaxEdits
              /\ LinkTypeOK([pid : BOOLEAN, fan : Percents, sp : Numerals])
              /\ applied \in Settings /\ applied.sp # NoNumber

(* Unless a save is on its way, the mode button is marked pending exactly    *)
(* when it shows another mode than the last broadcast did, and a field       *)
(* without a mark shows what the last broadcast said, whatever was clicked,  *)
(* typed and received in between.                                            *)
MarksTellTheTruth ==
  \A c \in Clients :
    /\ ~form[c].awaiting => (form[c].modeDirty <=> form[c].pidEnabled # form[c].appliedPid)
    /\ ~form[c].spDirty => form[c].sp = form[c].appliedSp

(* When the operators stop (they run out of edits and numbers), every widget *)
(* of a connected page comes to show what the firmware has, or stays marked  *)
(* as pending: the mode, the fields, and in manual mode the percentage.      *)
Agrees(f) == /\ ~f.modeDirty => f.pidEnabled = applied.pid
             /\ ~f.spDirty => f.sp = applied.sp
             /\ ~applied.pid /\ ~f.manDirty => f.man = applied.man

FormConverges == \A c \in Clients : <>[]joined[c] => <>[]Agrees(form[c])
=============================================================================
