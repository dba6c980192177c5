------------------------------ MODULE IoProofs ------------------------------
(***************************************************************************)
(* What is proved of the coprocessor and its driver for every receiver,    *)
(* every set of orders and calls and any number of events: the types, that *)
(* a terminated flight stays terminated, and that the mixers hold still    *)
(* while the main loop mixes.                                              *)
(***************************************************************************)
EXTENDS IoDriver, TLAPS

\* What is written next belongs to the register it is written to.
Pending ==
    /\ task.pc = "sync" => task.val \subseteq {"SAFETY_OFF", "ARM_SYNC"}
    /\ task.pc = "syncing" => task.val \subseteq StatusFlags
    /\ task.pc = "arming" => task.val \subseteq ArmingFlags
    /\ tool.pc = "modify" => tool.val \subseteq ArmingFlags

\* The main loop mixes from a source, and forces the failsafe of a terminated flight.
Looping ==
    /\ in_mixer <=> pc = "mixing"
    /\ pc = "mixing" => source \notin {"FAILSAFE", "NONE"}
    /\ pc = "forcing" => "TERMINATION" \in areg

Inv == TypeOK /\ Pending /\ Looping

-----------------------------------------------------------------------------
\* The booted system satisfies the invariant.
LEMMA InitInv == Init => Inv
<1> SUFFICES ASSUME Init PROVE Inv
  OBVIOUS
<1>1. flags \subseteq StatusFlags /\ reg \subseteq StatusFlags /\ known \subseteq StatusFlags
  BY DEF Init, StatusFlags
<1>2. arming \subseteq ArmingFlags /\ areg \subseteq ArmingFlags
  BY DEF Init, ArmingFlags
<1>3. task = Idle /\ tool = Idle /\ Idle \in Values /\ Idle.pc = "idle"
  BY DEF Init, Idle, Thread, Values
<1>4. events \in 0 .. MaxEvents
  BY DriverAssumption DEF Init
<1>5. TypeOK
  BY <1>1, <1>2, <1>3, <1>4 DEF Init, TypeOK, Sources
<1>6. Pending /\ Looping
  BY <1>3 DEF Init, Pending, Looping
<1> QED BY <1>5, <1>6 DEF Inv

\* Everything but the main loop leaves what belongs to it.
LEMMA LoopKept == ASSUME Looping, UNCHANGED loop PROVE Looping'
BY DEF Looping, loop

\* The main loop keeps the invariant.
LEMMA MainLoopInv ==
    ASSUME Inv, MainLoop, UNCHANGED driver PROVE Inv'
<1> USE DEF Inv, driver, At
<1>a. UNCHANGED <<fresh, group, failsafe, task, tool, known, events>>
  BY DEF MainLoop
<1>b. ASSUME NEW f \in Seen PROVE f \subseteq StatusFlags
  BY <1>b DEF Seen, TypeOK
<1>1. CASE Tick
  BY <1>1, <1>a DEF Tick, TypeOK, Pending, Looping
<1>2. CASE Decide
  <2>1. flags' \subseteq StatusFlags
    BY <1>2 DEF Decide, TypeOK, StatusFlags
  <2>2. source' \in Sources
    BY <1>2 DEF Decide, SourceOf, Sources
  <2>3. should' \subseteq {"arm", "nothrottle", "always"}
    BY <1>2 DEF Decide
  <2>4. pc' = "terminate" /\ pc # "mixing" /\ reg' = flags'
    BY <1>2 DEF Decide
  <2>5. UNCHANGED <<arming, areg, nested, rc, in_mixer, servos, pwm, out>>
    BY <1>2 DEF Decide
  <2>6. TypeOK'
    BY <1>a, <2>1, <2>2, <2>3, <2>4, <2>5 DEF TypeOK
  <2>7. Pending'
    BY <1>a DEF Pending
  <2> QED BY <2>4, <2>5, <2>6, <2>7 DEF Looping
<1>3. CASE Terminate
  <2>1. UNCHANGED <<should, nested, rc, in_mixer, servos, pwm, out>> /\ pc = "terminate"
    BY <1>3 DEF Terminate
  <2>2. \/ /\ pc' = "forcing" /\ "TERMINATION" \in arming /\ areg' = arming
           /\ UNCHANGED <<flags, arming, reg, source>>
        \/ /\ pc' = "mix" /\ UNCHANGED <<arming, areg>> /\ source' \in {source, "FAILSAFE"}
           /\ flags' \in Seen /\ reg' \in Seen
    BY <1>3 DEF Terminate, Terminates, Forces
  <2>3. flags' \subseteq StatusFlags /\ reg' \subseteq StatusFlags
    BY <1>b, <2>2 DEF TypeOK
  <2> QED BY <1>a, <2>1, <2>2, <2>3 DEF TypeOK, Pending, Looping, Sources
<1>4. CASE ForceFailsafe
  <2>1. arming' \subseteq ArmingFlags
    BY <1>4 DEF ForceFailsafe, TypeOK, ArmingFlags
  <2>2. source' \in {source, "FAILSAFE"} /\ flags' \in Seen /\ reg' \in Seen
    BY <1>4 DEF ForceFailsafe, Forces
  <2>3. source' \in Sources /\ flags' \subseteq StatusFlags /\ reg' \subseteq StatusFlags
    BY <1>b, <2>2 DEF TypeOK, Sources
  <2>4. pc = "forcing" /\ pc' = "mix" /\ areg' = {}
        /\ UNCHANGED <<should, nested, rc, in_mixer, servos, pwm, out>>
    BY <1>4 DEF ForceFailsafe
  <2> QED BY <1>a, <2>1, <2>3, <2>4 DEF TypeOK, Pending, Looping
<1>5. CASE Mix
  <2>1. UNCHANGED <<flags, arming, areg, should, nested, rc, pwm, out>> /\ reg' = {} /\ pc = "mix"
    BY <1>5 DEF Mix
  <2>2. \/ /\ pc' = "mixing" /\ in_mixer' = TRUE /\ UNCHANGED <<source, servos>>
           /\ source \notin {"FAILSAFE", "NONE"}
        \/ /\ pc' = "enable" /\ source' = "NONE" /\ UNCHANGED in_mixer
           /\ servos' \in {servos, "FAILSAFE"}
    BY <1>5 DEF Mix, Mixes
  <2>3. CASE pc' = "mixing" /\ in_mixer' = TRUE /\ UNCHANGED <<source, servos>>
             /\ source \notin {"FAILSAFE", "NONE"}
    BY <1>a, <2>1, <2>3 DEF TypeOK, Pending, Looping
  <2>4. CASE pc' = "enable" /\ source' = "NONE" /\ UNCHANGED in_mixer
             /\ servos' \in {servos, "FAILSAFE"}
    <3>1. servos' \in (Sources \ {"NONE"}) \cup {"RAW", "DISARMED", "OFF"}
      BY <2>4 DEF TypeOK, Sources
    <3> QED BY <1>a, <2>1, <2>4, <3>1, ZenonT(60) DEF TypeOK, Pending, Looping, Sources
  <2> QED BY <2>2, <2>3, <2>4
<1>6. CASE Mixed
  BY <1>6, <1>a, ZenonT(60) DEF Mixed, TypeOK, Pending, Looping, Sources
<1>7. CASE Enable
  BY <1>7, <1>a DEF Enable, NeedsToArm, TypeOK, Pending, Looping
<1>8. CASE Report
  BY <1>8, <1>a DEF Report, TypeOK, Pending, Looping
<1>9. CASE Output
  BY <1>9, <1>a DEF Output, TypeOK, Pending, Looping
<1>10. CASE Gather
  BY <1>10, <1>a, IoAssumption, ZenonT(60) DEF Gather, TypeOK, Pending, Looping
<1>11. CASE Override
  <2>1. PICK f \in Seen, switch \in Switches :
           LET on == Overrides(Received(f), switch)
           IN  flags' = With(Received(f), "OVERRIDE", on) /\ nested' = (on /\ nested)
    BY <1>11 DEF Override
  <2>2. flags' \subseteq StatusFlags
    BY <1>b, <2>1 DEF With, Received, StatusFlags
  <2>3. nested' \in BOOLEAN
    BY <2>1
  <2> QED BY <1>11, <1>a, <2>2, <2>3 DEF Override, TypeOK, Pending, Looping
<1> QED
  BY <1>1, <1>2, <1>3, <1>4, <1>5, <1>6, <1>7, <1>8, <1>9, <1>10, <1>11 DEF MainLoop

\* What the registers hold stays of its type.
Registers ==
    /\ flags \subseteq StatusFlags /\ arming \subseteq ArmingFlags /\ fresh \in BOOLEAN
    /\ group \in {"empty", "part", "whole"} /\ failsafe \in {"OFF", "MIXER", "CUSTOM"}
    /\ servos \in (Sources \ {"NONE"}) \cup {"RAW", "DISARMED", "OFF"}
Threads == {task, tool} \subseteq Values /\ known \subseteq StatusFlags /\ events \in 0 .. MaxEvents

\* A step that leaves the main loop alone keeps the invariant when it keeps the types of
\* the registers, of the threads and of what they will write.
LEMMA StepInv ==
    ASSUME Inv, UNCHANGED loop, Registers', Threads', Pending' PROVE Inv'
<1>1. Looping'
  BY LoopKept DEF Inv
<1>2. TypeOK'
  BY DEF Inv, TypeOK, Registers, Threads, loop
<1> QED BY <1>1, <1>2 DEF Inv

\* The writes of registers keep their types.
LEMMA WriteTypes ==
    ASSUME Registers,
           \/ NoWrite \/ SetControls \/ SetDirectPwm \/ SetFailsafePwm
           \/ \E off \in BOOLEAN : SetDisarmedPwm(off) \/ SetSafety(off)
           \/ \E part \in {"empty", "part", "whole"} : SetMixerText(part)
           \/ \E value \in SUBSET StatusFlags : SetStatusFlags(value)
           \/ \E value \in SUBSET ArmingFlags : SetArming(value)
    PROVE  Registers'
<1> USE DEF Registers
<1>1. CASE NoWrite
  BY <1>1 DEF NoWrite
<1>2. CASE SetControls \/ SetDirectPwm
  BY <1>2 DEF SetControls, SetDirectPwm, StatusFlags
<1>3. CASE SetFailsafePwm
  BY <1>3 DEF SetFailsafePwm, ArmingFlags
<1>4. ASSUME NEW off \in BOOLEAN, SetDisarmedPwm(off) \/ SetSafety(off) PROVE Registers'
  BY <1>4 DEF SetDisarmedPwm, SetSafety, With, StatusFlags, ArmingFlags
<1>5. ASSUME NEW part \in {"empty", "part", "whole"}, SetMixerText(part) PROVE Registers'
  BY <1>5 DEF SetMixerText
<1>6. ASSUME NEW value \in SUBSET StatusFlags, SetStatusFlags(value) PROVE Registers'
  BY <1>6 DEF SetStatusFlags, StatusFlags
<1>7. ASSUME NEW value \in SUBSET ArmingFlags, SetArming(value) PROVE Registers'
  BY <1>7 DEF SetArming, Kept, StatusFlags
<1> QED BY <1>1, <1>2, <1>3, <1>4, <1>5, <1>6, <1>7

\* Every step of the system keeps the invariant.
LEMMA NextInv == Inv /\ [Next]_vars => Inv'
<1> SUFFICES ASSUME Inv, [Next]_vars PROVE Inv'
  OBVIOUS
<1>0. Registers /\ Threads
  BY DEF Inv, TypeOK, Registers, Threads
<1>e. Happens => events' \in 0 .. MaxEvents
  BY <1>0, DriverAssumption DEF Happens, Threads
<1>t. ASSUME NEW p \in {"off", "idle", "text", "newline", "again", "mixer_ok", "modify", "sync",
                        "syncing", "arming"},
             NEW v \in SUBSET (StatusFlags \cup ArmingFlags)
      PROVE  /\ Thread(p, v) \in Values
             /\ Thread(p, v).pc = p /\ Thread(p, v).val = v
  BY DEF Thread, Values
<1>i. Idle \in Values /\ Idle.pc = "idle" /\ Off \in Values /\ Off.pc = "off"
  BY <1>t DEF Idle, Off
<1>1. CASE Firmware
  <2>1. CASE MainLoop /\ UNCHANGED driver
    BY <2>1, MainLoopInv
  <2>2. CASE SafetyButton /\ UNCHANGED driver
    <3>1. Registers'
      BY <1>0, <2>2 DEF SafetyButton, With, Registers, StatusFlags
    <3>2. UNCHANGED loop /\ Threads' /\ Pending'
      BY <1>0, <2>2 DEF SafetyButton, driver, Threads, Pending, Inv
    <3> QED BY <3>1, <3>2, StepInv
  <2> QED BY <1>1, <2>1, <2>2 DEF Firmware
<1>2. CASE Gap \/ Silence
  <2>1. Registers'
    BY <1>0, <1>2 DEF Gap, Silence, Stale, Registers
  <2>2. UNCHANGED loop /\ Threads' /\ Pending'
    BY <1>0, <1>2, <1>e DEF Gap, Silence, Stale, driver, Threads, Pending, Inv
  <2> QED BY <2>1, <2>2, StepInv
<1>3. CASE SendControls
  <2>1. Registers'
    BY <1>0, <1>3, WriteTypes DEF SendControls
  <2>2. UNCHANGED loop /\ Threads' /\ Pending'
    BY <1>0, <1>3, <1>i DEF SendControls, TaskStep, Threads, Pending, Inv
  <2> QED BY <2>1, <2>2, StepInv
<1>4. CASE GetStatus
  <2>1. Registers'
    BY <1>0, <1>4, WriteTypes DEF GetStatus
  <2>2. known' \subseteq StatusFlags
    BY <1>0, <1>4 DEF GetStatus, Threads, Registers
  <2>3. UNCHANGED <<loop, tool, events>>
    BY <1>4 DEF GetStatus, TaskStep
  <2>4. task' \in {Idle, Thread("sync", {"SAFETY_OFF", "ARM_SYNC"}), Thread("sync", {"ARM_SYNC"})}
    BY <1>4 DEF GetStatus, TaskStep
  <2>5. {"SAFETY_OFF", "ARM_SYNC"} \subseteq StatusFlags
    BY DEF StatusFlags
  <2>6. task' \in Values /\ (task'.pc = "idle" \/ (task'.pc = "sync" /\
                            task'.val \subseteq {"SAFETY_OFF", "ARM_SYNC"}))
    BY <1>t, <1>i, <2>4, <2>5
  <2>7. Threads' /\ Pending'
    BY <1>0, <2>2, <2>3, <2>6 DEF Threads, Pending, Inv
  <2> QED BY <2>1, <2>3, <2>7, StepInv
<1>5. CASE Sync
  <2>1. CASE TaskStep("sync", Thread("syncing", Meant(flags \cup task.val))) /\ NoWrite
             /\ UNCHANGED known
    <3>1. task.val \subseteq {"SAFETY_OFF", "ARM_SYNC"}
      BY <2>1 DEF TaskStep, Inv, Pending
    <3>2. Meant(flags \cup task.val) \in SUBSET StatusFlags
      <4>1. flags \cup task.val \subseteq StatusFlags /\ {"MIXER_OK"} \subseteq StatusFlags
        BY <1>0, <3>1 DEF Registers, StatusFlags
      <4> QED BY <4>1 DEF Meant
    <3>3. task' \in Values /\ task'.pc = "syncing" /\ task'.val \subseteq StatusFlags
      <4>1. task' = Thread("syncing", Meant(flags \cup task.val))
        BY <2>1 DEF TaskStep
      <4>2. Meant(flags \cup task.val) \in SUBSET (StatusFlags \cup ArmingFlags)
        BY <3>2
      <4>3. /\ Thread("syncing", Meant(flags \cup task.val)) \in Values
            /\ Thread("syncing", Meant(flags \cup task.val)).pc = "syncing"
            /\ Thread("syncing", Meant(flags \cup task.val)).val = Meant(flags \cup task.val)
        BY <1>t, <4>2
      <4> QED BY <3>2, <4>1, <4>3
    <3>4. Registers'
      BY <1>0, <2>1, WriteTypes
    <3>5. UNCHANGED loop /\ Threads' /\ Pending'
      BY <1>0, <2>1, <3>3 DEF TaskStep, Threads, Pending, Inv
    <3> QED BY <3>4, <3>5, StepInv
  <2>2. CASE TaskStep("syncing", Idle) /\ SetStatusFlags(task.val) /\ UNCHANGED known
    <3>1. task.val \in SUBSET StatusFlags
      BY <2>2 DEF TaskStep, Inv, Pending
    <3>2. Registers'
      BY <1>0, <2>2, <3>1, WriteTypes
    <3>3. UNCHANGED loop /\ Threads' /\ Pending'
      BY <1>0, <1>i, <2>2 DEF TaskStep, Threads, Pending, Inv
    <3> QED BY <3>2, <3>3, StepInv
  <2> QED BY <1>5, <2>1, <2>2 DEF Sync
<1>6. CASE SetArmingState
  <2>1. ASSUME NEW t \in Topics, TaskStep("idle", Thread("arming", (arming \ Orders) \cup t)),
               NoWrite, UNCHANGED known
        PROVE  Inv'
    <3>1. (arming \ Orders) \cup t \subseteq ArmingFlags
      BY <1>0, DriverAssumption DEF Registers, Orders, ArmingFlags
    <3>2. task' \in Values /\ task'.pc = "arming" /\ task'.val \subseteq ArmingFlags
      BY <1>t, <2>1, <3>1 DEF TaskStep
    <3>3. Registers'
      BY <1>0, <2>1, WriteTypes
    <3>4. UNCHANGED loop /\ Threads' /\ Pending'
      BY <1>0, <2>1, <3>2 DEF TaskStep, Threads, Pending, Inv
    <3> QED BY <3>3, <3>4, StepInv
  <2>2. CASE TaskStep("arming", Idle) /\ SetArming(task.val) /\ UNCHANGED known
    <3>1. task.val \in SUBSET ArmingFlags
      BY <2>2 DEF TaskStep, Inv, Pending
    <3>2. Registers'
      BY <1>0, <2>2, <3>1, WriteTypes
    <3>3. UNCHANGED loop /\ Threads' /\ Pending'
      BY <1>0, <1>i, <2>2 DEF TaskStep, Threads, Pending, Inv
    <3> QED BY <3>2, <3>3, StepInv
  <2> QED BY <1>6, <2>1, <2>2 DEF SetArmingState
<1>7. CASE MixerSend
  <2>1. Registers'
    <3>1. \/ \E part \in {"empty", "part", "whole"} : SetMixerText(part)
          \/ NoWrite
          \/ SetStatusFlags({"MIXER_OK"})
      BY <1>7 DEF MixerSend, Text, GivesUp
    <3>2. {"MIXER_OK"} \in SUBSET StatusFlags
      BY DEF StatusFlags
    <3> QED BY <1>0, <3>1, <3>2, WriteTypes
  <2>2. /\ UNCHANGED <<loop, task, known, events>>
        /\ \/ tool' = Idle
           \/ \E p \in {"text", "newline", "again", "mixer_ok"} : tool' = Thread(p, {})
    BY <1>7 DEF MixerSend, Text, GivesUp, ToolStep
  <2>3. tool' \in Values /\ tool'.pc # "modify"
    BY <1>i, <1>t, <2>2
  <2>4. Threads' /\ Pending'
    BY <1>0, <2>2, <2>3 DEF Threads, Pending, Inv
  <2> QED BY <2>1, <2>2, <2>4, StepInv
<1>8. CASE Ioctl
  <2>0. UNCHANGED <<loop, task, known>> /\ events' \in 0 .. MaxEvents
    BY <1>8, <1>e DEF Ioctl
  <2>1. ASSUME NEW c \in Calls, Call(c),
               tool' = IF c = "mixer" THEN Thread("text", {}) ELSE tool
        PROVE  Inv'
    <3>1. Registers'
      BY <1>0, <2>1, WriteTypes DEF Call
    <3>2. tool' \in Values /\ (tool'.pc = "modify" => tool' = tool)
      BY <1>0, <1>t, <2>1 DEF Threads
    <3>3. Threads' /\ Pending'
      BY <1>0, <2>0, <3>2 DEF Threads, Pending, Inv
    <3> QED BY <2>0, <3>1, <3>3, StepInv
  <2>2. ASSUME NEW b \in Bits, NoWrite, tool' = Thread("modify", With(arming, b.bit, b.on))
        PROVE  Inv'
    <3>1. With(arming, b.bit, b.on) \subseteq ArmingFlags
      BY <1>0, DriverAssumption DEF With, Registers
    <3>2. tool' \in Values /\ tool'.val \subseteq ArmingFlags
      BY <1>t, <2>2, <3>1
    <3>3. Registers'
      BY <1>0, <2>2, WriteTypes
    <3>4. Threads' /\ Pending'
      BY <1>0, <2>0, <3>2 DEF Threads, Pending, Inv
    <3> QED BY <2>0, <3>3, <3>4, StepInv
  <2> QED BY <1>8, <2>1, <2>2 DEF Ioctl
<1>9. CASE Modify
  <2>1. tool.val \in SUBSET ArmingFlags
    BY <1>9 DEF Modify, ToolStep, Inv, Pending
  <2>2. Registers'
    BY <1>0, <1>9, <2>1, WriteTypes DEF Modify
  <2>3. UNCHANGED loop /\ Threads' /\ Pending'
    BY <1>0, <1>i, <1>9 DEF Modify, ToolStep, Threads, Pending, Inv
  <2> QED BY <2>2, <2>3, StepInv
<1>10. CASE IoReset
  <2>1. Looping' /\ Pending' /\ Threads'
    BY <1>0, <1>e, <1>10 DEF IoReset, Reset, Looping, Pending, Threads, Inv
  <2>2. TypeOK'
    BY <1>10, <2>1 DEF IoReset, Reset, TypeOK, Threads, StatusFlags, ArmingFlags, Sources
  <2> QED BY <2>1, <2>2 DEF Inv
<1>11. CASE FmuDies
  <2>1. UNCHANGED ioVars /\ UNCHANGED events /\ task' = Off /\ tool' = Off /\ known' = {}
    BY <1>11 DEF FmuDies
  <2>2. Registers' /\ UNCHANGED loop
    BY <1>0, <2>1 DEF ioVars, Registers
  <2>3. Threads' /\ Pending'
    BY <1>0, <1>i, <2>1 DEF Threads, Pending
  <2> QED BY <2>2, <2>3, StepInv
<1>12. CASE UNCHANGED vars
  <2>1. Registers' /\ UNCHANGED loop
    BY <1>0, <1>12 DEF vars, ioVars, Registers
  <2>2. Threads' /\ Pending'
    BY <1>0, <1>12 DEF vars, driver, Threads, Pending, Inv
  <2> QED BY <2>1, <2>2, StepInv
<1> QED
  BY <1>1, <1>2, <1>3, <1>4, <1>5, <1>6, <1>7, <1>8, <1>9, <1>10, <1>11, <1>12
  DEF Next, Task, Tool

\* Hence the inductive invariant holds in every reachable state.
LEMMA SpecInv == Spec => []Inv
BY InitInv, NextInv, PTL DEF Spec

\* Every variable of coprocessor and driver keeps its type, whatever the receiver does
\* and the tools ask for: no value meant for one register is written to another.
THEOREM TypeCorrect == Spec => []TypeOK
BY SpecInv, PTL DEF Inv

-----------------------------------------------------------------------------
\* A write of SETUP_ARMING, and every other write, leaves a terminated flight so.
LEMMA WriteKeepsTermination ==
    ASSUME Terminated(arming),
           \/ NoWrite \/ SetControls \/ SetDirectPwm \/ SetFailsafePwm
           \/ \E off \in BOOLEAN : SetDisarmedPwm(off) \/ SetSafety(off)
           \/ \E part \in {"empty", "part", "whole"} : SetMixerText(part)
           \/ \E value : SetStatusFlags(value) \/ SetArming(value)
    PROVE  Terminated(arming')
<1>1. CASE NoWrite \/ SetControls \/ SetDirectPwm
  BY <1>1 DEF NoWrite, SetControls, SetDirectPwm
<1>2. CASE SetFailsafePwm
  BY <1>2 DEF SetFailsafePwm, Terminated
<1>3. ASSUME NEW off \in BOOLEAN, SetDisarmedPwm(off) \/ SetSafety(off) PROVE Terminated(arming')
  BY <1>3 DEF SetDisarmedPwm, SetSafety, With, Terminated
<1>4. ASSUME NEW part, SetMixerText(part) PROVE Terminated(arming')
  BY <1>4 DEF SetMixerText
<1>5. ASSUME NEW value, SetStatusFlags(value) \/ SetArming(value) PROVE Terminated(arming')
  BY <1>5 DEF SetStatusFlags, SetArming, Kept, Terminated
<1> QED BY <1>1, <1>2, <1>3, <1>4, <1>5

\* Only FORCE_FAILSAFE is added by the main loop, to a value read after TERMINATION was set.
LEMMA LoopKeepsTermination ==
    ASSUME Inv, MainLoop, Terminated(arming) PROVE Terminated(arming')
<1>1. CASE ForceFailsafe
  BY <1>1 DEF ForceFailsafe, At, Terminated, Inv, Looping
<1>2. CASE ~ForceFailsafe
  BY <1>2 DEF MainLoop, Tick, Decide, Terminate, Mix, Mixed, Enable, Report, Output, Gather,
     Override
<1> QED BY <1>1, <1>2

\* A terminated flight stays terminated until the coprocessor is reset, for any orders,
\* calls and interleaving: no stale value of SETUP_ARMING takes the two flags away.
THEOREM TerminationHolds == Spec => TerminationStays
<1>1. ASSUME Inv, [Next]_vars, ~IoReset, Terminated(arming) PROVE Terminated(arming')
  <2>1. CASE Firmware
    BY <1>1, <2>1, LoopKeepsTermination DEF Firmware, SafetyButton
  <2>2. CASE Gap \/ Silence \/ FmuDies
    BY <1>1, <2>2 DEF Gap, Silence, FmuDies, Stale, ioVars
  <2>3. CASE Task
    BY <1>1, <2>3, WriteKeepsTermination DEF Task, SendControls, GetStatus, Sync, SetArmingState
  <2>4. CASE MixerSend
    BY <1>1, <2>4, WriteKeepsTermination DEF MixerSend, Text, GivesUp
  <2>5. CASE Ioctl
    BY <1>1, <2>5, WriteKeepsTermination DEF Ioctl, Call
  <2>6. CASE Modify
    BY <1>1, <2>6, WriteKeepsTermination DEF Modify
  <2>7. CASE UNCHANGED vars
    BY <1>1, <2>7 DEF vars, ioVars
  <2> QED BY <1>1, <2>1, <2>2, <2>3, <2>4, <2>5, <2>6, <2>7 DEF Next, Tool
<1>2. Inv /\ [Next]_vars => [~IoReset /\ Terminated(arming) => Terminated(arming')]_vars
  BY <1>1
<1> QED BY <1>2, SpecInv, PTL DEF Spec, TerminationStays

\* From the step in which the main loop begins to mix to the one in which it ends, no
\* other step changes the mixers under it; only a reset of the coprocessor ends a mix.
MixesAlone == [][pc = "mixing" /\ ~IoReset => group' = group]_vars

\* The mixers hold still while they are used, however many texts come: in_mixer, the "poor
\* mans mutex" of mixer.cpp, is up exactly then.
THEOREM MixersHoldStill == Spec => MixesAlone
<1>1. ASSUME Inv, [Next]_vars, pc = "mixing", ~IoReset PROVE group' = group
  <2>1. CASE Firmware \/ Gap \/ Silence \/ FmuDies \/ UNCHANGED vars
    BY <2>1 DEF Firmware, MainLoop, SafetyButton, Gap, Silence, Stale, FmuDies, vars, ioVars
  <2>2. CASE Task
    BY <2>2 DEF Task, SendControls, SetControls, GetStatus, Sync, SetStatusFlags, SetArmingState,
       SetArming, NoWrite
  <2>3. CASE MixerSend
    <3>1. ~MixerTaken
      BY <1>1 DEF Inv, Looping, MixerTaken
    <3> QED BY <2>3, <3>1 DEF MixerSend, Text, GivesUp, SetMixerText, SetStatusFlags, NoWrite
  <2>4. CASE Ioctl \/ Modify
    BY <2>4 DEF Ioctl, Call, Modify, SetDirectPwm, SetFailsafePwm, SetDisarmedPwm, SetSafety,
       SetArming, NoWrite
  <2> QED BY <1>1, <2>1, <2>2, <2>3, <2>4 DEF Next, Tool
<1>2. Inv /\ [Next]_vars => [pc = "mixing" /\ ~IoReset => group' = group]_vars
  BY <1>1
<1> QED BY <1>2, SpecInv, PTL DEF Spec, MixesAlone
=============================================================================
