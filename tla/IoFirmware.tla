----------------------------- MODULE IoFirmware -----------------------------
(***************************************************************************)
(* The PX4IO coprocessor (mixer.cpp, controls.c, registers.c, safety.c): a *)
(* main loop that mixes and drives the outputs, a timer interrupt for the  *)
(* safety button, and the serial interrupt in which the flight management  *)
(* unit (FMU) writes registers.  The interrupts have one priority: each is *)
(* one step, between any two steps of the main loop.                       *)
(*                                                                         *)
(* r_status_flags and r_setup_arming are bit masks that both sides change  *)
(* by reading, modifying and writing.  r_status_flags is not volatile: the *)
(* compiler may use its copy (reg) until the next call of a function.      *)
(***************************************************************************)
EXTENDS Naturals, FiniteSets

CONSTANTS
    Inputs,         \* what controls_tick may find at the RC receivers
    Switches        \* whether the pilot may ask for override

ASSUME IoAssumption == /\ Inputs \subseteq {"good", "failsafe", "lost"}
                       /\ Switches \subseteq BOOLEAN

VARIABLES
    flags,      \* r_status_flags
    arming,     \* r_setup_arming
    fresh,      \* fmu_data_received_time is set and not 500 ms ago
    pc,         \* where the main loop is
    reg,        \* its copy of r_status_flags
    areg,       \* its copy of r_setup_arming while it modifies it
    source,     \* which controls are mixed
    should,     \* should_arm, should_arm_nothrottle, should_always_enable_pwm
    nested,     \* controls_tick has a new frame; mixer_tick runs inside controls_tick
    rc,         \* the last frame of the receiver was good or said failsafe, or RC is lost
    in_mixer,
    group,      \* mixer_group: how much of the mixer is loaded
    servos,     \* where the values of r_page_servos come from
    failsafe,   \* where those of r_page_servo_failsafe come from
    pwm,        \* mixer_servos_armed
    out         \* where the values on the outputs come from, OFF when they are switched off

loop == <<pc, reg, areg, source, should, nested, rc, in_mixer, pwm, out>>
ioVars == <<flags, arming, fresh, loop, group, servos, failsafe>>

StatusFlags == {"FMU_OK", "RAW_PWM", "MIXER_OK", "ARM_SYNC", "INIT_OK", "SAFETY_OFF",
                "FMU_INITIALIZED", "OVERRIDE", "RC_OK"}
ArmingFlags == {"FMU_ARMED", "IO_ARM_OK", "OVERRIDE_OK", "OVERRIDE_IMMEDIATE", "FAILSAFE_CUSTOM",
                "INAIR_RESTART_OK", "ALWAYS_PWM", "RC_DISABLED", "LOCKDOWN", "FORCE_FAILSAFE",
                "TERMINATION"}
Sources == {"FMU", "OVERRIDE", "OVERRIDE_FMU_OK", "FAILSAFE", "NONE"}

\* A brownout or a reset of the coprocessor: everything is as after power on.
Reset ==
    /\ flags' = {} /\ arming' = {"OVERRIDE_IMMEDIATE"} /\ fresh' = FALSE
    /\ pc' = "tick" /\ reg' = {} /\ areg' = {} /\ source' = "NONE" /\ should' = {} /\ nested' = FALSE
    /\ rc' = "lost" /\ in_mixer' = FALSE /\ pwm' = FALSE /\ out' = "OFF"
    /\ group' = "empty" /\ servos' = "OFF" /\ failsafe' = "OFF"

With(set, bit, on) == IF on THEN set \cup {bit} ELSE set \ {bit}

-----------------------------------------------------------------------------
(* The main loop: mixer_tick, then controls_tick.  What a later step does  *)
(* not read is forgotten (reg, source, should).                            *)

\* A read of r_status_flags: the copy, or the variable itself
Seen == {reg, flags}
At(here, next) == pc = here /\ pc' = next

\* Is there fresh data from the FMU?
Tick ==
    /\ At("tick", IF fresh THEN "alive" ELSE "late")
    /\ reg' = flags
    /\ UNCHANGED <<flags, arming, areg, source, should, nested, rc, in_mixer, servos, pwm, out>>
MayOverride(f) == {"OVERRIDE", "RC_OK", "MIXER_OK"} \subseteq f /\ "RC_DISABLED" \notin arming
\* Mutant of SourceOf: the pilot takes over a flight to be terminated
SourceOf_pilot(f) ==
    IF {"RAW_PWM", "FMU_OK"} \subseteq f THEN "NONE"
    ELSE IF MayOverride(f) THEN IF "FMU_OK" \in f THEN "OVERRIDE_FMU_OK" ELSE "OVERRIDE"
    ELSE IF {"FMU_OK", "MIXER_OK"} \subseteq f /\ "OVERRIDE" \notin f THEN "FMU"
    ELSE "FAILSAFE"
SourceOf(f) ==
    IF {"RAW_PWM", "FMU_OK"} \subseteq f THEN "NONE"
    ELSE IF MayOverride(f) /\ "FMU_OK" \notin f /\ "TERMINATION" \notin arming THEN "OVERRIDE"
    ELSE IF MayOverride(f) /\ "FMU_OK" \in f THEN "OVERRIDE_FMU_OK"
    ELSE IF {"FMU_OK", "MIXER_OK"} \subseteq f /\ "OVERRIDE" \notin f THEN "FMU"
    ELSE "FAILSAFE"

\* Mutant of ShouldArm: the safety switch is not asked
ShouldArm_unsafe(f) ==
    /\ "INIT_OK" \in f
    /\ \/ "FMU_ARMED" \in arming /\ "MIXER_OK" \in f
       \/ "RAW_PWM" \in f
ShouldArm(f) ==
    /\ {"INIT_OK", "SAFETY_OFF"} \subseteq f
    /\ \/ "FMU_ARMED" \in arming /\ "MIXER_OK" \in f
       \/ "RAW_PWM" \in f
       \/ "FAILSAFE_CUSTOM" \in arming /\ "FMU_OK" \notin f
ShouldArmNoThrottle(f) == {"INIT_OK", "SAFETY_OFF", "MIXER_OK"} \subseteq f
ShouldAlways(f) == "ALWAYS_PWM" \in arming /\ {"INIT_OK", "FMU_OK"} \subseteq f
Decide ==
    /\ \/ At("alive", "terminate") /\ flags' = reg \cup {"FMU_OK", "FMU_INITIALIZED"}
       \/ At("late", "terminate") /\ flags' = reg \ {"FMU_OK"}
    /\ reg' = flags'
    /\ source' = SourceOf(flags')
    /\ should' = {s \in {"arm", "nothrottle", "always"} :
                     CASE s = "arm" -> ShouldArm(flags')
                       [] s = "nothrottle" -> ShouldArmNoThrottle(flags')
                       [] s = "always" -> ShouldAlways(flags')}
    /\ UNCHANGED <<arming, areg, nested, rc, in_mixer, servos, pwm, out>>

\* Termination: the first failsafe forces itself for good.
Terminates(f) == /\ "TERMINATION" \in arming /\ source = "FAILSAFE"
                 /\ "arm" \in should /\ "FMU_INITIALIZED" \in f
\* Mutant of Forces: the failsafe is forced only while the FMU is lost
Forces_lost(f) ==
    /\ source' = IF "FORCE_FAILSAFE" \in arming' /\ "FMU_OK" \notin f THEN "FAILSAFE" ELSE source
    /\ flags' = f /\ reg' = f
Forces(f) == /\ source' = IF "FORCE_FAILSAFE" \in arming' THEN "FAILSAFE" ELSE source
            /\ flags' = f /\ reg' = f
Terminate ==
    /\ \E f \in Seen :
          \/ Terminates(f) /\ At("terminate", "forcing") /\ areg' = arming
             /\ UNCHANGED <<flags, arming, reg, source>>
          \/ ~Terminates(f) /\ At("terminate", "mix") /\ UNCHANGED <<arming, areg>> /\ Forces(f)
    /\ UNCHANGED <<should, nested, rc, in_mixer, servos, pwm, out>>
ForceFailsafe ==
    /\ At("forcing", "mix")
    /\ arming' = areg \cup {"FORCE_FAILSAFE"} /\ areg' = {}
    /\ \E f \in Seen : Forces(f)
    /\ UNCHANGED <<should, nested, rc, in_mixer, servos, pwm, out>>

\* The outputs are mixed, or the failsafe values copied, or raw values left there.
Mixes(f) == source \notin {"FAILSAFE", "NONE"} /\ "MIXER_OK" \in f
Mix ==
    /\ \/ \E f \in Seen : Mixes(f) /\ At("mix", "mixing")
          /\ in_mixer' = TRUE /\ UNCHANGED <<source, servos>>
       \/ \E f \in Seen : ~Mixes(f) /\ At("mix", "enable")
          /\ servos' = (IF source = "FAILSAFE" THEN "FAILSAFE" ELSE servos)
          /\ source' = "NONE" /\ UNCHANGED in_mixer
    /\ reg' = {}
    /\ UNCHANGED <<flags, arming, areg, should, nested, rc, pwm, out>>
Mixed ==
    /\ At("mixing", "enable")
    /\ in_mixer' = FALSE /\ servos' = source /\ source' = "NONE"
    /\ UNCHANGED <<flags, arming, reg, areg, should, nested, rc, pwm, out>>

NeedsToArm == should # {} /\ "LOCKDOWN" \notin arming
Enable ==
    /\ \/ NeedsToArm = pwm /\ At("enable", "output") /\ reg' = {}
       \/ NeedsToArm # pwm /\ At("enable", "report") /\ reg' = flags
    /\ pwm' = NeedsToArm /\ out' = IF NeedsToArm THEN out ELSE "OFF"
    /\ UNCHANGED <<flags, arming, areg, source, should, nested, rc, in_mixer, servos>>
Report ==
    /\ At("report", "output")
    /\ flags' = reg /\ reg' = {}
    /\ UNCHANGED <<arming, areg, source, should, nested, rc, in_mixer, servos, pwm, out>>
Output ==
    /\ At("output", IF nested THEN "tick" ELSE "controls")
    /\ out' = IF pwm /\ should \cap {"arm", "nothrottle"} # {} THEN servos
              ELSE IF pwm /\ "always" \in should THEN "DISARMED"
              ELSE out
    /\ nested' = FALSE /\ should' = {}
    /\ UNCHANGED <<flags, arming, reg, areg, source, rc, in_mixer, servos, pwm>>

\* controls_tick: a frame arrives, or none (quiet), and after 200 ms of that RC is lost.
Gather ==
    /\ At("controls", "override") /\ reg' = flags
    /\ \/ rc' \in Inputs \ {"lost"} /\ nested' = TRUE
       \/ rc' \in {rc} \cup (Inputs \cap {"lost"}) /\ nested' = FALSE
    /\ UNCHANGED <<flags, arming, areg, source, should, in_mixer, servos, pwm, out>>
Received(f) == IF nested THEN f \cup {"RC_OK"} ELSE IF rc = "lost" THEN f \ {"RC_OK"} ELSE f
Overrides(f, switch) ==
    /\ "FMU_OK" \notin f \/ "OVERRIDE_OK" \in arming
    /\ "RC_OK" \in f /\ rc # "failsafe"
    /\ switch \/ ("FMU_OK" \notin f /\ "OVERRIDE_IMMEDIATE" \in arming /\ "MIXER_OK" \in f)
Override ==
    /\ At("override", "tick")
    /\ \E f \in Seen, switch \in Switches :
          LET on == Overrides(Received(f), switch)
          IN  flags' = With(Received(f), "OVERRIDE", on) /\ nested' = (on /\ nested)
    /\ reg' = {}
    /\ UNCHANGED <<arming, areg, source, should, rc, in_mixer, servos, pwm, out>>

MainLoop ==
    /\ \/ Tick \/ Decide \/ Terminate \/ ForceFailsafe \/ Mix \/ Mixed
       \/ Enable \/ Report \/ Output \/ Gather \/ Override
    /\ UNCHANGED <<fresh, group, failsafe>>

-----------------------------------------------------------------------------
(* The interrupts. *)

\* 500 ms without data of the FMU
Stale ==
    /\ fresh /\ fresh' = FALSE
    /\ UNCHANGED <<flags, arming, loop, group, servos, failsafe>>

\* The safety button was held for a second.
Toggles == "SAFETY_OFF" \in flags \/ "IO_ARM_OK" \in arming
SafetyButton ==
    /\ Toggles
    /\ flags' = With(flags, "SAFETY_OFF", "SAFETY_OFF" \notin flags)
    /\ UNCHANGED <<arming, fresh, loop, group, servos, failsafe>>

\* What a write of a register does (registers_set).  Each leaves loop alone.
SetControls ==
    /\ fresh' = TRUE /\ flags' = (flags \cup {"FMU_OK"}) \ {"RAW_PWM"}
    /\ UNCHANGED <<arming, group, servos, failsafe>>
SetDirectPwm ==
    /\ fresh' = TRUE /\ flags' = flags \cup {"FMU_OK", "RAW_PWM"} /\ servos' = "RAW"
    /\ UNCHANGED <<arming, group, failsafe>>
SetFailsafePwm ==
    /\ failsafe' = "CUSTOM" /\ arming' = arming \cup {"FAILSAFE_CUSTOM"}
    /\ UNCHANGED <<flags, fresh, group, servos>>
SetDisarmedPwm(off) ==
    /\ arming' = With(arming, "ALWAYS_PWM", ~off)
    /\ UNCHANGED <<flags, fresh, group, servos, failsafe>>
SetSafety(off) ==
    /\ flags' = With(flags, "SAFETY_OFF", off)
    /\ UNCHANGED <<arming, fresh, group, servos, failsafe>>

\* Mixer text: refused while armed, and to be repeated while the main loop mixes
MixerRefused == "SAFETY_OFF" \in flags /\ "FMU_ARMED" \in arming
MixerTaken == ~MixerRefused /\ ~in_mixer
SetMixerText(part) ==
    /\ flags' = IF MixerRefused THEN flags ELSE flags \ {"MIXER_OK"}
    /\ group' = IF MixerTaken THEN part ELSE group
    /\ UNCHANGED <<arming, fresh, servos, failsafe>>

\* mixer_set_failsafe keeps custom values.
SetStatusFlags(value) ==
    /\ flags' = IF "MIXER_OK" \in value THEN flags \cup {"MIXER_OK"}
                ELSE IF "ARM_SYNC" \notin flags THEN value ELSE flags
    /\ failsafe' = IF "MIXER_OK" \in flags' /\ "FAILSAFE_CUSTOM" \notin arming
                   THEN "MIXER" ELSE failsafe
    /\ UNCHANGED <<arming, fresh, group, servos>>

\* The termination flag stays, and with it the force flag.
\* Mutant of Kept: the force flag is forgotten
Kept_termination == arming \cap {"TERMINATION"}
Kept == arming \cap (IF "TERMINATION" \in arming THEN {"TERMINATION", "FORCE_FAILSAFE"} ELSE {})
\* Mutant of SetArming: no orders while the safety is off
SetArming_locked(value) ==
    /\ arming' = IF "SAFETY_OFF" \in flags THEN arming ELSE value \cup Kept
    /\ flags' = IF "RC_DISABLED" \in value THEN flags \cup {"INIT_OK"} ELSE flags
    /\ UNCHANGED <<fresh, group, servos, failsafe>>
SetArming(value) ==
    /\ arming' = value \cup Kept
    /\ flags' = IF "RC_DISABLED" \in value THEN flags \cup {"INIT_OK"} ELSE flags
    /\ UNCHANGED <<fresh, group, servos, failsafe>>
=============================================================================
