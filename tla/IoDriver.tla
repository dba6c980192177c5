------------------------------ MODULE IoDriver ------------------------------
(***************************************************************************)
(* The px4io driver of the FMU (px4io.cpp) on the serial link to the       *)
(* coprocessor of IoFirmware.  Its task sends controls, watches the status *)
(* and passes actuator_armed on; the thread that has started the driver    *)
(* stands for the tools that load mixers and call ioctl and write.         *)
(* Nothing keeps the two apart but the semaphore of the bus, so that each  *)
(* transfer is one step and each io_reg_modify two.                        *)
(***************************************************************************)
EXTENDS IoFirmware

CONSTANTS
    Topics,         \* what actuator_armed and vehicle_control_mode may ask for
    Calls,          \* which calls of tools there are
    Bits,           \* which bits of SETUP_ARMING ioctls set or clear
    MaxEvents       \* bound: calls, resets of the IO, gaps of 500 ms, together

\* The bits of SETUP_ARMING that io_set_arming_state sets or clears
Orders == {"FMU_ARMED", "LOCKDOWN", "FORCE_FAILSAFE", "IO_ARM_OK", "OVERRIDE_OK"}
Tools == {"raw", "failsafe", "disarmed", "always", "safety_on", "safety_off", "mixer"}

ASSUME DriverAssumption ==
    /\ Topics \subseteq SUBSET Orders
    /\ Calls \subseteq Tools /\ Bits \subseteq [bit : ArmingFlags, on : BOOLEAN]
    /\ MaxEvents \in Nat

VARIABLES
    task,       \* where the task is, and the value it is about to write
    tool,       \* the same for the other thread
    known,      \* _status of the driver, the bits it looks at
    events

driver == <<task, tool, known, events>>
vars == <<ioVars, driver>>

Thread(p, v) == [pc |-> p, val |-> v]
Off == Thread("off", {})
Idle == Thread("idle", {})

\* The coprocessor is configured, its mixer is loaded, no controls were sent yet, and the
\* startup script asked for a failsafe that terminates the flight or did not.
Init ==
    /\ flags = {"INIT_OK", "MIXER_OK", "ARM_SYNC"}
    /\ \/ arming = {"OVERRIDE_IMMEDIATE", "INAIR_RESTART_OK"}
       \/ arming = {"OVERRIDE_IMMEDIATE", "INAIR_RESTART_OK", "TERMINATION"}
    /\ fresh = FALSE
    /\ pc = "tick" /\ reg = {} /\ areg = {} /\ source = "NONE" /\ should = {} /\ nested = FALSE
    /\ rc = "lost" /\ in_mixer = FALSE /\ pwm = FALSE /\ out = "OFF"
    /\ group = "whole" /\ servos = "FAILSAFE" /\ failsafe = "MIXER"
    /\ task = Idle /\ tool = Idle /\ known = {"ARM_SYNC"} /\ events = 0

Happens == events < MaxEvents /\ events' = events + 1

\* A step of the driver: nothing of the coprocessor moves but what the transfer writes.
NoWrite == UNCHANGED <<flags, arming, fresh, group, servos, failsafe>>
ToolStep(here, next) == tool.pc = here /\ tool' = next /\ UNCHANGED <<loop, task, known, events>>
TaskStep(here, next) == task.pc = here /\ task' = next /\ UNCHANGED <<loop, tool, events>>

-----------------------------------------------------------------------------
(* mixer load, ioctl and write. *)

\* mixer_send: the text, with a reset in its first transfer, the closing newline, the flag;
\* 30 tries each.  When the newline is refused, it is tried again with a reset.  The flag
\* is read, modified and written: a write with it only sets it, whatever was read.
Text(here, next, part) ==
    ToolStep(here, Thread(IF MixerTaken THEN next ELSE here, {})) /\ SetMixerText(part)
GivesUp(here, next) == ~MixerTaken /\ ToolStep(here, next) /\ NoWrite
MixerSend ==
    \/ Text("text", "newline", "part") \/ GivesUp("text", Idle)
    \/ Text("newline", "mixer_ok", IF group = "part" THEN "whole" ELSE "empty")
    \/ GivesUp("newline", Thread("again", {}))
    \/ Text("again", "mixer_ok", "empty") \/ GivesUp("again", Idle)
    \/ ToolStep("mixer_ok", Idle) /\ SetStatusFlags({"MIXER_OK"})

Call(c) ==
    \/ c = "raw" /\ SetDirectPwm
    \/ c = "failsafe" /\ SetFailsafePwm
    \/ c = "disarmed" /\ SetDisarmedPwm(TRUE)
    \/ c = "always" /\ SetDisarmedPwm(FALSE)
    \/ c = "safety_on" /\ SetSafety(FALSE)
    \/ c = "safety_off" /\ SetSafety(TRUE)
    \/ c = "mixer" /\ NoWrite
Ioctl ==
    /\ tool.pc = "idle" /\ Happens /\ UNCHANGED <<loop, task, known>>
    /\ \/ \E c \in Calls : /\ Call(c)
                           /\ tool' = IF c = "mixer" THEN Thread("text", {}) ELSE tool
       \/ \E b \in Bits : NoWrite /\ tool' = Thread("modify", With(arming, b.bit, b.on))
Modify == ToolStep("modify", Idle) /\ SetArming(tool.val)

-----------------------------------------------------------------------------
(* The task. *)

SendControls == TaskStep("idle", Idle) /\ SetControls /\ UNCHANGED known

\* io_handle_status: an IO that was reset is forced back to armed.
WasReset == "SAFETY_OFF" \in known /\ {"SAFETY_OFF", "ARM_SYNC"} \cap flags = {}
GetStatus ==
    /\ \/ WasReset /\ TaskStep("idle", Thread("sync", {"SAFETY_OFF", "ARM_SYNC"})) /\ known' = {}
       \/ /\ ~WasReset /\ known' = flags \cap {"SAFETY_OFF", "ARM_SYNC"}
          /\ \/ "ARM_SYNC" \notin known /\ TaskStep("idle", Thread("sync", {"ARM_SYNC"}))
             \/ "ARM_SYNC" \in known /\ TaskStep("idle", Idle)
    /\ NoWrite

\* A write with MIXER_OK sets that flag only.
Meant(value) == IF "MIXER_OK" \in value THEN {"MIXER_OK"} ELSE value
Sync ==
    /\ \/ TaskStep("sync", Thread("syncing", Meant(flags \cup task.val))) /\ NoWrite
       \/ TaskStep("syncing", Idle) /\ SetStatusFlags(task.val)
    /\ UNCHANGED known

\* io_set_arming_state: the commander publishes at 5 Hz and more.
SetArmingState ==
    /\ \/ \E t \in Topics : TaskStep("idle", Thread("arming", (arming \ Orders) \cup t)) /\ NoWrite
       \/ TaskStep("arming", Idle) /\ SetArming(task.val)
    /\ UNCHANGED known

-----------------------------------------------------------------------------
Task == SendControls \/ GetStatus \/ Sync \/ SetArmingState
Tool == MixerSend \/ Ioctl \/ Modify
Firmware == (MainLoop \/ SafetyButton) /\ UNCHANGED driver

\* A gap in the controls of a live FMU; that of a dead one is no event.
Gap == task # Off /\ Happens /\ Stale /\ UNCHANGED <<task, tool, known>>
Silence == task = Off /\ Stale /\ UNCHANGED driver
IoReset == Happens /\ Reset /\ UNCHANGED <<task, tool, known>>
FmuDies ==
    /\ task # Off /\ task' = Off /\ tool' = Off /\ known' = {}
    /\ UNCHANGED <<ioVars, events>>

Next == Firmware \/ Gap \/ Silence \/ Task \/ Tool \/ IoReset \/ FmuDies
Spec == Init /\ [][Next]_vars

\* The main loop runs; the task of a live FMU ends what it began and gets orders.
Fairness ==
    /\ WF_vars(MainLoop /\ UNCHANGED driver) /\ WF_vars(Silence)
    /\ WF_vars(MixerSend \/ Modify) /\ WF_vars(task.pc # "idle" /\ Task)
    /\ SF_vars(task.pc = "idle" /\ SetArmingState)
FairSpec == Spec /\ Fairness

-----------------------------------------------------------------------------
(* Properties. *)

Values == [pc : {"off", "idle", "text", "newline", "again", "mixer_ok", "modify", "sync",
                 "syncing", "arming"}, val : SUBSET (StatusFlags \cup ArmingFlags)]
\* Every variable has its type; a thread about to write SETUP_ARMING has bits of it.
TypeOK ==
    /\ flags \subseteq StatusFlags /\ reg \subseteq StatusFlags
    /\ arming \subseteq ArmingFlags /\ areg \subseteq ArmingFlags
    /\ {fresh, nested, in_mixer, pwm} \subseteq BOOLEAN
    /\ source \in Sources /\ should \subseteq {"arm", "nothrottle", "always"}
    /\ {servos, out} \subseteq (Sources \ {"NONE"}) \cup {"RAW", "DISARMED", "OFF"}
    /\ group \in {"empty", "part", "whole"} /\ failsafe \in {"OFF", "MIXER", "CUSTOM"}
    /\ pc \in {"tick", "alive", "late", "terminate", "forcing", "mix", "mixing", "enable", "report",
               "output", "controls", "override"}
    /\ rc \in {"good", "failsafe", "lost"}
    /\ {task, tool} \subseteq Values /\ known \subseteq StatusFlags /\ events \in 0 .. MaxEvents

\* A terminated flight stays terminated until the coprocessor is reset: no order of the
\* FMU and no call clears the two flags, however the main loop and the two threads
\* interleave what they read and write (registers.c, the write of SETUP_ARMING).
Terminated(bits) == {"TERMINATION", "FORCE_FAILSAFE"} \subseteq bits
TerminationStays == [][~IoReset /\ Terminated(arming) => Terminated(arming')]_vars

\* A terminated flight ends in failsafe values, and nothing drives its outputs again: not
\* an FMU that is back, not the pilot, not values decided on or mixed before.  Tools are
\* left out: raw values written after the copy of the failsafe values go out once.
TerminatedFails ==
    <>[](Terminated(arming) /\ "RAW_PWM" \notin flags) => <>[](out \in {"FAILSAFE", "DISARMED", "OFF"})

\* When the FMU is gone for good, the outputs that are on carry failsafe values in the
\* end, or the pilot's, and never the pilot's when the flight is to be terminated.
LostFmuFails ==
    <>[](task = Off) => <>[](pwm => \/ out \in {"FAILSAFE", "DISARMED", "OFF"}
                                    \/ out = "OVERRIDE" /\ "TERMINATION" \notin arming)

\* When the safety switch stays on, the outputs go off in the end and stay off, unless
\* ALWAYS_PWM asks for disarmed values, whatever FMU and tools order.
StopsOnSafety ==
    <>[]("SAFETY_OFF" \notin flags /\ "ALWAYS_PWM" \notin arming) => <>[]~pwm

\* While the FMU lives and wants the same, SETUP_ARMING comes to hold its orders and holds
\* them from then on: what a reset or a stale value of the other thread or the main loop
\* took away comes back.  FORCE_FAILSAFE is apart: a termination keeps it.
Ordered(t) == arming \cap (Orders \ {"FORCE_FAILSAFE"}) = t \ {"FORCE_FAILSAFE"}
OrdersArrive ==
    \A t \in Topics :
       <>[](task # Off /\ (task.pc = "arming" => task.val \cap Orders = t)) => <>[]Ordered(t)
=============================================================================
