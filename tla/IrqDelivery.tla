---------------------------- MODULE IrqDelivery ----------------------------
(***************************************************************************)
(* How interrupts reach the emulated CPU.  Three threads of the emulator   *)
(* share plain variables: the keyboard thread raises an emulated PORTS     *)
(* interrupt (amiga-interrupts.c), the IPL thread watches the Amiga's      *)
(* interrupt line, and the CPU thread runs the core, tells it of interrupt *)
(* levels and serves the Amiga's accesses to its interrupt and keyboard    *)
(* registers (emulator.c).                                                 *)
(*                                                                         *)
(* PORTS is the only interrupt that is ever emulated: the AHI thread would *)
(* raise EXTER, but nothing sets its timing_enabled.                       *)
(*                                                                         *)
(* The queue of keys is only counted here; KeyQueue is about its threads.  *)
(* The program on the Amiga does what every PORTS server does: it reads    *)
(* INTREQR, CIAAICR and, told of a key, CIAADAT, and clears INTREQ.        *)
(***************************************************************************)
EXTENDS Integers, FiniteSetsExt

CONSTANTS
    Requests,   \* real interrupts: CIA timers on level 2, vertical blank on level 3
    MaxQueued,  \* bound: keys that wait (255 in the code)
    Pause,      \* is the pause key pressed?
    CanReset    \* is the Amiga reset?

ASSUME IrqAssumption ==
    /\ Requests \subseteq {2, 3}
    /\ MaxQueued \in Nat
    /\ Pause \in BOOLEAN /\ CanReset \in BOOLEAN

VARIABLES
    emulated_irqs,  \* is the PORTS bit set in it?
    emulated_ipl,
    raise,          \* where the keyboard thread is in amiga_emulate_irq
    hw,             \* levels of the real interrupts that are requested
    ipl_enabled,    \* is level 2 enabled?  (INTENA; the others do not vary)
    irq, last_irq, last_last_irq,
    int_level,      \* CPU_INT_LEVEL of the core
    cpu,            \* where the CPU thread is in cpu_task, a reset and INTREQ writes
    server,         \* what the Amiga's PORTS server does next
    kbd,            \* where the keyboard thread is in keyboard_task
    kb_hook_enabled,
    queued,         \* get_num_kb_queued
    overlap         \* history: was emulated_irqs changed by two threads at once?

emulated == <<emulated_irqs, emulated_ipl>>
delivery == <<irq, last_irq, last_last_irq, int_level>>
access == <<cpu, server>>
keyboard == <<kbd, kb_hook_enabled, queued>>
vars == <<emulated, raise, hw, ipl_enabled, delivery, access, keyboard, overlap>>

\* The entry of IPL[] that is used.
PORTS_IPL == 2
Levels == {0, 2, 3, 7}

Init ==
    /\ emulated_irqs = FALSE /\ emulated_ipl = 0
    /\ raise = "off"
    /\ hw = {} /\ ipl_enabled = FALSE
    /\ irq = FALSE /\ last_irq = 8 /\ last_last_irq = 8 /\ int_level = 0
    /\ cpu = "exec" /\ server = "off"
    /\ kbd = "poll" /\ kb_hook_enabled = TRUE /\ queued = 0
    /\ overlap = FALSE

\* What the lines IPL0-2 of the Amiga show: the highest enabled request.
Pins == {l \in hw : l = 3 \/ ipl_enabled}
PinLevel == IF Pins = {} THEN 0 ELSE Max(Pins)

\* A change of emulated_irqs that is under way.
Changing == raise \in {"or", "compare", "set"} \/ cpu \in {"store", "settle", "reset"}
MarkOverlap == overlap' = (overlap \/ Changing)

-----------------------------------------------------------------------------
\* amiga_emulate_irq: load, store, compare, store.

RaiseLoad ==
    /\ raise = "load"
    /\ raise' = "or"
    /\ MarkOverlap
    /\ UNCHANGED <<emulated, hw, ipl_enabled, delivery, access, keyboard>>

\* The other bits that were loaded are never set.
RaiseOr ==
    /\ raise = "or"
    /\ emulated_irqs' = TRUE
    /\ raise' = "compare"
    /\ UNCHANGED <<emulated_ipl, hw, ipl_enabled, delivery, access, keyboard, overlap>>

RaiseCompare ==
    /\ raise = "compare"
    /\ raise' = IF emulated_ipl < PORTS_IPL THEN "set" ELSE "off"
    /\ UNCHANGED <<emulated, hw, ipl_enabled, delivery, access, keyboard, overlap>>

RaiseSet ==
    /\ raise = "set"
    /\ emulated_ipl' = PORTS_IPL
    /\ raise' = "off"
    /\ UNCHANGED <<emulated_irqs, hw, ipl_enabled, delivery, access, keyboard, overlap>>

Raise == RaiseLoad \/ RaiseOr \/ RaiseCompare \/ RaiseSet

-----------------------------------------------------------------------------
\* keyboard_task.  The thread waits in poll() unless it raises an interrupt.

AtPoll == kbd = "poll" /\ raise = "off"

KeyPress_NoLimit ==
    /\ AtPoll
    /\ kb_hook_enabled
    /\ queued' = queued + 1
    /\ kbd' = "test"
    /\ UNCHANGED <<emulated, raise, hw, ipl_enabled, delivery, access, kb_hook_enabled, overlap>>

\* A key goes into the queue (or is dropped by a full one) ...
KeyPress ==
    /\ AtPoll
    /\ kb_hook_enabled
    /\ queued < MaxQueued
    /\ queued' = queued + 1
    /\ kbd' = "test"
    /\ UNCHANGED <<emulated, raise, hw, ipl_enabled, delivery, access, kb_hook_enabled, overlap>>

\* ... and an interrupt is raised for it unless level 2 was delivered last.
KeyTest ==
    /\ kbd = "test"
    /\ kbd' = "poll"
    /\ raise' = IF last_irq # 2 THEN "load" ELSE "off"
    /\ UNCHANGED <<emulated, hw, ipl_enabled, delivery, access, kb_hook_enabled, queued, overlap>>

PollTimeout_NotTwice ==
    /\ AtPoll
    /\ queued > 0 /\ last_irq # 2 /\ ~emulated_irqs
    /\ raise' = "load"
    /\ UNCHANGED <<emulated, hw, ipl_enabled, delivery, access, keyboard, overlap>>

\* Nothing typed for KEY_POLL_INTERVAL_MSEC, and keys still wait.
PollTimeout ==
    /\ AtPoll
    /\ queued > 0 /\ last_irq # 2
    /\ raise' = "load"
    /\ UNCHANGED <<emulated, hw, ipl_enabled, delivery, access, keyboard, overlap>>

\* The toggle key, or F12.
ToggleHook ==
    /\ AtPoll
    /\ kb_hook_enabled' = ~kb_hook_enabled
    /\ UNCHANGED <<emulated, raise, hw, ipl_enabled, delivery, access, kbd, queued, overlap>>

\* M68K_SET_IRQ(7)
PausePressed ==
    /\ Pause
    /\ AtPoll
    /\ int_level' = 7
    /\ UNCHANGED <<emulated, raise, hw, ipl_enabled, irq, last_irq, last_last_irq, access, keyboard, overlap>>

\* The keyboard is unplugged: the thread ends.
Unplugged ==
    /\ AtPoll
    /\ kbd' = "ended"
    /\ UNCHANGED <<emulated, raise, hw, ipl_enabled, delivery, access, kb_hook_enabled, queued, overlap>>

-----------------------------------------------------------------------------
\* The Amiga's hardware, and the IPL thread that samples its interrupt line.

\* Vertical blanks are 20 ms apart: the core has followed the last one.
Request(l) ==
    /\ l \notin hw
    /\ l = 3 => int_level # 3
    /\ hw' = hw \cup {l}
    /\ UNCHANGED <<emulated, raise, ipl_enabled, delivery, access, keyboard, overlap>>

IplSample ==
    /\ irq' = (Pins # {} \/ (emulated_ipl = 2 /\ ipl_enabled))
    /\ irq' # irq
    /\ UNCHANGED <<emulated, raise, hw, ipl_enabled, last_irq, last_last_irq, int_level, access, keyboard, overlap>>

-----------------------------------------------------------------------------
\* cpu_task: the core runs for a time slice (m68k_execute_bef), then its
\* interrupt level is looked after.

EndSlice ==
    /\ cpu = "exec"
    /\ cpu' = "level"
    /\ UNCHANGED <<emulated, raise, hw, ipl_enabled, delivery, server, keyboard, overlap>>

SetLevel ==
    /\ cpu = "level"
    /\ cpu' = "release"
    /\ last_irq' = IF irq THEN Max({PinLevel, emulated_ipl}) ELSE last_irq
    /\ IF irq /\ last_irq' # 0 /\ last_irq' # last_last_irq
          THEN int_level' = last_irq' /\ last_last_irq' = last_irq'
          ELSE UNCHANGED <<int_level, last_last_irq>>
    /\ UNCHANGED <<emulated, raise, hw, ipl_enabled, irq, server, keyboard, overlap>>

ReleaseLevel ==
    /\ cpu = "release"
    /\ cpu' = "exec"
    /\ IF ~irq /\ last_last_irq # 0
          THEN int_level' = 0 /\ last_last_irq' = 0
          ELSE UNCHANGED <<int_level, last_last_irq>>
    /\ UNCHANGED <<emulated, raise, hw, ipl_enabled, irq, last_irq, server, keyboard, overlap>>

\* do_reset: cpu_pulse_reset, with handle_reset_amiga, whose
\* amiga_clear_emulating_irq stores twice.  Keys stay in the queue.
Reset ==
    /\ CanReset
    /\ cpu = "exec"
    /\ emulated_irqs' = FALSE
    /\ hw' = {} /\ ipl_enabled' = FALSE
    /\ server' = "off"
    /\ cpu' = "reset"
    /\ MarkOverlap
    /\ UNCHANGED <<emulated_ipl, raise, delivery, keyboard>>

\* ... and m68k_pulse_reset.  last_last_irq keeps its value.
ResetLevels ==
    /\ cpu = "reset"
    /\ emulated_ipl' = 0
    /\ int_level' = 0
    /\ cpu' = "exec"
    /\ UNCHANGED <<emulated_irqs, raise, hw, ipl_enabled, irq, last_irq, last_last_irq, server, keyboard, overlap>>

-----------------------------------------------------------------------------
\* The program on the Amiga, and what its register accesses do in the CPU
\* thread.

\* INTENA is written.
Enable ==
    /\ cpu = "exec"
    /\ ipl_enabled' = ~ipl_enabled
    /\ UNCHANGED <<emulated, raise, hw, delivery, access, keyboard, overlap>>

\* The vertical blank's server clears its own request.
ServeVertb ==
    /\ cpu = "exec"
    /\ int_level = 3 /\ 3 \in hw
    /\ hw' = hw \ {3}
    /\ UNCHANGED <<emulated, raise, ipl_enabled, delivery, access, keyboard, overlap>>

\* An interrupt of level 2 is taken and INTREQR shows the request, emulated
\* or real (amiga_handle_intrqr_read).
Serve ==
    /\ cpu = "exec" /\ server = "off"
    /\ int_level = 2
    /\ emulated_irqs \/ 2 \in hw
    /\ server' = "icr"
    /\ UNCHANGED <<emulated, raise, hw, ipl_enabled, delivery, cpu, keyboard, overlap>>

\* CIAAICR announces a key if one waits and PORTS is emulated.
ReadCiaaIcr ==
    /\ cpu = "exec" /\ server = "icr"
    /\ server' = IF kb_hook_enabled /\ queued > 0 /\ emulated_irqs THEN "dat" ELSE "intreq"
    /\ UNCHANGED <<emulated, raise, hw, ipl_enabled, delivery, cpu, keyboard, overlap>>

\* CIAADAT takes it out of the queue.
ReadCiaaDat ==
    /\ cpu = "exec" /\ server = "dat"
    /\ server' = "intreq"
    /\ queued' = IF kb_hook_enabled /\ emulated_irqs /\ queued > 0 THEN queued - 1 ELSE queued
    /\ UNCHANGED <<emulated, raise, hw, ipl_enabled, delivery, cpu, kbd, kb_hook_enabled, overlap>>

\* amiga_handle_intrq_write.  Without an emulated interrupt the write goes to
\* the hardware; with it the hardware's own PORTS request stays.
WriteIntreq ==
    /\ cpu = "exec" /\ server = "intreq"
    /\ server' = "off"
    /\ IF ~emulated_irqs
          THEN hw' = hw \ {2} /\ UNCHANGED <<cpu, overlap>>
          ELSE cpu' = "store" /\ MarkOverlap /\ UNCHANGED hw
    /\ UNCHANGED <<emulated, raise, ipl_enabled, delivery, keyboard>>

IntreqStore ==
    /\ cpu = "store"
    /\ emulated_irqs' = FALSE
    /\ cpu' = "settle"
    /\ UNCHANGED <<emulated_ipl, raise, hw, ipl_enabled, delivery, server, keyboard, overlap>>

IntreqSettle_Stays ==
    /\ cpu = "settle"
    /\ emulated_ipl' \in {emulated_ipl, IF emulated_irqs THEN PORTS_IPL ELSE 0}
    /\ cpu' = "exec"
    /\ UNCHANGED <<emulated_irqs, raise, hw, ipl_enabled, delivery, server, keyboard, overlap>>

\* The level is found again from the bits that are left: those just stored,
\* or, if the compiler loads the variable again, those it has now.
IntreqSettle ==
    /\ cpu = "settle"
    /\ emulated_ipl' \in {0, IF emulated_irqs THEN PORTS_IPL ELSE 0}
    /\ cpu' = "exec"
    /\ UNCHANGED <<emulated_irqs, raise, hw, ipl_enabled, delivery, server, keyboard, overlap>>

-----------------------------------------------------------------------------
Servers == ServeVertb \/ Serve \/ ReadCiaaIcr \/ ReadCiaaDat \/ WriteIntreq

CpuLoop == EndSlice \/ SetLevel \/ ReleaseLevel \/ ResetLevels \/ IntreqStore \/ IntreqSettle

Keyboard == KeyPress \/ KeyTest \/ PollTimeout \/ ToggleHook \/ PausePressed \/ Unplugged

Next == \/ CpuLoop \/ Servers \/ Reset \/ Enable \/ Keyboard \/ Raise \/ IplSample
        \/ \E l \in Requests : Request(l)

\* Every thread is scheduled, vertical blanks keep coming, the program serves
\* the interrupts it gets, and poll() does not always return in the moments
\* when level 2 was delivered last.
Fairness ==
    /\ WF_vars(CpuLoop) /\ WF_vars(IplSample) /\ WF_vars(Request(3))
    /\ SF_vars(ServeVertb)
    /\ SF_vars(ReadCiaaIcr) /\ SF_vars(ReadCiaaDat)
    /\ SF_vars(Serve) /\ SF_vars(WriteIntreq)
    /\ WF_vars(Raise) /\ WF_vars(KeyTest) /\ SF_vars(PollTimeout)

Spec == Init /\ [][Next]_vars
FairSpec == Spec /\ Fairness

-----------------------------------------------------------------------------
\* Every variable has its type.
TypeOK ==
    /\ emulated_irqs \in BOOLEAN /\ emulated_ipl \in {0, PORTS_IPL}
    /\ raise \in {"off", "load", "or", "compare", "set"}
    /\ hw \subseteq Requests /\ ipl_enabled \in BOOLEAN
    /\ irq \in BOOLEAN /\ int_level \in Levels
    /\ last_irq \in Levels \cup {8} /\ last_last_irq \in Levels \cup {8}
    /\ cpu \in {"exec", "level", "release", "store", "settle", "reset"}
    /\ server \in {"off", "icr", "dat", "intreq"}
    /\ kbd \in {"poll", "test", "ended"} /\ kb_hook_enabled \in BOOLEAN
    /\ queued \in 0 .. MaxQueued
    /\ overlap \in BOOLEAN

\* Unless two threads changed emulated_irqs at once, across raises, their
\* repetitions, acknowledgements and resets: an emulated interrupt has its
\* level, and no level is left without an interrupt, which the Amiga's program
\* could not acknowledge.
LevelMatches ==
    ~overlap /\ ~Changing => emulated_ipl = IF emulated_irqs THEN PORTS_IPL ELSE 0

\* Keys the Amiga could get do not wait for ever: if from some time on keys
\* wait, the keyboard is connected, PORTS enabled and the CIA's timers silent,
\* one key after the other is read, whatever raises were lost by threads that
\* ran at the same time.  Not if the core is left at another level than the
\* CPU thread takes it to be told: the pause key puts 7 and a reset 0 in the
\* place of a level that is then not told again.
KeysGetThrough ==
    (/\ <>[](queued > 0 /\ kb_hook_enabled /\ kbd # "ended" /\ ipl_enabled /\ 2 \notin hw)
     /\ <>[](int_level # 7) /\ []<>(int_level = last_last_irq))
        => []<><<queued' < queued>>_queued
=============================================================================
