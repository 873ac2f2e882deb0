---------------------------- MODULE TouchScreen ----------------------------
(***************************************************************************)
(* The touch screen driver my_ts.c: the pen interrupt, the interrupt of    *)
(* the analogue-digital converter, the timer that takes up sampling again, *)
(* and the module's init and exit, on a processor with one core: an        *)
(* interrupt handler runs in one piece, it interrupts the timer function   *)
(* and the process that loads or unloads the module, and the timer         *)
(* function interrupts only that process.                                  *)
(***************************************************************************)
EXTENDS Integers, TimeAfter

CONSTANTS TsHalf,       \* half the range of jiffies
          TsPenMoves    \* bound on how often the pen is put down or lifted

ASSUME TouchAssumption == TsHalf \in Nat \ {0, 1} /\ TsPenMoves \in Nat

VARIABLES tsAt,         \* how far init and exit have come
          pen,          \* bit 15 of adcdat0: is the pen on the screen
          penMoves,
          adctsc,       \* what the controller is told to do
          converting,   \* bit 0 of adccon: a conversion is running
          penIrq, adcIrq, \* the two interrupts are pending
          count, xp,    \* samples counted, samples summed in xp and yp
          touch,        \* BTN_TOUCH as last reported
          reported,     \* samples in the sums of the last report, or None
          jiffies,
          tsTimer,      \* is my_timer pending
          tsExpires,
          tsFunc,       \* my_timer_func: what it read, when it is running
          tsRearmed,    \* the timer was armed again after del_timer
          tsFault       \* a register was used after iounmap

screenVars == <<pen, penMoves, adctsc, converting, penIrq, adcIrq>>
sampleVars == <<count, xp, touch, reported>>
timerVars  == <<tsTimer, tsExpires, tsFunc, tsRearmed>>
tsVars == <<tsAt, screenVars, sampleVars, jiffies, timerVars, tsFault>>

None == -1

\* The places of init and exit at which each interrupt is requested.
PenIrqOn == {"add_timer", "loaded", "del_timer"}
AdcIrqOn == PenIrqOn \cup {"free_irq_tc"}

\* HZ/100, the time my_timer is set to: a point of time, not a delay.
Expiry == 1

-----------------------------------------------------------------------------
(* The touch screen controller and the clock.                              *)

\* In the mode in which it waits for the pen to come down (or up) the
\* controller raises its interrupt when the pen is down (or up); it stays
\* pending until it is served.
DetectPen(pending) == penIrq' = (pending \/ adctsc' = pen')

PenIrq == penIrq /\ tsAt \in PenIrqOn

AdcIrq == adcIrq /\ tsAt \in AdcIrqOn

\* Interrupts are served before anything else goes on.
NoIrq == ~PenIrq /\ ~AdcIrq

TimerDue == tsTimer /\ time_after_eq(jiffies, tsExpires, TsHalf)

MovePen ==
  /\ penMoves < TsPenMoves
  /\ pen' = IF pen = "up" THEN "down" ELSE "up"
  /\ penMoves' = penMoves + 1
  /\ UNCHANGED <<tsAt, adctsc, converting, adcIrq, sampleVars, jiffies,
                 timerVars, tsFault>>
  /\ DetectPen(penIrq)

EndConversion ==
  /\ converting
  /\ converting' = FALSE
  /\ adcIrq' = TRUE
  /\ UNCHANGED <<tsAt, pen, penMoves, adctsc, penIrq, sampleVars, jiffies,
                 timerVars, tsFault>>

\* A timer that is due runs before the next tick.
TsTick ==
  /\ tsAt # "unloaded" /\ ~TimerDue /\ tsFunc = "idle"
  /\ jiffies' = Wrapped(jiffies + 1, TsHalf)
  /\ UNCHANGED <<tsAt, screenVars, sampleVars, timerVars, tsFault>>

-----------------------------------------------------------------------------
(* The functions of the driver.                                            *)

\* myts_auto_change and myts_start_adc
myts_sample ==
  /\ adctsc' = "auto"
  /\ converting' = TRUE
  /\ UNCHANGED <<pen, penMoves>>

\* The three input_report calls and input_sync after the pen was lifted, and
\* myts_wait_down
myts_lifted ==
  /\ touch' = 0
  /\ adctsc' = "down"
  /\ UNCHANGED <<pen, penMoves, converting, count, xp, reported>>

myts_ts_irq ==
  /\ PenIrq
  /\ \/ pen = "down" /\ myts_sample /\ UNCHANGED sampleVars
     \/ pen = "up" /\ myts_lifted
  /\ DetectPen(FALSE)
  /\ UNCHANGED <<tsAt, adcIrq, jiffies, timerVars, tsFault>>

\* Mutation of ReportSamples: the sums are not reset with count.
ReportSamplesKeepSums ==
  /\ reported' = xp
  /\ touch' = 1
  /\ count' = 0
  /\ UNCHANGED xp
  /\ tsTimer' = TRUE /\ tsExpires' = Expiry
  /\ tsRearmed' = (tsRearmed \/ tsAt = "free_irq_tc" \/ tsAt = "del_timer")
  /\ adctsc' = "up"
  /\ UNCHANGED <<pen, penMoves, converting, tsFunc>>

\* The part of myts_adc_irq in which four samples are complete.
ReportSamples ==
  /\ reported' = xp
  /\ touch' = 1
  /\ count' = 0
  /\ xp' = 0
  /\ tsTimer' = TRUE /\ tsExpires' = Expiry
  /\ tsRearmed' = (tsRearmed \/ tsAt = "free_irq_tc" \/ tsAt = "del_timer")
  /\ adctsc' = "up"
  /\ UNCHANGED <<pen, penMoves, converting, tsFunc>>

\* Mutation of AddSample: no further conversion is started.
AddSampleOnce ==
  /\ xp' = xp + 1
  /\ count' = count + 1
  /\ adctsc' = "auto"
  /\ UNCHANGED <<pen, penMoves, converting, touch, reported>>

\* The part of myts_adc_irq that adds a sample and starts the next conversion.
AddSample ==
  /\ xp' = xp + 1
  /\ count' = count + 1
  /\ myts_sample
  /\ UNCHANGED <<touch, reported>>

myts_adc_irq ==
  /\ AdcIrq
  /\ adcIrq' = FALSE
  /\ \/ pen = "down" /\ count = 4 /\ ReportSamples
     \/ pen = "down" /\ count # 4 /\ AddSample /\ UNCHANGED timerVars
     \/ pen = "up" /\ myts_lifted /\ UNCHANGED timerVars
  /\ DetectPen(penIrq)
  /\ UNCHANGED <<tsAt, jiffies, tsFault>>

\* my_timer_func reads bit 15 of adcdat0 ...
TimerRead ==
  /\ TimerDue /\ tsFunc = "idle" /\ NoIrq
  /\ tsTimer' = FALSE
  /\ tsFunc' = pen
  /\ tsFault' = (tsFault \/ tsAt = "gone")
  /\ UNCHANGED <<tsAt, screenVars, sampleVars, jiffies, tsExpires, tsRearmed>>

\* ... and acts on what it read; interrupts may have come in between.
TimerAct ==
  /\ tsFunc # "idle" /\ NoIrq
  /\ tsFunc' = "idle"
  /\ \/ tsFunc = "down" /\ myts_sample
     \/ tsFunc = "up" /\ adctsc' = "down" /\ UNCHANGED <<pen, penMoves, converting>>
  /\ DetectPen(penIrq)
  /\ UNCHANGED <<tsAt, adcIrq, sampleVars, jiffies, tsTimer, tsExpires,
                 tsRearmed, tsFault>>

-----------------------------------------------------------------------------
(* Module init and exit.                                                   *)

TsProcess(from, to) ==
  /\ tsAt = from /\ tsAt' = to
  /\ NoIrq /\ ~TimerDue /\ tsFunc = "idle"

\* myts_init up to add_timer, with an expiry of 0; the controller's mode is
\* what the last unload left.
InitIrqs ==
  /\ TsProcess("unloaded", "add_timer")
  /\ tsTimer' = TRUE /\ tsExpires' = 0
  /\ UNCHANGED <<screenVars, sampleVars, jiffies, tsFunc, tsRearmed, tsFault>>

InitWaitDown ==
  /\ TsProcess("add_timer", "loaded")
  /\ adctsc' = "down"
  /\ UNCHANGED <<pen, penMoves, converting, adcIrq, sampleVars, jiffies,
                 timerVars, tsFault>>
  /\ DetectPen(penIrq)

\* myts_exit, in its order
DelTimer ==
  /\ TsProcess("loaded", "del_timer")
  /\ tsTimer' = FALSE
  /\ UNCHANGED <<screenVars, sampleVars, jiffies, tsExpires, tsFunc, tsRearmed,
                 tsFault>>

FreeIrqTc ==
  /\ TsProcess("del_timer", "free_irq_tc")
  /\ UNCHANGED <<screenVars, sampleVars, jiffies, timerVars, tsFault>>

FreeIrqAdc ==
  /\ TsProcess("free_irq_tc", "free_irq_adc")
  /\ UNCHANGED <<screenVars, sampleVars, jiffies, timerVars, tsFault>>

\* iounmap, clk_disable, and the input device is unregistered and freed
Unmap ==
  /\ TsProcess("free_irq_adc", "gone")
  /\ UNCHANGED <<screenVars, sampleVars, jiffies, timerVars, tsFault>>

-----------------------------------------------------------------------------
\* jiffies starts shortly before it wraps round, as INITIAL_JIFFIES has it.
TsInit ==
  /\ tsAt = "unloaded"
  /\ pen = "up" /\ penMoves = 0
  /\ adctsc = "auto" /\ converting = FALSE
  /\ penIrq = FALSE /\ adcIrq = FALSE
  /\ count = 0 /\ xp = 0 /\ touch = 0 /\ reported = None
  /\ jiffies = 2 * TsHalf - 1
  /\ tsTimer = FALSE /\ tsExpires = 0 /\ tsFunc = "idle" /\ tsRearmed = FALSE
  /\ tsFault = FALSE

TsInterrupts == EndConversion \/ myts_ts_irq \/ myts_adc_irq

TsTimerRuns == TimerRead \/ TimerAct

TsNext == \/ MovePen
          \/ EndConversion \/ myts_ts_irq \/ myts_adc_irq
          \/ TsTick \/ TimerRead \/ TimerAct
          \/ InitIrqs \/ InitWaitDown
          \/ DelTimer \/ FreeIrqTc \/ FreeIrqAdc \/ Unmap

\* Conversions end, interrupts are served, time goes on, and timers that are
\* due run.
TsFairness == WF_tsVars(TsInterrupts) /\ WF_tsVars(TsTick) /\ WF_tsVars(TsTimerRuns)

TsSpec == TsInit /\ [][TsNext]_tsVars /\ TsFairness

-----------------------------------------------------------------------------
TsTypeOK ==
  /\ tsAt \in {"unloaded", "gone", "free_irq_adc"} \cup AdcIrqOn
  /\ pen \in {"up", "down"} /\ penMoves \in 0..TsPenMoves
  /\ adctsc \in {"auto", "up", "down"}
  /\ converting \in BOOLEAN /\ penIrq \in BOOLEAN /\ adcIrq \in BOOLEAN
  /\ count \in 0..4 /\ xp \in 0..4 /\ touch \in {0, 1}
  /\ reported \in {None} \cup 0..4
  /\ jiffies \in 0 .. 2 * TsHalf - 1
  /\ tsTimer \in BOOLEAN /\ tsExpires \in {0, Expiry}
  /\ tsFunc \in {"idle", "up", "down"}
  /\ tsRearmed \in BOOLEAN /\ tsFault \in BOOLEAN

\* Every position that is reported is a sum of four samples divided by four,
\* whatever interrupts and the timer do to each other's conversions and however
\* often the pen is lifted between the samples.
FourSamples == reported \in {None, 4}

\* What can still run when the registers are unmapped is only a timer that an
\* interrupt of the converter has armed after del_timer: both interrupts are
\* gone before iounmap.
OnlyTimerOutlives ==
  tsAt = "gone" => /\ tsTimer => tsRearmed
                   /\ tsFault => tsRearmed

TouchSafe == FourSamples /\ OnlyTimerOutlives

\* A pen that stays on the screen is sampled again and again, and one that is
\* lifted is reported as lifted: none of the interrupts that the driver trades
\* for another (pen down, conversion, timer, pen up) is ever given up without
\* the next one being on its way, and the timer, set to a fixed point of time,
\* comes due at the latest when jiffies has wrapped round.
TouchFollowsPen ==
  /\ <>[](tsAt = "loaded" /\ pen = "down") => /\ []<>(count = 0)
                                              /\ []<>(count = 4)
  /\ (tsAt = "loaded" /\ touch = 1 /\ pen = "up") ~>
       (touch = 0 \/ pen = "down" \/ tsAt # "loaded")
=============================================================================
