------------------------------- MODULE Waits -------------------------------
(***************************************************************************)
(* How core 0 waits: for the start of core 1, for room, for input, for a    *)
(* deadline.  It sleeps in wfe, but in the getchar and getchar_timeout of   *)
(* the mps2-an505 in wfi, and the only thing sure to wake it is the         *)
(* interrupt of the tick, which wraps.                                     *)
(*                                                                         *)
(* wfe has an event register that remembers a sev made while the core was   *)
(* awake; the handler of the tick does one on both boards.  wfi does not    *)
(* look at that register, nor remember an interrupt that was served just    *)
(* before it.  A turn of a waiting loop is much shorter than the 1 ms of a  *)
(* tick (kernel.c:14): between two looks at the clock there is one tick at  *)
(* most while the core is awake.                                           *)
(***************************************************************************)
EXTENDS Integers

CONSTANTS
  Ticks,  \* values of the tick, 2^32
  MaxMs   \* bound: the longest wait

ASSUME WaitsAssumption == Ticks \in Nat /\ Ticks > 2 /\ MaxMs \in 0 .. Ticks - 2

VARIABLES
  board,    \* "pico2" or "an505"
  tick, event,
  ready,    \* core 1 has set ready
  sev1,     \* core 1 has still to do its sev
  input,    \* a byte can be read
  room,     \* a byte can be written
  pc, call, t, ms, ret,
  elapsed,  \* history: ticks since the call, never more than Ticks
  age,      \* history: ticks since the byte came, never more than Ticks
  looked    \* no tick yet since the core looked at the clock

waitVars == <<pc, call, t, ms, ret>>
systemVars == <<board, tick, event, ready, sev1, input, room, waitVars, elapsed, age, looked>>

Timed == {"msleep", "getchar_timeout"}
Calls == Timed \cup {"start", "putchar", "getchar"}

WaitsInit ==
  /\ board \in {"pico2", "an505"}
  /\ tick = 0 /\ event = FALSE
  /\ ready = (board = "an505") /\ sev1 = FALSE
  /\ input = FALSE /\ room = TRUE
  /\ call = "start" /\ pc = "test" /\ t = 0 /\ ms = 0 /\ ret = "none"
  /\ elapsed = 0 /\ age = 0 /\ looked = TRUE

\* Mutant: a deadline is computed, and wraps.
PastDeadline == tick >= (t + ms) % Ticks

Past == (tick - t) % Ticks >= ms

\* What the loop of the call waits for, beside a deadline.
Satisfied ==
  CASE call = "start"   -> ready
    [] call = "putchar" -> room
    [] call = "msleep"  -> Past
    [] OTHER            -> input

Resume == IF call = "getchar_timeout" THEN "deadline" ELSE "test"

BeginWait(c, n) ==
  /\ pc = "return"
  /\ call' = c /\ pc' = "test" /\ t' = tick /\ ms' = n /\ ret' = "none"
  /\ elapsed' = 0 /\ looked' = TRUE
  /\ UNCHANGED <<board, tick, event, ready, sev1, input, room, age>>

\* putchar of an505 does not sleep.
Test ==
  /\ pc = "test"
  /\ pc' = IF Satisfied THEN "return"
           ELSE IF board = "an505" /\ call = "putchar" THEN "test" ELSE "wfe"
  /\ ret' = IF Satisfied THEN "done" ELSE ret
  /\ input' = (input /\ ~ (Satisfied /\ call \in {"getchar", "getchar_timeout"}))
  /\ room' = (room /\ ~ (Satisfied /\ call = "putchar"))
  /\ looked' = (looked \/ call = "msleep")
  /\ UNCHANGED <<board, tick, event, ready, sev1, call, t, ms, elapsed, age>>

Deadline ==
  /\ pc = "deadline"
  /\ pc' = IF Past THEN "return" ELSE "test"
  /\ ret' = IF ~ Past THEN ret ELSE IF input THEN "late byte" ELSE "timeout"
  /\ looked' = TRUE
  /\ UNCHANGED <<board, tick, event, ready, sev1, input, room, call, t, ms, elapsed, age>>

\* The loops that sleep in wfi; msleep is the same on both boards.
Wfi == board = "an505" /\ call # "msleep"

\* The instruction wfe, which goes on at once when the event register is set,
\* and clears it; or wfi.
Sleep ==
  /\ pc = "wfe"
  /\ event' = (event /\ Wfi)
  /\ pc' = IF event /\ ~ Wfi THEN Resume ELSE "asleep"
  /\ UNCHANGED <<board, tick, ready, sev1, input, room, call, t, ms, ret, elapsed, age, looked>>

\* Mutant: the handler counts and tells nobody.
WakeNobody == UNCHANGED <<pc, event>>

\* The interrupt ends both kinds of sleep; the sev in its handler comes after
\* that and stays in the register.
Wake ==
  /\ pc' = IF pc = "asleep" THEN Resume ELSE pc
  /\ event' = TRUE

\* A sev of core 1.  Whether it stays in the register of a core that it wakes
\* is left open.
Signal ==
  /\ pc' = IF pc = "asleep" /\ ~ Wfi THEN Resume ELSE pc
  /\ event' \in IF pc = "asleep" /\ ~ Wfi THEN BOOLEAN ELSE {TRUE}

OneMore(n) == IF n < Ticks THEN n + 1 ELSE Ticks

SysTick ==
  /\ looked \/ pc \in {"asleep", "return"}
  /\ tick' = (tick + 1) % Ticks
  /\ Wake
  /\ elapsed' = IF pc = "return" THEN elapsed ELSE OneMore(elapsed)
  /\ age' = IF pc = "return" THEN age ELSE OneMore(age)
  /\ looked' = FALSE
  /\ UNCHANGED <<board, ready, sev1, input, room, call, t, ms, ret>>

\* Core 1 and the UART say nothing when they move bytes.
Arrive ==
  /\ ~ input /\ ready
  /\ input' = TRUE /\ age' = 0
  /\ UNCHANGED <<board, tick, event, ready, sev1, room, waitVars, elapsed, looked>>

Drain ==
  /\ ~ room
  /\ room' = TRUE
  /\ UNCHANGED <<board, tick, event, ready, sev1, input, waitVars, elapsed, age, looked>>

\* core1(): ready=1, then sev.
SetReady ==
  /\ ~ ready
  /\ ready' = TRUE /\ sev1' = TRUE
  /\ UNCHANGED <<board, tick, event, input, room, waitVars, elapsed, age, looked>>

SendEvent ==
  /\ sev1
  /\ sev1' = FALSE
  /\ Signal
  /\ UNCHANGED <<board, tick, ready, input, room, call, t, ms, ret, elapsed, age, looked>>

Core0 == Test \/ Deadline \/ Sleep
WaitsNext ==
  \/ \E c \in Timed, n \in 0 .. MaxMs : BeginWait(c, n)
  \/ \E c \in {"putchar", "getchar"} : BeginWait(c, 0)
  \/ Core0 \/ SysTick \/ Arrive \/ Drain \/ SetReady \/ SendEvent

Fairness ==
  /\ WF_systemVars(Core0) /\ WF_systemVars(SysTick)
  /\ WF_systemVars(SetReady) /\ WF_systemVars(SendEvent)
WaitsSpec == WaitsInit /\ [][WaitsNext]_systemVars /\ Fairness

-----------------------------------------------------------------------------
\* The tick that wfi may sleep through.
Slack == IF Wfi THEN 1 ELSE 0

(***************************************************************************)
(* msleep and a time-out take the ticks that were asked for, none less and  *)
(* none more, on both boards; only the getchar_timeout of an505 can take    *)
(* one more, the tick that its wfi misses.  getchar_timeout(0) waits for a  *)
(* tick, too.  A time-out although a byte is there means that the byte came *)
(* in the last tick, or with wfi in the last two.                          *)
(***************************************************************************)
WaitsItsTime ==
  pc = "return" /\ call \in Timed =>
    /\ elapsed <= (IF ms = 0 THEN 1 ELSE ms) + Slack
    /\ call = "msleep" \/ ret # "done" => elapsed >= ms
    /\ ret = "late byte" => age <= 1 + Slack

(***************************************************************************)
(* Why it is so, at every place of the loop.  The difference of the ticks   *)
(* is what has passed; a core that has looked at the clock is before its    *)
(* deadline; with wfe a tick since then has left an event, so the core does *)
(* not sleep over it.  A byte that is there past the test came after the    *)
(* last look.                                                              *)
(***************************************************************************)
NumbersOK ==
  /\ tick \in 0 .. Ticks - 1 /\ t \in 0 .. Ticks - 1 /\ ms \in 0 .. MaxMs
  /\ elapsed \in 0 .. Ticks /\ age \in 0 .. Ticks

FlagsOK ==
  /\ event \in BOOLEAN /\ ready \in BOOLEAN /\ sev1 \in BOOLEAN
  /\ input \in BOOLEAN /\ room \in BOOLEAN /\ looked \in BOOLEAN

PlaceOK ==
  /\ board \in {"pico2", "an505"} /\ call \in Calls
  /\ pc \in {"test", "wfe", "asleep", "deadline", "return"}
  /\ pc = "deadline" => call = "getchar_timeout"
  /\ ret \in {"none", "done", "timeout", "late byte"}

WaitsTypeOK == NumbersOK /\ FlagsOK /\ PlaceOK

Due == IF ms = 0 THEN 1 ELSE ms

Counted ==
  call \in Timed /\ pc # "return" =>
    /\ (tick - t) % Ticks = elapsed
    /\ looked => elapsed < Due
    /\ elapsed <= Due + (IF pc = Resume THEN Slack ELSE 0)
    /\ ~ Wfi /\ pc = "asleep" => elapsed < Due
    /\ ~ Wfi /\ ~ looked /\ pc \in {"test", "wfe"} /\ pc # Resume => event

ByteIsNew ==
  call = "getchar_timeout" /\ input /\ pc \in {"wfe", "asleep", "deadline"} =>
    /\ looked => age = 0
    /\ age <= 1 + Slack
    /\ pc = "wfe" => age <= 1 /\ (~ Wfi /\ ~ event => age = 0)
    /\ pc = "asleep" => age <= Slack

WaitsInv == WaitsTypeOK /\ Counted /\ ByteIsNew /\ WaitsItsTime

(***************************************************************************)
(* A wait ends: msleep and getchar_timeout always, the others when there is *)
(* what they wait for, although who makes the room or brings the byte sends *)
(* no event.                                                               *)
(***************************************************************************)
WaitEnds ==
  /\ \A c \in Timed : (call = c /\ pc = "test") ~> pc = "return"
  /\ (pc = "test" /\ (call = "putchar" => room) /\ (call = "getchar" => input)) ~> pc = "return"
=============================================================================
