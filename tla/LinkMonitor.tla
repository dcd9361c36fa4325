----------------------------- MODULE LinkMonitor -----------------------------
(***************************************************************************)
(* The watch over the radio link: the reader thread stamps                 *)
(* last_rx_steady_ns_ whenever a read returned bytes, of a frame or of     *)
(* noise, and a timer of the executor compares it with the clock.          *)
(*                                                                         *)
(* Time goes in ticks.  silence is the age of last_rx_steady_ns_, or the   *)
(* time since the start while that is still 0 (heard FALSE); it stops at   *)
(* SilenceCap, beyond which nothing is told apart.  The executor may be    *)
(* busy when the timer is due, for at most MaxLate ticks.  Two variables   *)
(* are not in the code: unheard, no byte came since the monitor reported   *)
(* the link down, and in_time, how long bytes have come in time by now.    *)
(***************************************************************************)
EXTENDS Integers

CONSTANTS
  radio_timeout,  \* in ticks
  CheckPeriod,    \* of link_check_timer_, in ticks
  MaxLate         \* bound on how late the timer's callback runs

ASSUME MonitorAssumption ==
  /\ radio_timeout \in Int
  /\ CheckPeriod \in Nat \ {0}
  /\ MaxLate \in Nat

VARIABLES
  heard,          \* last_rx_steady_ns_ is not 0
  silence,
  since_check,    \* ticks since on_link_check_timer ran
  link_was_down,
  unheard,
  in_time

monitorVars == << heard, silence, since_check, link_was_down, unheard, in_time >>

\* The longest time between two checks, and the longest silence told apart.
MaxBetween == CheckPeriod + MaxLate
SilenceCap == MaxBetween + (IF radio_timeout > 0 THEN radio_timeout ELSE 0) + 1

MonitorInit ==
  /\ heard = FALSE
  /\ silence = 0
  /\ since_check = 0
  /\ link_was_down = FALSE
  /\ unheard = FALSE
  /\ in_time = 0

\* Variant: a read that timed out without a byte is stamped too.
StampsTimeouts ==
  /\ heard' = TRUE
  /\ silence' = 0
  /\ unheard' \in {unheard, FALSE}
  /\ UNCHANGED << since_check, link_was_down, in_time >>

\* The reader thread: a read returned bytes.
BytesRead ==
  /\ heard' = TRUE
  /\ silence' = 0
  /\ unheard' = FALSE
  /\ UNCHANGED << since_check, link_was_down, in_time >>

\* The last bytes are no older than they may be.
InTime == heard /\ silence <= radio_timeout

\* Time passes, but not beyond what the timer may be late.
Tick ==
  /\ since_check < MaxBetween
  /\ since_check' = since_check + 1
  /\ silence' = IF silence < SilenceCap THEN silence + 1 ELSE silence
  /\ UNCHANGED << heard, link_was_down, unheard >>
  /\ in_time' =
       IF ~InTime' THEN 0 ELSE IF in_time <= MaxBetween THEN in_time + 1 ELSE in_time

\* Variant: only the age is looked at.
QuietIgnoresZero == silence > radio_timeout

\* Variant: a link that is down stays down.
QuietForGood == link_was_down \/ ~heard \/ silence > radio_timeout

\* The link looks down: no byte since the start, or none for radio_timeout.
Quiet == ~heard \/ silence > radio_timeout

\* on_link_check_timer: reports down, or recovered when it was down.
OnLinkCheckTimer ==
  /\ since_check >= CheckPeriod
  /\ since_check' = 0
  /\ link_was_down' = Quiet
  /\ unheard' = (unheard \/ (Quiet /\ ~link_was_down))
  /\ UNCHANGED << heard, silence, in_time >>

MonitorNext == BytesRead \/ Tick \/ OnLinkCheckTimer

MonitorSpec == MonitorInit /\ [][MonitorNext]_monitorVars

-----------------------------------------------------------------------------
(* Properties *)

MonitorTypeOK ==
  /\ heard \in BOOLEAN /\ link_was_down \in BOOLEAN /\ unheard \in BOOLEAN
  /\ silence \in 0..SilenceCap
  /\ since_check \in 0..MaxBetween
  /\ in_time \in 0..(MaxBetween + 1)

\* Silence is noticed in time, at the start too: a link that has been silent for
\* radio_timeout and the longest time between two checks is reported down
\* (radio_bridge_node.cpp:393-411).
SilenceNoticed ==
  silence > MaxBetween /\ (silence > radio_timeout + MaxBetween \/ ~heard) => link_was_down

\* A link is not reported recovered unless bytes came since it was reported down
\* (radio_bridge_node.cpp:412-415).
RecoveredByBytes == [][link_was_down /\ ~link_was_down' => ~unheard]_monitorVars

\* A recovery is noticed in time: a link on which bytes have come in time for longer than
\* the time between two checks is not reported down (radio_bridge_node.cpp:404-415).
RecoveredInTime == in_time > MaxBetween => ~link_was_down
=============================================================================
