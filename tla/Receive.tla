------------------------------- MODULE Receive -------------------------------
(***************************************************************************)
(* What the reader thread does with the bytes of a read, next to the link  *)
(* monitor: every read that returned bytes stamps the time, and one of     *)
(* them may have completed an RTCM frame.                                  *)
(***************************************************************************)
EXTENDS LinkMonitor, RtcmRelay

vars == << monitorVars, rtcmVars >>

Init == MonitorInit /\ RtcmInit

\* The bytes are noise, or part of a frame.
ReadBytes == BytesRead /\ UNCHANGED rtcmVars

\* The bytes complete a frame, whose handler runs.
ReadRtcm == BytesRead /\ HandleRtcm

TimePasses == Tick /\ UNCHANGED rtcmVars

CheckLink == OnLinkCheckTimer /\ UNCHANGED rtcmVars

Next == ReadBytes \/ ReadRtcm \/ TimePasses \/ CheckLink

Spec == Init /\ [][Next]_vars
=============================================================================
