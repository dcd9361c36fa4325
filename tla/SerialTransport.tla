--------------------------- MODULE SerialTransport ---------------------------
(***************************************************************************)
(* The serial port as three parties share it: the reader thread, which     *)
(* opens, reads and closes it (reader_loop), the executor thread, whose TX *)
(* timer writes frames to it and which runs the destructor in the end, and *)
(* the kernel with an adapter that is plugged in and out.                  *)
(*                                                                         *)
(* The kernel's side is external: a descriptor is open on one plugging-in  *)
(* of the adapter and never works again once that one is over, even when   *)
(* the adapter is back.  A write to it then fails; what a read does is the *)
(* constant GoneReads.  open() of an absent device fails.                  *)
(*                                                                         *)
(* A thread's program counter names the call it will make next.            *)
(***************************************************************************)
EXTENDS Integers, FiniteSets

CONSTANTS
  Fds,            \* the file descriptors the process has left for the port
  None,           \* the -1 of fd_
  BaudRates,      \* what baud_rate_ may be: "listed" by baud_to_speed(), or "unlisted"
  GoneReads,      \* what read() may report of a device that is gone
  MaxPlugs,       \* bound on how often the adapter is plugged in
  FrameSize       \* bound on the pieces a frame is written in

ASSUME TransportAssumption ==
  /\ None \notin Fds
  /\ BaudRates \subseteq {"listed", "unlisted"}
  /\ GoneReads \subseteq {"error", "eof"} /\ GoneReads # {}
  /\ MaxPlugs \in Nat \ {0}
  /\ FrameSize \in Nat \ {0}

VARIABLES
  baud_rate,\* baud_rate_, a parameter
  present,  \* the adapter is plugged in
  plug,     \* for the plug-th time
  files,    \* what each descriptor is open on: a plugging-in, 0 when closed
  fd,       \* fd_
  running,  \* running_
  reader,   \* the reader thread's program counter
  local,    \* the descriptor in the local variable fd of open() or read()
  held,     \* the sessions whose bytes wait in the parser: "old", "current"
  executor, \* the executor thread's program counter
  written   \* pieces of the current frame written

deviceVars   == << baud_rate, present, plug >>
readerVars   == << reader, local, held >>
executorVars == << running, executor, written >>
vars == << baud_rate, present, plug, files, fd, running, reader, local, held, executor, written >>

Gone(f) == ~present \/ f = None \/ files[f] # plug

\* write_frame() holds write_mutex_ from its check of fd_ to its return.
WriteMutexFree == executor \notin {"write", "drain"}

-----------------------------------------------------------------------------
Init ==
  /\ baud_rate \in BaudRates
  /\ present \in BOOLEAN
  /\ plug = IF present THEN 1 ELSE 0
  /\ files = [f \in Fds |-> 0]
  /\ fd = None
  /\ running = TRUE
  /\ reader = "check"
  /\ local = None
  /\ held = {}
  /\ executor = "spin"
  /\ written = 0

-----------------------------------------------------------------------------
(* The adapter *)

Unplug ==
  /\ present
  /\ present' = FALSE
  /\ UNCHANGED << baud_rate, plug, files, fd, readerVars, executorVars >>

Plug ==
  /\ ~present
  /\ plug < MaxPlugs
  /\ present' = TRUE
  /\ plug' = plug + 1
  /\ UNCHANGED << baud_rate, files, fd, readerVars, executorVars >>

-----------------------------------------------------------------------------
(* close(): both threads call it *)

\* Variant: the exchange and ::close without the mutex.
CloseUnguarded ==
  /\ fd' = None
  /\ files' = [f \in Fds |-> IF f = fd THEN 0 ELSE files[f]]

Close ==
  /\ WriteMutexFree
  /\ fd' = None
  /\ files' = [f \in Fds |-> IF f = fd THEN 0 ELSE files[f]]

-----------------------------------------------------------------------------
(* The reader thread *)

\* Variant: the stop flag is not looked at again.
CheckIgnoresStop ==
  /\ reader = "check"
  /\ reader' = IF fd = None THEN "open" ELSE "read"
  /\ UNCHANGED << deviceVars, files, fd, local, held, executorVars >>

\* The head of the loop: running_, then is_open().
Check ==
  /\ reader = "check"
  /\ reader' = IF ~running THEN "exited" ELSE IF fd = None THEN "open" ELSE "read"
  /\ UNCHANGED << deviceVars, files, fd, local, held, executorVars >>

\* open() first closes what may be open.
OpenCloses ==
  /\ reader = "open"
  /\ Close
  /\ reader' = "opening"
  /\ UNCHANGED << deviceVars, local, held, executorVars >>

OpenDevice ==
  /\ reader = "opening"
  /\ present
  /\ \E f \in Fds :
        /\ files[f] = 0
        /\ files' = [files EXCEPT ![f] = plug]
        /\ local' = f
  /\ reader' = "configure"
  /\ UNCHANGED << deviceVars, fd, held, executorVars >>

\* No device, or no descriptor left.
OpenFails ==
  /\ reader = "opening"
  /\ \/ ~present
     \/ \A f \in Fds : files[f] # 0
  /\ reader' = "sleep"
  /\ UNCHANGED << deviceVars, files, fd, local, held, executorVars >>

\* tcgetattr, baud_to_speed and tcsetattr succeed; tcflush empties the port.
Configure ==
  /\ reader = "configure"
  /\ baud_rate = "listed"
  /\ ~Gone(local)
  /\ reader' = "publish"
  /\ UNCHANGED << deviceVars, files, fd, local, held, executorVars >>

\* Variant: the descriptor is forgotten when the device vanishes during open().
ConfigureFailsOpen ==
  /\ reader = "configure"
  /\ Gone(local)
  /\ reader' = "sleep"
  /\ local' = None
  /\ UNCHANGED << deviceVars, files, fd, held, executorVars >>

\* tcgetattr or tcsetattr fails: the descriptor is closed before the throw.
ConfigureFails ==
  /\ reader = "configure"
  /\ Gone(local)
  /\ files' = [files EXCEPT ![local] = 0]
  /\ local' = None
  /\ reader' = "sleep"
  /\ UNCHANGED << deviceVars, fd, held, executorVars >>

\* baud_to_speed throws between the two: nothing closes the descriptor.
BaudThrows ==
  /\ reader = "configure"
  /\ baud_rate = "unlisted"
  /\ local' = None
  /\ reader' = "sleep"
  /\ UNCHANGED << deviceVars, files, fd, held, executorVars >>

\* fd_ = fd, without the mutex.
Publish ==
  /\ reader = "publish"
  /\ fd' = local
  /\ held' = IF held = {} THEN {} ELSE {"old"}
  /\ reader' = "reset"
  /\ UNCHANGED << deviceVars, files, local, executorVars >>

\* Variant: the parser keeps what it has.
ResetForgotten ==
  /\ reader = "reset"
  /\ reader' = "read"
  /\ UNCHANGED << deviceVars, files, fd, local, held, executorVars >>

\* parser_.reset()
Reset ==
  /\ reader = "reset"
  /\ held' = {}
  /\ reader' = "read"
  /\ UNCHANGED << deviceVars, files, fd, local, executorVars >>

\* read() loads fd_ once and uses the value it loaded.
LoadFd ==
  /\ reader = "read"
  /\ local' = fd
  /\ reader' = IF fd = None THEN "failed" ELSE "reading"
  /\ UNCHANGED << deviceVars, files, fd, held, executorVars >>

\* Bytes arrive; the parser returns what it can and keeps a rest, or nothing.
ReadBytes ==
  /\ reader = "reading"
  /\ ~Gone(local)
  /\ held' \in { {}, held \cup {"current"} }
  /\ reader' = "check"
  /\ UNCHANGED << deviceVars, files, fd, local, executorVars >>

\* read() returns 0: a timeout, an interrupted call, or the end of file of a dead port.
ReadNothing ==
  /\ reader = "reading"
  /\ ~Gone(local) \/ "eof" \in GoneReads
  /\ reader' = "check"
  /\ UNCHANGED << deviceVars, files, fd, local, held, executorVars >>

\* Variant: a read error is taken for a timeout.
ReadErrorIgnored ==
  /\ reader = "reading"
  /\ ~Gone(local) \/ "error" \in GoneReads
  /\ reader' = "check"
  /\ UNCHANGED << deviceVars, files, fd, local, held, executorVars >>

\* read() reports an error, of a device that is gone or of any other kind: throw.
ReadFails ==
  /\ reader = "reading"
  /\ ~Gone(local) \/ "error" \in GoneReads
  /\ reader' = "failed"
  /\ UNCHANGED << deviceVars, files, fd, local, held, executorVars >>

CloseAfterError ==
  /\ reader = "failed"
  /\ Close
  /\ reader' = "sleep"
  /\ UNCHANGED << deviceVars, local, held, executorVars >>

\* kOpenRetryDelay is over.
Wake ==
  /\ reader = "sleep"
  /\ reader' = "check"
  /\ UNCHANGED << deviceVars, files, fd, local, held, executorVars >>

-----------------------------------------------------------------------------
(* The executor thread *)

\* write_frame() with the port open; with the port closed it returns at once.
StartWrite ==
  /\ executor = "spin"
  /\ fd # None
  /\ executor' = "write"
  /\ written' = 0
  /\ UNCHANGED << deviceVars, files, fd, readerVars, running >>

\* Variant: the length of the whole frame is passed with every call.
WriteOverrun ==
  /\ executor = "write"
  /\ ~Gone(fd)
  /\ written' \in (written + 1)..(written + FrameSize)
  /\ executor' = IF written' >= FrameSize THEN "drain" ELSE "write"
  /\ UNCHANGED << deviceVars, files, fd, readerVars, running >>

\* ::write takes some of the rest; every round reads fd_ again.  A call that is interrupted
\* or takes nothing is tried again, a step that changes nothing.
WritePiece ==
  /\ executor = "write"
  /\ ~Gone(fd)
  /\ written' \in (written + 1)..FrameSize
  /\ executor' = IF written' = FrameSize THEN "drain" ELSE "write"
  /\ UNCHANGED << deviceVars, files, fd, readerVars, running >>

\* A write error, of a device that is gone or of any other kind: the rest of the frame is
\* dropped and the port stays open.
WriteFails ==
  /\ executor = "write"
  /\ executor' = "spin"
  /\ UNCHANGED << deviceVars, files, fd, readerVars, running, written >>

\* tcdrain() returns; its result is not looked at.
Drained ==
  /\ executor = "drain"
  /\ executor' = "spin"
  /\ UNCHANGED << deviceVars, files, fd, readerVars, running, written >>

\* spin() returns, the destructor starts: running_ = false.
Shutdown ==
  /\ executor = "spin"
  /\ running' = FALSE
  /\ executor' = "join"
  /\ UNCHANGED << deviceVars, files, fd, readerVars, written >>

\* Variant: the reader thread is not waited for.
JoinForgotten ==
  /\ executor = "join"
  /\ executor' = "close"
  /\ UNCHANGED << deviceVars, files, fd, readerVars, running, written >>

Join ==
  /\ executor = "join"
  /\ reader = "exited"
  /\ executor' = "close"
  /\ UNCHANGED << deviceVars, files, fd, readerVars, running, written >>

FinalClose ==
  /\ executor = "close"
  /\ Close
  /\ executor' = "done"
  /\ UNCHANGED << deviceVars, readerVars, running, written >>

-----------------------------------------------------------------------------
Device == Unplug \/ Plug

Reader ==
  \/ Check \/ OpenCloses \/ OpenDevice \/ OpenFails
  \/ Configure \/ ConfigureFails \/ BaudThrows \/ Publish \/ Reset
  \/ LoadFd \/ ReadBytes \/ ReadNothing \/ ReadFails
  \/ CloseAfterError \/ Wake

\* What the executor does without anyone asking it to.
Proceed == WritePiece \/ WriteFails \/ Drained \/ Join \/ FinalClose

Terminated == executor = "done" /\ UNCHANGED vars

Next == Device \/ Reader \/ StartWrite \/ Proceed \/ Shutdown \/ Terminated

Spec == Init /\ [][Next]_vars

\* Both threads are scheduled and the kernel's calls return.  The reader thread that
\* waits for write_mutex_ in close() gets it in the end: the TX timer leaves it free
\* between its ticks.
FairSpec ==
  /\ Spec
  /\ WF_vars(Reader)
  /\ WF_vars(Proceed)
  /\ SF_vars(CloseAfterError)

-----------------------------------------------------------------------------
(* Properties *)

\* Types; write_frame() never counts beyond the end of its frame
\* (serial_transport.cpp:137-147).
TypeOK ==
  /\ baud_rate \in BaudRates
  /\ present \in BOOLEAN
  /\ plug \in 0..MaxPlugs
  /\ files \in [Fds -> 0..MaxPlugs]
  /\ fd \in Fds \cup {None}
  /\ running \in BOOLEAN
  /\ reader \in {"check", "open", "opening", "configure", "publish", "reset", "read",
                 "reading", "failed", "sleep", "exited"}
  /\ local \in Fds \cup {None}
  /\ held \subseteq {"old", "current"}
  /\ executor \in {"spin", "write", "drain", "join", "close", "done"}
  /\ written \in 0..FrameSize

\* No system call is made on a descriptor that the other thread has closed, or that was
\* never opened: its number may belong to a socket of the node by then
\* (serial_transport.cpp:115-120 and 137-152 against close(), 99-106).
CallsHitAnOpenPort ==
  /\ reader \in {"configure", "publish", "reading"} => local # None /\ files[local] # 0
  /\ executor \in {"write", "drain"} => fd # None /\ files[fd] # 0

\* With a baud rate that baud_to_speed() lists, every descriptor that is open on the
\* port is in fd_ or in the hands of open(): the retry loop can run for ever without
\* using up the process's descriptors, and nothing is left open at the end
\* (serial_transport.cpp:40-106, radio_bridge_node.cpp:66-73).
DescriptorsAccountedFor ==
  /\ \A f \in Fds : files[f] # 0 =>
       f = fd \/ (f = local /\ reader \in {"configure", "publish"})
  /\ executor = "done" => \A f \in Fds : files[f] = 0
NoDescriptorLost == baud_rate = "listed" => DescriptorsAccountedFor

\* A frame goes to one open port as a whole: the port is neither closed nor replaced
\* under write_frame(), so the tail of a frame is never the first thing a new session
\* sends (serial_transport.cpp:130-154).
FrameStaysOnOnePort ==
  [][~WriteMutexFree => fd' = fd /\ (fd # None => files'[fd] = files[fd])]_vars

\* The parser never joins bytes of two sessions: what the old one left is gone before
\* the first byte of the new one is fed (radio_bridge_node.cpp:425-455).
OneSessionInParser == ~({"old", "current"} \subseteq held)

\* While the node runs and the adapter stays, the port gets open on it: an unplugged
\* radio is picked up again when it is back (radio_bridge_node.cpp:424-486).
OpenOnAdapter == ~Gone(fd)
Reconnects ==
  (present /\ running /\ baud_rate = "listed") ~> (OpenOnAdapter \/ ~present \/ ~running)

\* How many steps each thread has left at most, once the flag is down.
ReaderSteps ==
  [ open |-> 10, opening |-> 9, configure |-> 8, publish |-> 7, reset |-> 6, read |-> 5,
    reading |-> 4, failed |-> 3, sleep |-> 2, check |-> 1, exited |-> 0 ]
ExecutorSteps == [ write |-> 5, drain |-> 4, spin |-> 3, join |-> 2, close |-> 1, done |-> 0 ]
StepsLeft == ReaderSteps[reader] + ExecutorSteps[executor]

\* Once running_ is false each step of either thread brings the end of the destructor nearer,
\* wherever the reader was: no path of reader_loop, failures and retries included, leads
\* back to an earlier point, and no frame is begun any more
\* (radio_bridge_node.cpp:66-73 and 420-487).
ShutdownAdvances ==
  [][~running /\ << reader, executor >>' # << reader, executor >> => StepsLeft' < StepsLeft]_vars

\* The destructor gets to its end, whatever the two threads were doing
\* (radio_bridge_node.cpp:66-73).
ShutdownCompletes == ~running ~> executor = "done"
=============================================================================
