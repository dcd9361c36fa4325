------------------------ MODULE SerialTransportProofs ------------------------
(***************************************************************************)
(* Proofs about SerialTransport for any number of descriptors, pluggings   *)
(* and pieces of a frame.  Who may hold the port at each point of the      *)
(* reader's loop and of the executor's work is the inductive invariant.    *)
(***************************************************************************)
EXTENDS SerialTransport, TLAPS

\* Where the reader's loop has the port closed, and where it has it open.
Opening == {"open", "opening", "configure", "publish", "sleep"}
Using   == {"reset", "read", "reading", "failed"}

\* What each thread holds at each point of its program.
Holding ==
  /\ present => plug # 0
  /\ fd # None => files[fd] # 0
  /\ reader \in Opening => fd = None
  /\ reader \in Using /\ executor # "done" => fd # None
  /\ reader \in {"configure", "publish"} => local # None /\ files[local] # 0
  /\ reader = "reading" => local = fd
  /\ executor \in {"write", "drain"} => fd # None
  /\ executor \in {"close", "done"} => reader = "exited"
  /\ executor = "done" => fd = None

\* Old bytes are in the parser only between the opening of the port and the reset.
OldBytes ==
  /\ reader # "reset" => held \subseteq {"current"}
  /\ reader = "reset" => held \subseteq {"old"}

IInv == TypeOK /\ Holding /\ OldBytes

-----------------------------------------------------------------------------
\* The invariant holds when the reader thread starts (radio_bridge_node.cpp:47).
LEMMA IInvInit == Init => IInv
<1> SUFFICES ASSUME Init  PROVE IInv
  OBVIOUS
<1>1. TypeOK
  BY TransportAssumption DEF Init, TypeOK
<1>2. Holding
  BY DEF Init, Holding, Opening, Using
<1>3. OldBytes
  BY DEF Init, OldBytes
<1>4. QED  BY <1>1, <1>2, <1>3 DEF IInv

\* Every step of either thread, and of the adapter, preserves the invariant.
LEMMA IInvStep == IInv /\ [Next]_vars => IInv'
<1> SUFFICES ASSUME IInv, [Next]_vars  PROVE IInv'
  OBVIOUS
<1> USE TransportAssumption DEF IInv, deviceVars, readerVars, executorVars
<1>1. CASE Unplug
  <2>1. TypeOK'
    BY <1>1 DEF Unplug, TypeOK
  <2>2. Holding'
    BY <1>1 DEF Unplug, TypeOK, Holding, Opening, Using, Gone
  <2>3. OldBytes'
    BY <1>1 DEF Unplug, OldBytes
  <2>4. QED  BY <2>1, <2>2, <2>3
<1>2. CASE Plug
  <2>1. TypeOK'
    BY <1>2 DEF Plug, TypeOK
  <2>2. Holding'
    BY <1>2 DEF Plug, TypeOK, Holding, Opening, Using, Gone
  <2>3. OldBytes'
    BY <1>2 DEF Plug, OldBytes
  <2>4. QED  BY <2>1, <2>2, <2>3
<1>3. CASE Check
  <2>1. TypeOK'
    BY <1>3 DEF Check, TypeOK
  <2>2. Holding'
    BY <1>3 DEF Check, TypeOK, Holding, Opening, Using, Gone
  <2>3. OldBytes'
    BY <1>3 DEF Check, OldBytes
  <2>4. QED  BY <2>1, <2>2, <2>3
<1>4. CASE OpenCloses
  <2>1. TypeOK'
    BY <1>4 DEF OpenCloses, Close, WriteMutexFree, TypeOK
  <2>2. Holding'
    BY <1>4 DEF OpenCloses, Close, WriteMutexFree, TypeOK, Holding, Opening, Using, Gone
  <2>3. OldBytes'
    BY <1>4 DEF OpenCloses, OldBytes
  <2>4. QED  BY <2>1, <2>2, <2>3
<1>5. CASE OpenDevice
  <2>1. TypeOK'
    BY <1>5 DEF OpenDevice, TypeOK
  <2>2. Holding'
    BY <1>5 DEF OpenDevice, TypeOK, Holding, Opening, Using, Gone
  <2>3. OldBytes'
    BY <1>5 DEF OpenDevice, OldBytes
  <2>4. QED  BY <2>1, <2>2, <2>3
<1>6. CASE OpenFails
  <2>1. TypeOK'
    BY <1>6 DEF OpenFails, TypeOK
  <2>2. Holding'
    BY <1>6 DEF OpenFails, TypeOK, Holding, Opening, Using, Gone
  <2>3. OldBytes'
    BY <1>6 DEF OpenFails, OldBytes
  <2>4. QED  BY <2>1, <2>2, <2>3
<1>7. CASE Configure
  <2>1. TypeOK'
    BY <1>7 DEF Configure, TypeOK
  <2>2. Holding'
    BY <1>7 DEF Configure, TypeOK, Holding, Opening, Using, Gone
  <2>3. OldBytes'
    BY <1>7 DEF Configure, OldBytes
  <2>4. QED  BY <2>1, <2>2, <2>3
<1>8. CASE ConfigureFails
  <2>1. TypeOK'
    <3>1. files' \in [Fds -> 0..MaxPlugs]
      <4>1. 0 \in 0..MaxPlugs
        OBVIOUS
      <4>2. files \in [Fds -> 0..MaxPlugs] /\ files' = [files EXCEPT ![local] = 0]
        BY <1>8 DEF ConfigureFails, TypeOK
      <4>3. QED  BY <4>1, <4>2
    <3>2. QED  BY <1>8, <3>1 DEF ConfigureFails, TypeOK
  <2>2. Holding'
    BY <1>8 DEF ConfigureFails, TypeOK, Holding, Opening, Using, Gone
  <2>3. OldBytes'
    BY <1>8 DEF ConfigureFails, OldBytes
  <2>4. QED  BY <2>1, <2>2, <2>3
<1>9. CASE BaudThrows
  <2>1. TypeOK'
    BY <1>9 DEF BaudThrows, TypeOK
  <2>2. Holding'
    BY <1>9 DEF BaudThrows, TypeOK, Holding, Opening, Using, Gone
  <2>3. OldBytes'
    BY <1>9 DEF BaudThrows, OldBytes
  <2>4. QED  BY <2>1, <2>2, <2>3
<1>10. CASE Publish
  <2>1. TypeOK'
    BY <1>10 DEF Publish, TypeOK
  <2>2. Holding'
    BY <1>10 DEF Publish, TypeOK, Holding, Opening, Using, Gone
  <2>3. OldBytes'
    BY <1>10 DEF Publish, OldBytes
  <2>4. QED  BY <2>1, <2>2, <2>3
<1>11. CASE Reset
  <2>1. TypeOK'
    BY <1>11 DEF Reset, TypeOK
  <2>2. Holding'
    BY <1>11 DEF Reset, TypeOK, Holding, Opening, Using, Gone
  <2>3. OldBytes'
    BY <1>11 DEF Reset, OldBytes
  <2>4. QED  BY <2>1, <2>2, <2>3
<1>12. CASE LoadFd
  <2>1. TypeOK'
    BY <1>12 DEF LoadFd, TypeOK
  <2>2. Holding'
    BY <1>12 DEF LoadFd, TypeOK, Holding, Opening, Using, Gone
  <2>3. OldBytes'
    BY <1>12 DEF LoadFd, OldBytes
  <2>4. QED  BY <2>1, <2>2, <2>3
<1>13. CASE ReadBytes
  <2>1. TypeOK'
    BY <1>13 DEF ReadBytes, TypeOK
  <2>2. Holding'
    BY <1>13 DEF ReadBytes, TypeOK, Holding, Opening, Using, Gone
  <2>3. OldBytes'
    BY <1>13 DEF ReadBytes, OldBytes
  <2>4. QED  BY <2>1, <2>2, <2>3
<1>14. CASE ReadNothing
  <2>1. TypeOK'
    BY <1>14 DEF ReadNothing, TypeOK
  <2>2. Holding'
    BY <1>14 DEF ReadNothing, TypeOK, Holding, Opening, Using, Gone
  <2>3. OldBytes'
    BY <1>14 DEF ReadNothing, OldBytes
  <2>4. QED  BY <2>1, <2>2, <2>3
<1>15. CASE ReadFails
  <2>1. TypeOK'
    BY <1>15 DEF ReadFails, TypeOK
  <2>2. Holding'
    BY <1>15 DEF ReadFails, TypeOK, Holding, Opening, Using, Gone
  <2>3. OldBytes'
    BY <1>15 DEF ReadFails, OldBytes
  <2>4. QED  BY <2>1, <2>2, <2>3
<1>16. CASE CloseAfterError
  <2>1. TypeOK'
    BY <1>16 DEF CloseAfterError, Close, WriteMutexFree, TypeOK
  <2>2. Holding'
    BY <1>16 DEF CloseAfterError, Close, WriteMutexFree, TypeOK, Holding, Opening, Using, Gone
  <2>3. OldBytes'
    BY <1>16 DEF CloseAfterError, OldBytes
  <2>4. QED  BY <2>1, <2>2, <2>3
<1>17. CASE Wake
  <2>1. TypeOK'
    BY <1>17 DEF Wake, TypeOK
  <2>2. Holding'
    BY <1>17 DEF Wake, TypeOK, Holding, Opening, Using, Gone
  <2>3. OldBytes'
    BY <1>17 DEF Wake, OldBytes
  <2>4. QED  BY <2>1, <2>2, <2>3
<1>18. CASE StartWrite
  <2>1. TypeOK'
    BY <1>18 DEF StartWrite, TypeOK
  <2>2. Holding'
    BY <1>18 DEF StartWrite, TypeOK, Holding, Opening, Using, Gone
  <2>3. OldBytes'
    BY <1>18 DEF StartWrite, OldBytes
  <2>4. QED  BY <2>1, <2>2, <2>3
<1>19. CASE WritePiece
  <2>1. TypeOK'
    BY <1>19 DEF WritePiece, TypeOK
  <2>2. Holding'
    BY <1>19 DEF WritePiece, TypeOK, Holding, Opening, Using, Gone
  <2>3. OldBytes'
    BY <1>19 DEF WritePiece, OldBytes
  <2>4. QED  BY <2>1, <2>2, <2>3
<1>20. CASE WriteFails
  <2>1. TypeOK'
    BY <1>20 DEF WriteFails, TypeOK
  <2>2. Holding'
    BY <1>20 DEF WriteFails, TypeOK, Holding, Opening, Using, Gone
  <2>3. OldBytes'
    BY <1>20 DEF WriteFails, OldBytes
  <2>4. QED  BY <2>1, <2>2, <2>3
<1>21. CASE Drained
  <2>1. TypeOK'
    BY <1>21 DEF Drained, TypeOK
  <2>2. Holding'
    BY <1>21 DEF Drained, TypeOK, Holding, Opening, Using, Gone
  <2>3. OldBytes'
    BY <1>21 DEF Drained, OldBytes
  <2>4. QED  BY <2>1, <2>2, <2>3
<1>22. CASE Join
  <2>1. TypeOK'
    BY <1>22 DEF Join, TypeOK
  <2>2. Holding'
    BY <1>22 DEF Join, TypeOK, Holding, Opening, Using, Gone
  <2>3. OldBytes'
    BY <1>22 DEF Join, OldBytes
  <2>4. QED  BY <2>1, <2>2, <2>3
<1>23. CASE FinalClose
  <2>1. TypeOK'
    BY <1>23 DEF FinalClose, Close, WriteMutexFree, TypeOK
  <2>2. Holding'
    BY <1>23 DEF FinalClose, Close, WriteMutexFree, TypeOK, Holding, Opening, Using, Gone
  <2>3. OldBytes'
    BY <1>23 DEF FinalClose, OldBytes
  <2>4. QED  BY <2>1, <2>2, <2>3
<1>24. CASE Shutdown
  <2>1. TypeOK'
    BY <1>24 DEF Shutdown, TypeOK
  <2>2. Holding'
    BY <1>24 DEF Shutdown, TypeOK, Holding, Opening, Using, Gone
  <2>3. OldBytes'
    BY <1>24 DEF Shutdown, OldBytes
  <2>4. QED  BY <2>1, <2>2, <2>3
<1>25. CASE Terminated
  <2>1. TypeOK'
    BY <1>25 DEF Terminated, TypeOK, vars
  <2>2. Holding'
    BY <1>25 DEF Terminated, TypeOK, Holding, Opening, Using, Gone, vars
  <2>3. OldBytes'
    BY <1>25 DEF Terminated, OldBytes, vars
  <2>4. QED  BY <2>1, <2>2, <2>3
<1>26. CASE UNCHANGED vars
  BY <1>26 DEF vars, TypeOK, Holding, OldBytes
<1>27. QED
  BY <1>1, <1>2, <1>3, <1>4, <1>5, <1>6, <1>7, <1>8, <1>9, <1>10, <1>11, <1>12, <1>13, <1>14, <1>15, <1>16, <1>17, <1>18, <1>19, <1>20, <1>21, <1>22, <1>23, <1>24, <1>25, <1>26
  DEF Next, Device, Reader, Proceed

-----------------------------------------------------------------------------
(* What follows for every behaviour *)

\* Every reachable state satisfies the invariant: each thread's place in its program says
\* which descriptor it may use (serial_transport.cpp:40-154).
THEOREM Invariance == Spec => []IInv
<1>1. QED  BY IInvInit, IInvStep, PTL DEF Spec

\* The types of SerialTransport; a frame is never written beyond its end
\* (serial_transport.cpp:137-147).
THEOREM TypeCorrect == Spec => []TypeOK
<1>1. IInv => TypeOK
  BY DEF IInv
<1>2. QED  BY <1>1, Invariance, PTL

\* No system call is made on a descriptor the other thread closed
\* (serial_transport.cpp:99-152).
THEOREM CallsCorrect == Spec => []CallsHitAnOpenPort
<1>1. IInv => CallsHitAnOpenPort
  BY DEF IInv, TypeOK, Holding, CallsHitAnOpenPort, Using
<1>2. QED  BY <1>1, Invariance, PTL

\* The parser never joins bytes of two sessions (radio_bridge_node.cpp:425-455).
THEOREM SessionsKeptApart == Spec => []OneSessionInParser
<1>1. IInv => OneSessionInParser
  BY DEF IInv, OldBytes, OneSessionInParser
<1>2. QED  BY <1>1, Invariance, PTL

\* The port is neither closed nor replaced under write_frame()
\* (serial_transport.cpp:130-154).
THEOREM FrameOnOnePort == Spec => FrameStaysOnOnePort
<1>1. IInv /\ [Next]_vars =>
        [~WriteMutexFree => fd' = fd /\ (fd # None => files'[fd] = files[fd])]_vars
  <2> SUFFICES ASSUME IInv, Next, ~WriteMutexFree
               PROVE  fd' = fd /\ (fd # None => files'[fd] = files[fd])
    OBVIOUS
  <2>1. fd # None /\ fd \in Fds /\ files[fd] # 0 /\ reader \notin Opening
        /\ executor \notin {"close", "done"}
    BY DEF IInv, TypeOK, Holding, WriteMutexFree
  <2>2. QED
    BY <2>1
    DEF Next, Device, Unplug, Plug, Reader, Check, OpenCloses, OpenDevice, OpenFails, Configure,
        ConfigureFails, BaudThrows, Publish, Reset, LoadFd, ReadBytes, ReadNothing, ReadFails,
        CloseAfterError, Wake, StartWrite, Proceed, WritePiece, WriteFails, Drained, Join,
        FinalClose, Close, Shutdown, Terminated, Opening, WriteMutexFree, vars
<1>2. QED  BY <1>1, Invariance, PTL DEF Spec, FrameStaysOnOnePort

\* With a baud rate that baud_to_speed() lists, no step of the retry loop loses a
\* descriptor and none is left at the end (serial_transport.cpp:40-106).
THEOREM DescriptorsCorrect == Spec => []NoDescriptorLost
<1>1. Init => NoDescriptorLost
  BY DEF Init, NoDescriptorLost, DescriptorsAccountedFor
<1>2. IInv /\ NoDescriptorLost /\ [Next]_vars => NoDescriptorLost'
  <2> SUFFICES ASSUME IInv, NoDescriptorLost, [Next]_vars  PROVE NoDescriptorLost'
    OBVIOUS
  <2> USE TransportAssumption DEF IInv, TypeOK, Holding, Opening, Using, NoDescriptorLost,
          DescriptorsAccountedFor, deviceVars, readerVars, executorVars
  <2>1. CASE Device \/ Shutdown \/ StartWrite \/ UNCHANGED vars \/ Terminated
    BY <2>1 DEF Device, Unplug, Plug, Shutdown, StartWrite, Terminated, vars
  <2>2. CASE OpenCloses
    BY <2>2 DEF OpenCloses, Close, WriteMutexFree
  <2>3. CASE OpenDevice
    BY <2>3 DEF OpenDevice
  <2>4. CASE ConfigureFails
    BY <2>4 DEF ConfigureFails
  <2>5. CASE Publish
    BY <2>5 DEF Publish
  <2>6. CASE CloseAfterError
    BY <2>6 DEF CloseAfterError, Close, WriteMutexFree
  <2>7. CASE Check \/ OpenFails \/ Configure \/ BaudThrows \/ Reset \/ LoadFd
             \/ ReadBytes \/ ReadNothing \/ ReadFails \/ Wake
    BY <2>7 DEF Check, OpenFails, Configure, BaudThrows, Reset, LoadFd, ReadBytes, ReadNothing,
                ReadFails, Wake
  <2>8. CASE WritePiece \/ WriteFails \/ Drained \/ Join
    BY <2>8 DEF WritePiece, WriteFails, Drained, Join
  <2>9. CASE FinalClose
    BY <2>9 DEF FinalClose, Close, WriteMutexFree
  <2>10. QED
    BY <2>1, <2>2, <2>3, <2>4, <2>5, <2>6, <2>7, <2>8, <2>9 DEF Next, Reader, Proceed
<1>3. QED  BY <1>1, <1>2, Invariance, PTL DEF Spec

\* The executor begins nothing after the destructor lowered the flag
\* (radio_bridge_node.cpp:66-68).
InDestructor == ~running => executor \in {"join", "close", "done"}

LEMMA DestructorStep == InDestructor /\ [Next]_vars => InDestructor'
BY DEF InDestructor, deviceVars, readerVars, executorVars, vars, Next, Device, Unplug, Plug,
       Reader, Check, OpenCloses, OpenDevice, OpenFails, Configure, ConfigureFails, BaudThrows,
       Publish, Reset, LoadFd, ReadBytes, ReadNothing, ReadFails, CloseAfterError, Wake,
       StartWrite, Proceed, WritePiece, WriteFails, Drained, Join, FinalClose, Close, Shutdown,
       Terminated

\* Both ranks are numbers.
LEMMA RanksAreNumbers ==
  ASSUME TypeOK
  PROVE  ReaderSteps[reader] \in Nat /\ ExecutorSteps[executor] \in Nat
BY DEF TypeOK, ReaderSteps, ExecutorSteps

\* Once the flag is down every step of a thread leaves fewer to come, so the destructor ends
\* after twelve at most unless one of them blocks (radio_bridge_node.cpp:66-73 and 420-487).
THEOREM ShutdownBounded == Spec => ShutdownAdvances
<1>1. Init => InDestructor
  BY DEF Init, InDestructor
<1>2. IInv /\ InDestructor /\ [Next]_vars =>
        [~running /\ << reader, executor >>' # << reader, executor >>
           => StepsLeft' < StepsLeft]_vars
  <2> SUFFICES ASSUME IInv, IInv', InDestructor, Next, ~running,
                      << reader, executor >>' # << reader, executor >>
               PROVE  StepsLeft' < StepsLeft
    BY IInvStep
  <2>1. /\ ReaderSteps[reader] \in Nat /\ ExecutorSteps[executor] \in Nat
        /\ ReaderSteps[reader'] \in Nat /\ ExecutorSteps[executor'] \in Nat
    <3>1. (ReaderSteps[reader] \in Nat /\ ExecutorSteps[executor] \in Nat)'
      BY RanksAreNumbers DEF IInv, TypeOK, ReaderSteps, ExecutorSteps
    <3>2. QED  BY <3>1, RanksAreNumbers DEF IInv, ReaderSteps, ExecutorSteps
  <2>2. CASE Reader
    <3>1. executor' = executor
      BY <2>2
      DEF Reader, Check, OpenCloses, OpenDevice, OpenFails, Configure, ConfigureFails, BaudThrows,
          Publish, Reset, LoadFd, ReadBytes, ReadNothing, ReadFails, CloseAfterError, Wake,
          executorVars
    <3>2. ReaderSteps[reader'] < ReaderSteps[reader]
      BY <2>2
      DEF Reader, Check, OpenCloses, OpenDevice, OpenFails, Configure, ConfigureFails, BaudThrows,
          Publish, Reset, LoadFd, ReadBytes, ReadNothing, ReadFails, CloseAfterError, Wake,
          executorVars, ReaderSteps
    <3>3. QED  BY <2>1, <3>1, <3>2 DEF StepsLeft, ReaderSteps
  <2>3. CASE Proceed
    <3>1. reader' = reader
      BY <2>3 DEF Proceed, WritePiece, WriteFails, Drained, Join, FinalClose, readerVars
    <3>2. ExecutorSteps[executor'] < ExecutorSteps[executor]
      BY <2>3
      DEF InDestructor, Proceed, WritePiece, WriteFails, Drained, Join, FinalClose, ExecutorSteps
    <3>3. QED  BY <2>1, <3>1, <3>2 DEF StepsLeft, ExecutorSteps
  <2>4. CASE Device \/ StartWrite \/ Shutdown \/ Terminated
    BY <2>4
    DEF InDestructor, Device, Unplug, Plug, StartWrite, Shutdown, Terminated, readerVars,
        executorVars, vars
  <2>5. QED  BY <2>2, <2>3, <2>4 DEF Next
<1>3. QED  BY <1>1, <1>2, DestructorStep, Invariance, PTL DEF Spec, ShutdownAdvances
=============================================================================
