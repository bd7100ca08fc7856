--------------------------- MODULE ShutdownProofs ---------------------------
(* Proofs about Shutdown, for any set of handles. *)
EXTENDS Shutdown, TLAPS

Over == {"draining", "drained", "checked"}

\* Where main is, what it knows, and what that says of the mount and the handles.
\* NothingLeftMounted needs the result that main reads after the drain, and the exit
\* code needs what EndDrain recorded.
ShutInv ==
  /\ TypeOK
  /\ session # "draining" => todo = {}
  /\ run_result = "ok" => ~attached /\ ~inUse
  /\ session \in Over => run_result # "none"
  /\ session \in {"drained", "checked"} /\ ~shutdown_failed => handles = {}
  /\ exit = "ok" => run_result = "ok"

LEMMA InitShut == Init => ShutInv /\ Life!Init
  BY DEF Init, ShutInv, TypeOK, Over, Life!Init

LEMMA OnlyDetached ==
  ASSUME attached \in BOOLEAN, attached' \in {attached, FALSE}
  PROVE  attached' \in BOOLEAN /\ (attached' => attached)
<1>1. CASE attached' = FALSE
  BY <1>1, Zenon
<1>2. CASE attached' = attached
  BY <1>2, Zenon
<1>. QED BY <1>1, <1>2

\* What an action that leaves the main thread alone preserves.
LEMMA PlatformStep ==
  ASSUME ShutInv, session' = session, handles' = handles, todo' = todo,
         run_result' = run_result, shutdown_failed' = shutdown_failed,
         attached' \in BOOLEAN, inUse' \in BOOLEAN,
         attached' \/ inUse' => attached \/ inUse,
         unmounter' \in {"starting", "waiting", "attempting", "settling", "asking",
                         "asked", "returned"},
         mine' \in BOOLEAN, forced_shutdown' \in BOOLEAN,
         forcer' \in {"none", "spawned", "listening", "forcing", "exiting", "exited"},
         exit' \in {exit, "killed"}
  PROVE  ShutInv'
  BY DEF ShutInv, TypeOK

\* Each step keeps the invariant, and is a step of MountLife or changes nothing there.
LEMMA ShutStep ==
  ASSUME ShutInv, [Next]_vars
  PROVE  ShutInv' /\ [Life!Next]_(Life!vars)
<1>. USE DEF Life!vars, Running
<1>1. CASE Programs
  <2>1. /\ attached' \in BOOLEAN /\ inUse' \in BOOLEAN
        /\ attached' \/ inUse' => attached \/ inUse
    <3>1. CASE Use BY <3>1, Zenon DEF Use, ShutInv, TypeOK
    <3>2. CASE Leave BY <3>2, Zenon DEF Leave, ShutInv, TypeOK
    <3>3. CASE OtherUnmount BY <3>3, Zenon DEF OtherUnmount, ShutInv, TypeOK
    <3>. QED BY <1>1, <3>1, <3>2, <3>3 DEF Programs
  <2>2. UNCHANGED <<main, signals>>
    BY <1>1 DEF Programs, Use, Leave, OtherUnmount
  <2>3. TypeOK
    BY DEF ShutInv
  <2>4. ShutInv'
    BY <2>1, <2>2, <2>3, PlatformStep DEF main, signals, TypeOK
  <2>. QED BY <2>2, <2>4 DEF main
<1>2. CASE \E kind \in Callbacks : BeginCallback(kind)
  <2>1. ShutInv'
    BY <1>2 DEF BeginCallback, Callbacks, platform, signals, ShutInv, TypeOK, Over
  <2>. QED BY <1>2, <2>1 DEF BeginCallback, Callbacks
<1>3. CASE EndCallback
  <2>1. handles' \in SUBSET Handles /\ todo = {}
    BY <1>3 DEF EndCallback, Callbacks, ShutInv, TypeOK
  <2>. ShutInv'
    BY <1>3, <2>1 DEF EndCallback, Callbacks, platform, signals, ShutInv, TypeOK, Over
  <2>2. Life!Serve
    BY <1>3 DEF EndCallback, Callbacks, Life!Serve
  <2>. QED BY <2>1, <2>2 DEF Life!Next
<1>4. CASE \E h \in Handles, stored \in BOOLEAN : DrainHandle(h, stored)
  <2>1. ShutInv'
    BY <1>4 DEF DrainHandle, platform, signals, ShutInv, TypeOK, Over
  <2>2. Life!Drain
    BY <1>4 DEF DrainHandle, Life!Drain
  <2>. QED BY <2>1, <2>2 DEF Life!Next
<1>5. CASE BeginDrain("ok") \/ BeginDrain("err")
  <2>1. ShutInv'
    BY <1>5 DEF BeginDrain, platform, signals, ShutInv, TypeOK, Over
  <2>2. Life!BeginDrain
    BY <1>5 DEF BeginDrain, Life!BeginDrain
  <2>. QED BY <2>1, <2>2 DEF Life!Next
<1>6. CASE EndDrain
  <2>1. ShutInv'
    BY <1>6 DEF EndDrain, platform, signals, ShutInv, TypeOK, Over
  <2>. QED BY <1>6, <2>1 DEF EndDrain
<1>7. CASE CheckForced
  <2>1. ShutInv'
    BY <1>7 DEF CheckForced, platform, signals, ShutInv, TypeOK, Over
  <2>2. CASE forced_shutdown
    <3>1. Life!Kill
      BY <1>7, <2>2 DEF CheckForced, Life!Kill
    <3>. QED BY <2>1, <3>1 DEF Life!Next
  <2>3. CASE ~forced_shutdown
    BY <1>7, <2>1, <2>3 DEF CheckForced
  <2>. QED BY <2>2, <2>3
<1>8. CASE Return
  <2>1. ShutInv'
    BY <1>8 DEF Return, platform, signals, ShutInv, TypeOK, Over
  <2>2. Life!Finish
    BY <1>8 DEF Return, ShutInv, Life!Finish
  <2>. QED BY <2>1, <2>2 DEF Life!Next
<1>9. CASE UnmounterStep \/ FirstSignal
  <2>1. /\ UNCHANGED <<main, inUse, forced_shutdown>>
        /\ forcer' \in {forcer, "spawned"} /\ mine' \in {mine, FALSE}
    BY <1>9 DEF UnmounterStep, FirstSignal, Install, Attempt, CheckAttempt, Ask, CheckAsked,
                platform
  <2>2. unmounter' \in {"waiting", "attempting", "settling", "asking", "asked", "returned"}
    BY <1>9 DEF UnmounterStep, FirstSignal, Install, Attempt, CheckAttempt, Ask, CheckAsked,
                UnmounterGoes
  <2>3. attached' \in {attached, FALSE}
    <3>1. CASE Ask
      BY <3>1, Zenon DEF Ask, ShutInv, TypeOK
    <3>2. CASE Attempt
      BY <3>2 DEF Attempt
    <3>. QED BY <1>9, <3>1, <3>2
             DEF UnmounterStep, FirstSignal, Install, CheckAttempt, CheckAsked, platform
  <2>4. TypeOK
    BY DEF ShutInv
  <2>5. attached' \in BOOLEAN /\ (attached' => attached)
    BY <2>3, <2>4, OnlyDetached DEF TypeOK
  <2>6. ShutInv'
    BY <2>1, <2>2, <2>4, <2>5, PlatformStep DEF main, TypeOK
  <2>. QED BY <2>1, <2>6 DEF main
<1>10. CASE Listen \/ SecondSignal \/ ForceUnmount
  <2>1. /\ UNCHANGED <<main, inUse, unmounter, mine>>
        /\ forced_shutdown' \in {forced_shutdown, TRUE} /\ attached' \in {attached, FALSE}
        /\ forcer' \in {"listening", "forcing", "exiting"}
    BY <1>10 DEF Listen, SecondSignal, ForceUnmount, ForcerGoes, platform
  <2>2. TypeOK
    BY DEF ShutInv
  <2>3. attached' \in BOOLEAN /\ (attached' => attached)
    BY <2>1, <2>2, OnlyDetached DEF TypeOK
  <2>4. forced_shutdown' \in BOOLEAN
    <3>1. CASE forced_shutdown' = TRUE BY <3>1, Zenon
    <3>2. CASE forced_shutdown' = forced_shutdown BY <2>2, <3>2, Zenon DEF TypeOK
    <3>. QED BY <2>1, <3>1, <3>2
  <2>5. ShutInv'
    BY <2>1, <2>2, <2>3, <2>4, PlatformStep DEF main, TypeOK
  <2>. QED BY <2>1, <2>5 DEF main
<1>11. CASE ForceExit \/ EarlySignal
  <2>1. ShutInv'
    BY <1>11, PlatformStep
       DEF ForceExit, EarlySignal, ForcerGoes, platform, signals, ShutInv, TypeOK
  <2>2. Life!Kill
    BY <1>11 DEF ForceExit, EarlySignal, ForcerGoes, Life!Kill
  <2>. QED BY <2>1, <2>2 DEF Life!Next
<1>12. CASE UNCHANGED vars
  BY <1>12 DEF vars, platform, main, signals, ShutInv, TypeOK
<1>. QED BY <1>1, <1>2, <1>3, <1>4, <1>5, <1>6, <1>7, <1>8, <1>9, <1>10, <1>11, <1>12
         DEF Next, Filer, MainStep, ForcerStep

THEOREM ShutInvariant == Spec => []ShutInv
<1>. QED BY InitShut, ShutStep, PTL DEF Spec

THEOREM ShutdownTypes == Spec => []TypeOK
<1>1. ShutInv => TypeOK
  BY DEF ShutInv
<1>. QED BY <1>1, ShutInvariant, PTL

\* A process that exits with success leaves nothing mounted behind.
THEOREM LeavesNothingMounted == Spec => []NothingLeftMounted
<1>1. ShutInv => NothingLeftMounted
  BY DEF ShutInv, NothingLeftMounted
<1>. QED BY <1>1, ShutInvariant, PTL

\* Signals and threads implement the promise that WriteBack makes with its PUTs:
\* success is reported only after a drain that left no handle, however many there are.
THEOREM SignalsKeepThePromise == Spec => LifeImplemented
<1>1. Init => Life!Init
  BY InitShut
<1>2. ShutInv /\ [Next]_vars => [Life!Next]_(Life!vars)
  BY ShutStep
<1>. QED BY <1>1, <1>2, ShutInvariant, PTL DEF Spec, LifeImplemented, Life!Spec
=============================================================================
