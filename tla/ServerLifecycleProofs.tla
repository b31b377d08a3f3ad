------------------------- MODULE ServerLifecycleProofs -------------------------
(***************************************************************************)
(* The safety of ServerLifecycle for any number of clients and any two     *)
(* timeouts: types, what is open at the end, the exit code, and what       *)
(* becomes of the requests that ran when the shutdown began.               *)
(***************************************************************************)
EXTENDS ServerLifecycle, TLAPS

Before  == {"parse", "listen", "report", "serve"}
Drains  == {"shutdown", "close", "await"}
Settled == {"await", "return", "exited"}

\* The accept loop exists from StartServe on; it holds at most one connection
\* the server does not know, none once it returned; and the main goroutine does
\* not return before it.
LoopInv ==
    /\ pc \in {"parse", "listen"} => listener = "none"
    /\ pc \in Before => loop = "none"
    /\ pc \in Drains \cup {"select"} => loop # "none"
    /\ loop = "none" => \A c \in Conns : conn[c] = "absent"
    /\ loop # "handoff" => \A c \in Conns : conn[c] # "handoff"
    /\ \A c, d \in Conns : conn[c] = "handoff" /\ conn[d] = "handoff" => c = d
    /\ pc = "return" => loop = "none" \/ Returned

\* Why each exit code is deserved: a loop that ended without a shutdown failed,
\* and a shutdown is begun for a signal only.
ExitInv ==
    /\ exit # None <=> Exited
    /\ pc \in Before \cup {"select", "shutdown"} => failure = None
    /\ ~Exited => failure \in {None, "deadline"}
    /\ shutting => pc \in Drains \cup {"return", "exited"}
    /\ loop = "closed" => shutting
    /\ pc \in Drains => shutting /\ signalled
    /\ pc = "return" => signalled \/ loop = "failed"

\* A request that ran when the shutdown began is running or its connection is
\* closed, and it is closed when Serve leaves the shutdown; only a shutdown
\* that ran into its deadline has cut one.
OwedInv ==
    /\ owed # {} => shutting
    /\ \A c \in owed : conn[c] \in {"active", "closed"}
    /\ pc \in Settled => \A c \in owed : conn[c] = "closed"
    /\ pc \notin Settled => cut = {}
    /\ pc = "close" => failure = "deadline" /\ elapsed = ShutdownTimeout
    /\ failure # "deadline" => owed \cap cut = {}

IInv ==
    /\ TypeOK
    /\ LoopInv
    /\ NothingLeftOpen
    /\ ExitInv
    /\ ExitCodeTruthful
    /\ OwedInv

-----------------------------------------------------------------------------

\* The invariant before the first step.
LEMMA InitInv == Init => IInv
<1> SUFFICES ASSUME Init PROVE IInv
  OBVIOUS
<1> USE TimeoutAssumption, NoneAssumption
<1>1. TypeOK
  <2>1. conn \in [Conns -> {"absent", "handoff", "closed"} \cup Tracked]
    BY DEF Init
  <2>2. age \in [Conns -> 0 .. HeaderTimeout]
    BY DEF Init
  <2>3. elapsed \in 0 .. ShutdownTimeout
    BY DEF Init
  <2> QED BY <2>1, <2>2, <2>3 DEF Init, TypeOK
<1>2. LoopInv /\ NothingLeftOpen
  BY DEF Init, LoopInv, NothingLeftOpen, Exited, Before, Drains
<1>3. ExitInv /\ ExitCodeTruthful
  BY DEF Init, ExitInv, ExitCodeTruthful, Exited, Drains
<1>4. OwedInv
  BY DEF Init, OwedInv, Settled
<1> QED BY <1>1, <1>2, <1>3, <1>4 DEF IInv

\* Every step keeps the invariant.
LEMMA NextInv == IInv /\ [Next]_vars => IInv'
<1> SUFFICES ASSUME IInv, [Next]_vars PROVE IInv'
  OBVIOUS
<1> USE TimeoutAssumption, NoneAssumption
    DEF IInv, main, conns, timer, hist, Exited, Tracked, Before, Drains, Settled, Returned
<1>1. ASSUME ParseArgs PROVE IInv'
  <2>1. TypeOK'
    BY <1>1 DEF ParseArgs, TypeOK
  <2>2. LoopInv' /\ NothingLeftOpen'
    BY <1>1 DEF ParseArgs, TypeOK, LoopInv, NothingLeftOpen
  <2>3. ExitInv' /\ ExitCodeTruthful'
    BY <1>1 DEF ParseArgs, TypeOK, LoopInv, ExitInv, ExitCodeTruthful
  <2>4. OwedInv'
    BY <1>1 DEF ParseArgs, TypeOK, LoopInv, ExitInv, OwedInv
  <2> QED BY <2>1, <2>2, <2>3, <2>4
<1>2. ASSUME Signal PROVE IInv'
  <2>1. TypeOK'
    BY <1>2 DEF Signal, TypeOK
  <2>2. LoopInv' /\ NothingLeftOpen'
    BY <1>2 DEF Signal, TypeOK, LoopInv, NothingLeftOpen
  <2>3. ExitInv' /\ ExitCodeTruthful'
    BY <1>2 DEF Signal, TypeOK, LoopInv, ExitInv, ExitCodeTruthful
  <2>4. OwedInv'
    BY <1>2 DEF Signal, TypeOK, LoopInv, ExitInv, OwedInv
  <2> QED BY <2>1, <2>2, <2>3, <2>4
<1>3. ASSUME Listen PROVE IInv'
  <2>1. TypeOK'
    BY <1>3 DEF Listen, TypeOK
  <2>2. LoopInv' /\ NothingLeftOpen'
    BY <1>3 DEF Listen, TypeOK, LoopInv, NothingLeftOpen
  <2>3. ExitInv' /\ ExitCodeTruthful'
    BY <1>3 DEF Listen, TypeOK, LoopInv, ExitInv, ExitCodeTruthful
  <2>4. OwedInv'
    BY <1>3 DEF Listen, TypeOK, LoopInv, ExitInv, OwedInv
  <2> QED BY <2>1, <2>2, <2>3, <2>4
<1>4. ASSUME Report PROVE IInv'
  <2>1. TypeOK'
    BY <1>4 DEF Report, TypeOK
  <2>2. LoopInv' /\ NothingLeftOpen'
    BY <1>4 DEF Report, TypeOK, LoopInv, NothingLeftOpen
  <2>3. ExitInv' /\ ExitCodeTruthful'
    BY <1>4 DEF Report, TypeOK, LoopInv, ExitInv, ExitCodeTruthful
  <2>4. OwedInv'
    BY <1>4 DEF Report, TypeOK, LoopInv, ExitInv, OwedInv
  <2> QED BY <2>1, <2>2, <2>3, <2>4
<1>5. ASSUME StartServe PROVE IInv'
  <2>1. TypeOK'
    BY <1>5 DEF StartServe, TypeOK
  <2>2. LoopInv' /\ NothingLeftOpen'
    BY <1>5 DEF StartServe, TypeOK, LoopInv, NothingLeftOpen
  <2>3. ExitInv' /\ ExitCodeTruthful'
    BY <1>5 DEF StartServe, TypeOK, LoopInv, ExitInv, ExitCodeTruthful
  <2>4. OwedInv'
    BY <1>5 DEF StartServe, TypeOK, LoopInv, ExitInv, OwedInv
  <2> QED BY <2>1, <2>2, <2>3, <2>4
<1>6. ASSUME SelectServed PROVE IInv'
  <2>1. TypeOK'
    BY <1>6 DEF SelectServed, TypeOK
  <2>2. LoopInv' /\ NothingLeftOpen'
    BY <1>6 DEF SelectServed, TypeOK, LoopInv, NothingLeftOpen
  <2>3. ExitInv' /\ ExitCodeTruthful'
    BY <1>6 DEF SelectServed, TypeOK, LoopInv, ExitInv, ExitCodeTruthful
  <2>4. OwedInv'
    BY <1>6 DEF SelectServed, TypeOK, LoopInv, ExitInv, OwedInv
  <2> QED BY <2>1, <2>2, <2>3, <2>4
<1>7. ASSUME SelectCanceled PROVE IInv'
  <2>1. TypeOK'
    BY <1>7 DEF SelectCanceled, Active, TypeOK
  <2>2. LoopInv' /\ NothingLeftOpen'
    BY <1>7 DEF SelectCanceled, Active, TypeOK, LoopInv, NothingLeftOpen
  <2>3. ExitInv' /\ ExitCodeTruthful'
    BY <1>7 DEF SelectCanceled, Active, TypeOK, LoopInv, ExitInv, ExitCodeTruthful
  <2>4. OwedInv'
    BY <1>7 DEF SelectCanceled, Active, TypeOK, LoopInv, ExitInv, OwedInv
  <2> QED BY <2>1, <2>2, <2>3, <2>4
<1>8. ASSUME Poll PROVE IInv'
  <2>1. TypeOK'
    BY <1>8 DEF Poll, TypeOK
  <2>2. LoopInv' /\ NothingLeftOpen'
    BY <1>8 DEF Poll, TypeOK, LoopInv, NothingLeftOpen
  <2>3. ExitInv' /\ ExitCodeTruthful'
    BY <1>8 DEF Poll, TypeOK, LoopInv, ExitInv, ExitCodeTruthful
  <2>4. OwedInv'
    BY <1>8 DEF Poll, TypeOK, LoopInv, ExitInv, OwedInv
  <2> QED BY <2>1, <2>2, <2>3, <2>4
<1>9. ASSUME Deadline PROVE IInv'
  <2>1. TypeOK'
    BY <1>9 DEF Deadline, DeadlinePassed, TypeOK
  <2>2. LoopInv' /\ NothingLeftOpen'
    BY <1>9 DEF Deadline, DeadlinePassed, TypeOK, LoopInv, NothingLeftOpen
  <2>3. ExitInv' /\ ExitCodeTruthful'
    BY <1>9 DEF Deadline, DeadlinePassed, TypeOK, LoopInv, ExitInv, ExitCodeTruthful
  <2>4. OwedInv'
    BY <1>9 DEF Deadline, DeadlinePassed, TypeOK, LoopInv, ExitInv, OwedInv
  <2> QED BY <2>1, <2>2, <2>3, <2>4
<1>10. ASSUME CloseNow PROVE IInv'
  <2>1. TypeOK'
    BY <1>10 DEF CloseNow, CloseTracked, Active, TypeOK
  <2>2. LoopInv' /\ NothingLeftOpen'
    BY <1>10 DEF CloseNow, CloseTracked, Active, TypeOK, LoopInv, NothingLeftOpen
  <2>3. ExitInv' /\ ExitCodeTruthful'
    BY <1>10 DEF CloseNow, CloseTracked, Active, TypeOK, LoopInv, ExitInv, ExitCodeTruthful
  <2>4. OwedInv'
    BY <1>10 DEF CloseNow, CloseTracked, Active, TypeOK, LoopInv, ExitInv, OwedInv
  <2> QED BY <2>1, <2>2, <2>3, <2>4
<1>11. ASSUME Await PROVE IInv'
  <2>1. TypeOK'
    BY <1>11 DEF Await, TypeOK
  <2>2. LoopInv' /\ NothingLeftOpen'
    BY <1>11 DEF Await, TypeOK, LoopInv, NothingLeftOpen
  <2>3. ExitInv' /\ ExitCodeTruthful'
    BY <1>11 DEF Await, TypeOK, LoopInv, ExitInv, ExitCodeTruthful
  <2>4. OwedInv'
    BY <1>11 DEF Await, TypeOK, LoopInv, ExitInv, OwedInv
  <2> QED BY <2>1, <2>2, <2>3, <2>4
<1>12. ASSUME Return PROVE IInv'
  <2>1. TypeOK'
    BY <1>12 DEF Return, CloseTracked, Active, ServeFailed, TypeOK
  <2>2. LoopInv' /\ NothingLeftOpen'
    BY <1>12 DEF Return, CloseTracked, Active, ServeFailed, TypeOK, LoopInv, NothingLeftOpen
  <2>3. ExitInv' /\ ExitCodeTruthful'
    BY <1>12 DEF Return, CloseTracked, Active, ServeFailed, TypeOK, LoopInv, ExitInv, ExitCodeTruthful
  <2>4. OwedInv'
    BY <1>12 DEF Return, CloseTracked, Active, ServeFailed, TypeOK, LoopInv, ExitInv, OwedInv
  <2> QED BY <2>1, <2>2, <2>3, <2>4
<1>13. ASSUME StartLoop PROVE IInv'
  <2>1. TypeOK'
    BY <1>13 DEF StartLoop, TypeOK
  <2>2. LoopInv' /\ NothingLeftOpen'
    BY <1>13 DEF StartLoop, TypeOK, LoopInv, NothingLeftOpen
  <2>3. ExitInv' /\ ExitCodeTruthful'
    BY <1>13 DEF StartLoop, TypeOK, LoopInv, ExitInv, ExitCodeTruthful
  <2>4. OwedInv'
    BY <1>13 DEF StartLoop, TypeOK, LoopInv, ExitInv, OwedInv
  <2> QED BY <2>1, <2>2, <2>3, <2>4
<1>14. ASSUME AcceptError PROVE IInv'
  <2>1. TypeOK'
    BY <1>14 DEF AcceptError, TypeOK
  <2>2. LoopInv' /\ NothingLeftOpen'
    BY <1>14 DEF AcceptError, TypeOK, LoopInv, NothingLeftOpen
  <2>3. ExitInv' /\ ExitCodeTruthful'
    BY <1>14 DEF AcceptError, TypeOK, LoopInv, ExitInv, ExitCodeTruthful
  <2>4. OwedInv'
    BY <1>14 DEF AcceptError, TypeOK, LoopInv, ExitInv, OwedInv
  <2> QED BY <2>1, <2>2, <2>3, <2>4
<1>15. ASSUME NEW c \in Conns, Accept(c) PROVE IInv'
  <2>1. TypeOK'
    BY <1>15 DEF Accept, TypeOK
  <2>2. LoopInv' /\ NothingLeftOpen'
    BY <1>15 DEF Accept, TypeOK, LoopInv, NothingLeftOpen
  <2>3. ExitInv' /\ ExitCodeTruthful'
    BY <1>15 DEF Accept, TypeOK, LoopInv, ExitInv, ExitCodeTruthful
  <2>4. OwedInv'
    BY <1>15 DEF Accept, TypeOK, LoopInv, ExitInv, OwedInv
  <2> QED BY <2>1, <2>2, <2>3, <2>4
<1>16. ASSUME NEW c \in Conns, Track(c) PROVE IInv'
  <2>1. TypeOK'
    BY <1>16 DEF Track, TypeOK
  <2>2. LoopInv' /\ NothingLeftOpen'
    BY <1>16 DEF Track, TypeOK, LoopInv, NothingLeftOpen
  <2>3. ExitInv' /\ ExitCodeTruthful'
    BY <1>16 DEF Track, TypeOK, LoopInv, ExitInv, ExitCodeTruthful
  <2>4. OwedInv'
    BY <1>16 DEF Track, TypeOK, LoopInv, ExitInv, OwedInv
  <2> QED BY <2>1, <2>2, <2>3, <2>4
<1>17. ASSUME NEW c \in Conns, Request(c) PROVE IInv'
  <2>1. TypeOK'
    BY <1>17 DEF Request, TypeOK
  <2>2. LoopInv' /\ NothingLeftOpen'
    BY <1>17 DEF Request, TypeOK, LoopInv, NothingLeftOpen
  <2>3. ExitInv' /\ ExitCodeTruthful'
    BY <1>17 DEF Request, TypeOK, LoopInv, ExitInv, ExitCodeTruthful
  <2>4. OwedInv'
    BY <1>17 DEF Request, TypeOK, LoopInv, ExitInv, OwedInv
  <2> QED BY <2>1, <2>2, <2>3, <2>4
<1>18. ASSUME NEW c \in Conns, Finish(c) PROVE IInv'
  <2>1. TypeOK'
    BY <1>18 DEF Finish, TypeOK
  <2>2. LoopInv' /\ NothingLeftOpen'
    BY <1>18 DEF Finish, TypeOK, LoopInv, NothingLeftOpen
  <2>3. ExitInv' /\ ExitCodeTruthful'
    BY <1>18 DEF Finish, TypeOK, LoopInv, ExitInv, ExitCodeTruthful
  <2>4. OwedInv'
    BY <1>18 DEF Finish, TypeOK, LoopInv, ExitInv, OwedInv
  <2> QED BY <2>1, <2>2, <2>3, <2>4
<1>19. ASSUME NEW c \in Conns, HangUp(c) PROVE IInv'
  <2>1. TypeOK'
    BY <1>19 DEF HangUp, TypeOK
  <2>2. LoopInv' /\ NothingLeftOpen'
    BY <1>19 DEF HangUp, TypeOK, LoopInv, NothingLeftOpen
  <2>3. ExitInv' /\ ExitCodeTruthful'
    BY <1>19 DEF HangUp, TypeOK, LoopInv, ExitInv, ExitCodeTruthful
  <2>4. OwedInv'
    BY <1>19 DEF HangUp, TypeOK, LoopInv, ExitInv, OwedInv
  <2> QED BY <2>1, <2>2, <2>3, <2>4
<1>20. ASSUME NEW c \in Conns, ReadHeaderTimeout(c) PROVE IInv'
  <2>1. TypeOK'
    BY <1>20 DEF ReadHeaderTimeout, TypeOK
  <2>2. LoopInv' /\ NothingLeftOpen'
    BY <1>20 DEF ReadHeaderTimeout, TypeOK, LoopInv, NothingLeftOpen
  <2>3. ExitInv' /\ ExitCodeTruthful'
    BY <1>20 DEF ReadHeaderTimeout, TypeOK, LoopInv, ExitInv, ExitCodeTruthful
  <2>4. OwedInv'
    BY <1>20 DEF ReadHeaderTimeout, TypeOK, LoopInv, ExitInv, OwedInv
  <2> QED BY <2>1, <2>2, <2>3, <2>4
<1>21. ASSUME Tick PROVE IInv'
  <2>1. TypeOK'
    <3>1. age' \in [Conns -> 0 .. HeaderTimeout]
      BY <1>21 DEF Tick, TypeOK
    <3>2. elapsed' \in 0 .. ShutdownTimeout
      <4>1. CASE pc = "shutdown"
        <5>1. elapsed' = elapsed + 1 /\ elapsed # ShutdownTimeout
          BY <1>21, <4>1 DEF Tick, DeadlinePassed
        <5> QED BY <5>1 DEF TypeOK
      <4>2. CASE pc # "shutdown"
        BY <1>21, <4>2 DEF Tick, TypeOK
      <4> QED BY <4>1, <4>2
    <3>3. polled' \in BOOLEAN
      BY <1>21 DEF Tick, TypeOK
    <3> QED BY <1>21, <3>1, <3>2, <3>3 DEF Tick, TypeOK
  <2>2. LoopInv' /\ NothingLeftOpen'
    BY <1>21 DEF Tick, DeadlinePassed, TypeOK, LoopInv, NothingLeftOpen
  <2>3. ExitInv' /\ ExitCodeTruthful'
    BY <1>21 DEF Tick, DeadlinePassed, TypeOK, LoopInv, ExitInv, ExitCodeTruthful
  <2>4. OwedInv'
    BY <1>21 DEF Tick, DeadlinePassed, TypeOK, LoopInv, ExitInv, OwedInv
  <2> QED BY <2>1, <2>2, <2>3, <2>4
<1>22. ASSUME UNCHANGED vars PROVE IInv'
  BY <1>22 DEF vars, TypeOK, LoopInv, NothingLeftOpen, ExitInv, ExitCodeTruthful, OwedInv
<1> QED
  BY <1>1, <1>2, <1>3, <1>4, <1>5, <1>6, <1>7, <1>8, <1>9, <1>10, <1>11, <1>12, <1>13, <1>14, <1>15, <1>16, <1>17, <1>18, <1>19, <1>20, <1>21, <1>22
  DEF Next, MainStep

\* The invariant holds throughout.
LEMMA AlwaysInv == Spec => []IInv
<1> QED BY InitInv, NextInv, PTL DEF Spec

-----------------------------------------------------------------------------
(* Theorems *)

\* Every reachable state has the types the code's variables have.
THEOREM LifecycleTypeCorrect == Spec => []TypeOK
<1>1. IInv => TypeOK BY DEF IInv
<1> QED BY <1>1, AlwaysInv, PTL

\* However many clients there are and whenever the accept loop hands one over,
\* the process that ends leaves no listener, no connection and no loop behind.
THEOREM EverythingIsClosed == Spec => []NothingLeftOpen
<1>1. IInv => NothingLeftOpen BY DEF IInv
<1> QED BY <1>1, AlwaysInv, PTL

\* The exit code says whether something failed, whichever branch select took.
THEOREM ExitCodeIsTruthful == Spec => []ExitCodeTruthful
<1>1. IInv => ExitCodeTruthful BY DEF IInv
<1> QED BY <1>1, AlwaysInv, PTL

\* An exit with code 0 has cut none of the requests the shutdown found running.
THEOREM OwedRequestsAreFinished == Spec => []OwedRequestsFinish
<1>1. IInv => OwedRequestsFinish
  BY NoneAssumption DEF IInv, OwedRequestsFinish, ExitCodeTruthful, OwedInv
<1> QED BY <1>1, AlwaysInv, PTL

\* A request the shutdown found running is cut only after the whole shutdown
\* timeout, for timeouts of any length.
THEOREM CutsWaitForDeadline == Spec => OwedCutOnlyAtDeadline
<1> DEFINE CutLate == \A c \in owed \cap (cut' \ cut) : elapsed = ShutdownTimeout
<1>1. IInv /\ [Next]_vars => [CutLate]_vars
  <2> SUFFICES ASSUME IInv, Next, NEW c \in owed \cap (cut' \ cut)
               PROVE  elapsed = ShutdownTimeout
    OBVIOUS
  <2>1. cut' # cut
    OBVIOUS
  <2>2. CloseNow \/ Return
    BY <2>1 DEF Next, MainStep, ParseArgs, Signal, Listen, Report, StartServe, SelectServed,
                SelectCanceled, Poll, Deadline, Await, StartLoop, AcceptError, Accept, Track,
                Request, Finish, HangUp, ReadHeaderTimeout, Tick, main, conns, timer, hist
  <2>3. CASE CloseNow
    BY <2>3 DEF CloseNow, IInv, OwedInv
  <2>4. CASE Return
    <3>1. conn[c] = "closed" /\ c \in Active
      BY <2>4 DEF Return, CloseTracked, IInv, OwedInv, Settled
    <3> QED BY <3>1 DEF Active
  <2> QED BY <2>2, <2>3, <2>4
<1> QED BY <1>1, AlwaysInv, PTL DEF Spec, OwedCutOnlyAtDeadline, CutLate

-----------------------------------------------------------------------------
(* Refinement *)

LEMMA InitKeepsContract == Init => Contract!Init
BY DEF Init, Contract!Init, Phase, Exited, Active

\* Every step of the server is a step of its contract or leaves the contract's
\* variables alone.
LEMMA NextKeepsContract ==
    IInv /\ IInv' /\ [Next]_vars => [Contract!Next]_(Contract!vars)
<1> SUFFICES ASSUME IInv, IInv', Next PROVE Contract!Next \/ UNCHANGED Contract!vars
  BY DEF vars, main, conns, timer, hist, Contract!vars, Phase, Exited, Active
<1> USE DEF Contract!vars, Phase, Exited, Active, main, conns, timer, hist
<1>1. ASSUME ParseArgs PROVE Contract!Next \/ UNCHANGED Contract!vars
  <2>1. Contract!Refuse \/ UNCHANGED Contract!vars
    BY <1>1 DEF ParseArgs, Contract!Refuse, IInv, LoopInv, Before
  <2> QED BY <2>1 DEF Contract!Next
<1>2. ASSUME Listen PROVE Contract!Next \/ UNCHANGED Contract!vars
  <2>1. Contract!Refuse \/ UNCHANGED Contract!vars
    BY <1>2 DEF Listen, Contract!Refuse, IInv, LoopInv, Before
  <2> QED BY <2>1 DEF Contract!Next
<1>3. ASSUME Report PROVE Contract!Next \/ UNCHANGED Contract!vars
  <2>1. Contract!Refuse \/ UNCHANGED Contract!vars
    BY <1>3 DEF Report, Contract!Refuse, IInv, LoopInv, Before
  <2> QED BY <2>1 DEF Contract!Next
<1>4. ASSUME StartServe PROVE Contract!Next \/ UNCHANGED Contract!vars
  <2>1. Contract!Serve \/ UNCHANGED Contract!vars
    BY <1>4 DEF StartServe, Contract!Serve, IInv, LoopInv, ExitInv, Before, Drains
  <2> QED BY <2>1 DEF Contract!Next
<1>5. ASSUME SelectCanceled PROVE Contract!Next \/ UNCHANGED Contract!vars
  <2>1. Contract!Drain
    BY <1>5, NoneAssumption DEF SelectCanceled, Contract!Drain, IInv, LoopInv, ExitInv, Before, Drains
  <2> QED BY <2>1 DEF Contract!Next
<1>6. ASSUME Deadline PROVE Contract!Next \/ UNCHANGED Contract!vars
  <2>1. Contract!GiveUp
    BY <1>6, NoneAssumption DEF Deadline, Contract!GiveUp, IInv, LoopInv, ExitInv, Drains
  <2> QED BY <2>1 DEF Contract!Next
<1>7. ASSUME CloseNow PROVE Contract!Next \/ UNCHANGED Contract!vars
  <2>1. Active' = {}
    BY <1>7 DEF CloseNow, CloseTracked, Tracked, IInv, TypeOK
  <2>2. Phase = "overdue" /\ Phase' = "overdue" /\ exit' = exit
    BY <1>7 DEF CloseNow, IInv, LoopInv, ExitInv, OwedInv, Drains
  <2>3. Contract!Cut
    BY <2>1, <2>2 DEF Contract!Cut
  <2> QED BY <2>3 DEF Contract!Next
<1>8. ASSUME Return PROVE Contract!Next \/ UNCHANGED Contract!vars
  <2>1. owed \cap Active = {} /\ Active' = {} /\ owed' = owed
    BY <1>8 DEF Return, CloseTracked, Tracked, IInv, TypeOK, OwedInv, Settled
  <2>2. pc = "return" /\ Phase' = "ended" /\ exit' = IF ServeFailed THEN 1 ELSE 0
    BY <1>8 DEF Return
  <2>3. CASE loop = "none"
    <3>1. Active = {}
      BY <2>3 DEF IInv, LoopInv
    <3>2. Phase = "starting"
      BY <2>2, <2>3
    <3> QED BY <2>1, <2>2, <3>1, <3>2 DEF Contract!Refuse, Contract!Next
  <2>4. CASE loop # "none" /\ ~shutting
    <3>1. ServeFailed
      BY <2>2, <2>4 DEF IInv, LoopInv, ExitInv, Returned, ServeFailed
    <3>2. Phase = "serving"
      BY <2>2, <2>4
    <3> QED BY <2>1, <2>2, <3>1, <3>2 DEF Contract!End, Contract!Next
  <2>5. CASE loop # "none" /\ shutting
    <3>1. Phase = IF failure = "deadline" THEN "overdue" ELSE "draining"
      BY <2>2, <2>5
    <3>2. failure = "deadline" => ServeFailed
      BY DEF ServeFailed
    <3> QED BY <2>1, <2>2, <3>1, <3>2 DEF Contract!End, Contract!Next
  <2> QED BY <2>3, <2>4, <2>5
<1>9. ASSUME NEW c \in Conns, Request(c) PROVE Contract!Next \/ UNCHANGED Contract!vars
  <2>1. Contract!Begin(c)
    BY <1>9 DEF Request, Contract!Begin, IInv, TypeOK, LoopInv, ExitInv, OwedInv
  <2> QED BY <2>1 DEF Contract!Next
<1>10. ASSUME NEW c \in Conns, Finish(c) PROVE Contract!Next \/ UNCHANGED Contract!vars
  <2>1. Contract!Answer(c)
    BY <1>10 DEF Finish, Contract!Answer, IInv, TypeOK
  <2> QED BY <2>1 DEF Contract!Next
<1>11. ASSUME Signal PROVE Contract!Next \/ UNCHANGED Contract!vars
  BY <1>11 DEF Signal, IInv, TypeOK, LoopInv, ExitInv, OwedInv, Before
<1>12. ASSUME SelectServed PROVE Contract!Next \/ UNCHANGED Contract!vars
  BY <1>12 DEF SelectServed, IInv, TypeOK, LoopInv, ExitInv, OwedInv, Before
<1>13. ASSUME Poll PROVE Contract!Next \/ UNCHANGED Contract!vars
  BY <1>13 DEF Poll, IInv, TypeOK, LoopInv, ExitInv, OwedInv, Before
<1>14. ASSUME Await PROVE Contract!Next \/ UNCHANGED Contract!vars
  BY <1>14 DEF Await, IInv, TypeOK, LoopInv, ExitInv, OwedInv, Before
<1>15. ASSUME StartLoop PROVE Contract!Next \/ UNCHANGED Contract!vars
  BY <1>15 DEF StartLoop, IInv, TypeOK, LoopInv, ExitInv, OwedInv, Before
<1>16. ASSUME AcceptError PROVE Contract!Next \/ UNCHANGED Contract!vars
  BY <1>16 DEF AcceptError, IInv, TypeOK, LoopInv, ExitInv, OwedInv, Before
<1>17. ASSUME NEW c \in Conns, Accept(c) PROVE Contract!Next \/ UNCHANGED Contract!vars
  BY <1>17 DEF Accept, IInv, TypeOK, LoopInv, ExitInv, OwedInv, Before
<1>18. ASSUME NEW c \in Conns, Track(c) PROVE Contract!Next \/ UNCHANGED Contract!vars
  BY <1>18 DEF Track, IInv, TypeOK, LoopInv, ExitInv, OwedInv, Before
<1>19. ASSUME NEW c \in Conns, HangUp(c) PROVE Contract!Next \/ UNCHANGED Contract!vars
  BY <1>19 DEF HangUp, IInv, TypeOK, LoopInv, ExitInv, OwedInv, Before
<1>20. ASSUME NEW c \in Conns, ReadHeaderTimeout(c) PROVE Contract!Next \/ UNCHANGED Contract!vars
  BY <1>20 DEF ReadHeaderTimeout, IInv, TypeOK, LoopInv, ExitInv, OwedInv, Before
<1>21. ASSUME Tick PROVE Contract!Next \/ UNCHANGED Contract!vars
  BY <1>21 DEF Tick, IInv, TypeOK, LoopInv, ExitInv, OwedInv, Before
<1> QED
  BY <1>1, <1>2, <1>3, <1>4, <1>5, <1>6, <1>7, <1>8, <1>9, <1>10, <1>11, <1>12, <1>13, <1>14, <1>15, <1>16, <1>17, <1>18, <1>19, <1>20, <1>21
  DEF Next, MainStep

\* The process with its goroutines, polls and races implements the contract of
\* one run: code 0 is given only once every owed request has its answer.
THEOREM ProcessKeepsContract == Spec => KeepsContract
<1> QED
  BY InitKeepsContract, NextKeepsContract, AlwaysInv, PTL
  DEF Spec, KeepsContract, Contract!Spec
=============================================================================
