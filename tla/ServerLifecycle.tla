--------------------------- MODULE ServerLifecycle ---------------------------
(***************************************************************************)
(* One run of the xkeen-ui-server process: run in cmd/xkeen-ui-server,     *)
(* Serve in internal/server, the goroutine it starts for the accept loop,  *)
(* the signal context and the connections of net/http's Server.            *)
(*                                                                         *)
(* net/http is external and modelled as Serve uses it: Shutdown closes the *)
(* listener, waits for an accept loop that is running to return and then   *)
(* polls, closing idle connections, until none is left or its context      *)
(* ends; a connection that has not delivered a request header yet ("new")  *)
(* is not idle for Shutdown before it is older than the header timeout,    *)
(* which ends it first.  Time passes in ticks of one poll interval; what   *)
(* is due in a tick happens in any order within the tick.                  *)
(***************************************************************************)
EXTENDS Naturals, FiniteSets

CONSTANTS
    Conns,             \* bound: the connections clients may open, each once
    HeaderTimeout,     \* ReadHeaderTimeout, in ticks
    ShutdownTimeout,   \* shutdownTimeout, in ticks
    None

ASSUME TimeoutAssumption ==
    HeaderTimeout \in Nat \ {0} /\ ShutdownTimeout \in Nat \ {0}
ASSUME NoneAssumption == None \notin Nat /\ None \notin {"listen", "report", "deadline"}

VARIABLES
    pc,         \* where the main goroutine is
    exit,       \* the exit code, once the process ended
    signalled,  \* the run context is canceled; further signals change nothing
    listener,   \* "none", "open" or "closed"
    loop,       \* the accept loop goroutine; "closed" and "failed" once its
                \* result (ErrServerClosed or another error) is in served
    shutting,   \* Server.inShutdown
    failure,    \* the error run or Shutdown met: "listen", "report", "deadline"
    conn,       \* state of each connection
    age,        \* ticks since a new connection was opened
    elapsed,    \* ticks since Shutdown was called
    polled,     \* Shutdown polled in this tick
    owed,       \* history: connections whose request ran when Shutdown was called
    cut,        \* history: connections closed by Close while their request ran
    asked       \* history: connections on which a request was received

main  == <<pc, exit, listener, shutting, failure>>
conns == <<conn, age, asked>>
timer == <<elapsed, polled>>
hist  == <<owed, cut>>
vars  == <<main, signalled, loop, conns, timer, hist>>

Tracked == {"new", "active", "idle"}   \* states of connections Server knows

TypeOK ==
    /\ pc \in {"parse", "listen", "report", "serve", "select", "shutdown",
               "close", "await", "return", "exited"}
    /\ exit \in {None, 0, 1, 2}
    /\ signalled \in BOOLEAN /\ shutting \in BOOLEAN /\ polled \in BOOLEAN
    /\ listener \in {"none", "open", "closed"}
    /\ loop \in {"none", "starting", "accepting", "handoff", "closed", "failed"}
    /\ failure \in {None, "listen", "report", "deadline"}
    /\ conn \in [Conns -> {"absent", "handoff", "closed"} \cup Tracked]
    /\ age \in [Conns -> 0 .. HeaderTimeout]
    /\ elapsed \in 0 .. ShutdownTimeout
    /\ owed \subseteq Conns /\ cut \subseteq Conns /\ asked \subseteq Conns

Init ==
    /\ pc = "parse" /\ exit = None /\ signalled = FALSE
    /\ listener = "none" /\ loop = "none" /\ shutting = FALSE /\ failure = None
    /\ conn = [c \in Conns |-> "absent"] /\ age = [c \in Conns |-> 0]
    /\ elapsed = 0 /\ polled = FALSE
    /\ owed = {} /\ cut = {} /\ asked = {}

Active == {c \in Conns : conn[c] = "active"}
Returned == loop \in {"closed", "failed"}
Accepting == loop \in {"accepting", "handoff"}

-----------------------------------------------------------------------------
(* run *)

\* --help ends the process with code 0, bad arguments end it with code 2.
ParseArgs ==
    /\ pc = "parse"
    /\ \/ pc' = "exited" /\ exit' \in {0, 2}
       \/ pc' = "listen" /\ exit' = exit
    /\ UNCHANGED <<listener, shutting, failure, signalled, loop, conns, timer, hist>>

\* SIGINT or SIGTERM cancels the context NotifyContext made.
Signal ==
    /\ pc \notin {"parse", "exited"}
    /\ signalled' = TRUE
    /\ UNCHANGED <<main, loop, conns, timer, hist>>

Listen ==
    /\ pc = "listen"
    /\ \/ pc' = "report" /\ listener' = "open" /\ UNCHANGED <<exit, failure>>
       \/ pc' = "exited" /\ exit' = 1 /\ failure' = "listen" /\ UNCHANGED listener
    /\ UNCHANGED <<shutting, signalled, loop, conns, timer, hist>>

\* The listening event goes to stderr; if that fails the listener is closed.
Report ==
    /\ pc = "report"
    /\ \/ pc' = "serve" /\ UNCHANGED <<exit, failure, listener>>
       \/ pc' = "exited" /\ exit' = 1 /\ failure' = "report" /\ listener' = "closed"
    /\ UNCHANGED <<shutting, signalled, loop, conns, timer, hist>>

-----------------------------------------------------------------------------
(* Serve *)

\* A context that is canceled already ends Serve before the loop is started.
StartServe ==
    /\ pc = "serve"
    /\ IF signalled
       THEN pc' = "return" /\ UNCHANGED loop
       ELSE pc' = "select" /\ loop' = "starting"
    /\ UNCHANGED <<exit, listener, shutting, failure, signalled, conns, timer, hist>>

\* Mutant: the loop's result is looked at only when the context is canceled.
SelectServed_OnlyCanceled ==
    /\ pc = "select" /\ Returned /\ signalled
    /\ pc' = "return"
    /\ UNCHANGED <<exit, listener, shutting, failure, signalled, loop, conns, timer, hist>>

\* select: the accept loop ended by itself.  When the context is canceled as
\* well either branch may be taken.
SelectServed ==
    /\ pc = "select" /\ Returned
    /\ pc' = "return"
    /\ UNCHANGED <<exit, listener, shutting, failure, signalled, loop, conns, timer, hist>>

\* Mutant: the loop is awaited, but nothing makes it end.
SelectCanceled_AwaitsOnly ==
    /\ pc = "select" /\ signalled
    /\ pc' = "await"
    /\ UNCHANGED <<exit, listener, shutting, failure, signalled, loop, conns, timer, hist>>

\* select: the context is canceled.  Shutdown refuses new connections and its
\* own deadline starts to run.
SelectCanceled ==
    /\ pc = "select" /\ signalled
    /\ pc' = "shutdown" /\ shutting' = TRUE /\ listener' = "closed"
    /\ owed' = Active
    /\ UNCHANGED <<exit, failure, signalled, loop, conns, timer, cut>>

\* One poll of Shutdown, once no accept loop runs that could still add a
\* connection: idle connections are closed; it succeeds when none is left.
Poll ==
    /\ pc = "shutdown" /\ ~polled /\ ~Accepting
    /\ conn' = [c \in Conns |-> IF conn[c] = "idle" THEN "closed" ELSE conn[c]]
    /\ IF \E c \in Conns : conn[c] \in {"new", "active"}
       THEN polled' = TRUE /\ UNCHANGED pc
       ELSE pc' = "await" /\ UNCHANGED polled
    /\ UNCHANGED <<exit, listener, shutting, failure, signalled, loop, age, asked,
                   elapsed, hist>>

\* Mutant: the shutdown context derives from the canceled run context.
DeadlinePassed_Inherited == signalled

\* The deadline of the shutdown context, which does not derive from the
\* canceled run context.
DeadlinePassed == elapsed = ShutdownTimeout

Deadline ==
    /\ pc = "shutdown" /\ DeadlinePassed /\ ~Accepting
    /\ pc' = "close" /\ failure' = "deadline"
    /\ UNCHANGED <<exit, listener, shutting, signalled, loop, conns, timer, hist>>

\* Server.Close: every connection the server tracks is closed at once.
CloseTracked ==
    /\ conn' = [c \in Conns |-> IF conn[c] \in Tracked THEN "closed" ELSE conn[c]]
    /\ cut' = cut \cup Active

CloseNow ==
    /\ pc = "close"
    /\ pc' = "await"
    /\ CloseTracked
    /\ UNCHANGED <<exit, listener, shutting, failure, signalled, loop, age, asked, timer, owed>>

\* The loop's own result is awaited whatever Shutdown returned.
Await ==
    /\ pc = "await" /\ Returned
    /\ pc' = "return"
    /\ UNCHANGED <<exit, listener, shutting, failure, signalled, loop, conns, timer, hist>>

\* Mutant: a failed loop is forgotten once a shutdown began.
ServeFailed_NotJoined == failure = "deadline" \/ (~shutting /\ loop = "failed")

\* Mutant: Shutdown's error is dropped.
ServeFailed_LoopOnly == loop = "failed"

\* The errors that reach run: a loop failure is joined to Shutdown's error.
ServeFailed == loop = "failed" \/ failure = "deadline"

\* Mutant: no deferred Server.Close.
Return_NoClose ==
    /\ pc = "return"
    /\ pc' = "exited" /\ exit' = IF ServeFailed THEN 1 ELSE 0
    /\ listener' = "closed"
    /\ UNCHANGED <<shutting, failure, signalled, loop, conns, timer, hist>>

\* The deferred Close calls, then the exit code of run.
Return ==
    /\ pc = "return"
    /\ pc' = "exited" /\ exit' = IF ServeFailed THEN 1 ELSE 0
    /\ listener' = "closed"
    /\ CloseTracked
    /\ UNCHANGED <<shutting, failure, signalled, loop, age, asked, timer, owed>>

-----------------------------------------------------------------------------
(* The accept loop: Server.Serve in its own goroutine *)

\* The loop may get to run only after Shutdown was called.
StartLoop ==
    /\ pc # "exited" /\ loop = "starting"
    /\ loop' = IF shutting THEN "closed" ELSE "accepting"
    /\ UNCHANGED <<main, signalled, conns, timer, hist>>

Accept(c) ==
    /\ pc # "exited" /\ loop = "accepting" /\ listener = "open" /\ conn[c] = "absent"
    /\ loop' = "handoff"
    /\ conn' = [conn EXCEPT ![c] = "handoff"]
    /\ UNCHANGED <<main, signalled, age, asked, timer, hist>>

\* The accepted connection becomes known to the server only now, possibly
\* after Shutdown was called, which waits for the loop before it looks.
Track(c) ==
    /\ pc # "exited" /\ conn[c] = "handoff"
    /\ loop' = "accepting"
    /\ conn' = [conn EXCEPT ![c] = "new"]
    /\ UNCHANGED <<main, signalled, age, asked, timer, hist>>

\* Accept returns an error: the listener was closed or failed.  The loop
\* reports ErrServerClosed for any error once a shutdown has begun.
AcceptError ==
    /\ pc # "exited" /\ loop = "accepting"
    /\ loop' = IF shutting THEN "closed" ELSE "failed"
    /\ listener' = "closed"
    /\ UNCHANGED <<pc, exit, shutting, failure, signalled, conns, timer, hist>>

-----------------------------------------------------------------------------
(* Connections and time *)

Request(c) ==
    /\ pc # "exited" /\ conn[c] \in {"new", "idle"}
    /\ conn' = [conn EXCEPT ![c] = "active"]
    /\ asked' = asked \cup {c}
    /\ UNCHANGED <<main, signalled, loop, age, timer, hist>>

\* A handler may take any time.  Its connection is kept for another request
\* unless the client asked to close it or a shutdown has begun.
Finish(c) ==
    /\ pc # "exited" /\ conn[c] = "active"
    /\ \E next \in (IF shutting THEN {"closed"} ELSE {"idle", "closed"}) :
           conn' = [conn EXCEPT ![c] = next]
    /\ UNCHANGED <<main, signalled, loop, age, asked, timer, hist>>

\* The client hangs up, or an idle connection reaches IdleTimeout.
HangUp(c) ==
    /\ pc # "exited" /\ conn[c] \in {"new", "idle"}
    /\ conn' = [conn EXCEPT ![c] = "closed"]
    /\ UNCHANGED <<main, signalled, loop, age, asked, timer, hist>>

ReadHeaderTimeout(c) ==
    /\ pc # "exited" /\ conn[c] = "new" /\ age[c] = HeaderTimeout
    /\ conn' = [conn EXCEPT ![c] = "closed"]
    /\ UNCHANGED <<main, signalled, loop, age, asked, timer, hist>>

\* Nothing that is due in this tick is left over.
Tick ==
    /\ pc # "exited"
    /\ \A c \in Conns : conn[c] = "new" => age[c] < HeaderTimeout
    /\ pc = "shutdown" => polled /\ ~DeadlinePassed
    /\ age' = [c \in Conns |-> IF conn[c] = "new" THEN age[c] + 1 ELSE age[c]]
    /\ IF pc = "shutdown"
       THEN elapsed' = elapsed + 1 /\ polled' = FALSE
       ELSE UNCHANGED timer
    /\ UNCHANGED <<main, signalled, loop, conn, asked, hist>>

-----------------------------------------------------------------------------

MainStep ==
    \/ ParseArgs \/ Listen \/ Report \/ StartServe \/ SelectServed
    \/ SelectCanceled \/ Poll \/ Deadline \/ CloseNow \/ Await \/ Return

LoopStep == StartLoop \/ (listener = "closed" /\ AcceptError) \/ \E c \in Conns : Track(c)

Next ==
    \/ MainStep
    \/ Signal
    \/ StartLoop \/ AcceptError
    \/ \E c \in Conns : \/ Accept(c) \/ Track(c) \/ Request(c) \/ Finish(c)
                        \/ HangUp(c) \/ ReadHeaderTimeout(c)
    \/ Tick

Spec == Init /\ [][Next]_vars

\* The Go scheduler runs every goroutine that can run, Accept returns once its
\* listener is closed, and time passes.  Clients and handlers are not fair.
Fairness ==
    /\ WF_vars(MainStep)
    /\ WF_vars(LoopStep)
    /\ \A c \in Conns : WF_vars(ReadHeaderTimeout(c))
    /\ WF_vars(Tick)

FairSpec == Spec /\ Fairness

-----------------------------------------------------------------------------
(* Safety *)

Exited == pc = "exited"

\* Serve "returns after serving stops and its resources close": when the
\* process ends in an orderly way no listener is open, no connection the accept
\* loop took is left behind, and the loop itself has returned.
NothingLeftOpen ==
    Exited =>
        /\ listener # "open"
        /\ \A c \in Conns : conn[c] \in {"absent", "closed"}
        /\ loop = "none" \/ Returned

\* The exit code tells the truth whichever branch of select won: 0 only for
\* help or a signal with no failed accept loop, 1 only with a failure.
ExitCodeTruthful ==
    Exited =>
        /\ exit = 0 => loop # "failed" /\ failure = None /\ (signalled \/ listener = "none")
        /\ exit = 1 => loop = "failed" \/ failure # None
        /\ exit = 2 => listener = "none"

\* A stop that reports success has let every request that was running when it
\* began finish.
OwedRequestsFinish == Exited /\ exit = 0 => owed \cap cut = {}

\* A running request is cut only by a failed accept loop or after it was given
\* the whole shutdown timeout, although the run context is canceled long before.
OwedCutOnlyAtDeadline ==
    [][\A c \in owed \cap (cut' \ cut) : elapsed = ShutdownTimeout]_vars

-----------------------------------------------------------------------------
(* Refinement *)

Phase ==
    IF Exited THEN "ended"
    ELSE IF loop = "none" THEN "starting"
    ELSE IF ~shutting THEN "serving"
    ELSE IF failure = "deadline" THEN "overdue" ELSE "draining"

Contract == INSTANCE ServerContract
    WITH Requests <- Conns, None <- None,
         phase <- Phase, code <- exit, running <- Active, owed <- owed \cap Active

\* With its goroutines, polls and races the process keeps the promises of the
\* lifecycle specification: every step of run, Serve, the accept loop and the
\* connections is a step of the contract or none at all.
KeepsContract == Contract!Spec

-----------------------------------------------------------------------------
(* Liveness *)

\* A signal ends the process even when handlers never return and silent
\* connections stay open: run's 5 s bound the drain.
SignalEndsProcess == signalled ~> Exited

\* A failed accept loop ends the process, signal or not: Serve never waits for
\* a loop that is gone.
LoopFailureEndsProcess == loop = "failed" ~> Exited

-----------------------------------------------------------------------------
(* What the lifecycle specification says of a server without requests: a
   signal ends it with code 0 (openspec/specs/server-lifecycle/spec.md,
   "Stop an idle server"). *)
IdleStopExitsZero ==
    Exited /\ signalled /\ listener = "closed" /\ asked = {} /\ loop # "failed"
        /\ failure # "report"
        => exit = 0
=============================================================================
