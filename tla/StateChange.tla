----------------------------- MODULE StateChange -----------------------------
(***************************************************************************)
(* One wait of the provider: WaitForStateContext of the plugin SDK (an     *)
(* external library, modelled from how utils_wait.go uses it) polling the  *)
(* refresh function of one StateChangeConf until it succeeds, fails, runs  *)
(* into its own Timeout or into the deadline of the handler's context.     *)
(*                                                                         *)
(* The object lives on the server and moves on its own.  A poll is two     *)
(* steps, because the answer is formed on the server before the provider   *)
(* looks at it: the object may have moved, and time may have passed, in    *)
(* between.  The provider's credentials may be revoked at any time.        *)
(***************************************************************************)
EXTENDS ApiResponse, Integers

CONSTANTS
    Waits,           \* the names of the waits
    Conf,            \* the StateChangeConf of each
    Truths,          \* the states the object of each can be in
    Goal,            \* the states each is meant to wait for
    Describing,      \* those that describe a refusal before they classify it
    NotFoundChecks   \* consecutive nil results the library tolerates (20)

Outcomes == [res : {"nil", "obj"}, state : STRING, err : BOOLEAN]
AllTruths == Phases \cup {"gone", "GOVCLOUD"}

ASSUME NotFoundChecksAssumption == NotFoundChecks \in Nat

ASSUME ConfAssumption ==
    \A w \in Waits : /\ Conf[w].Refresh \in [Answers -> Outcomes]
                     /\ Conf[w].ContinuousTargetOccurence \in Nat \ {0}
                     /\ Conf[w].Timeout \in Nat
                     /\ Conf[w].deadline \in Nat
                     /\ Truths[w] \subseteq AllTruths

-----------------------------------------------------------------------------
(* The server's side of one call. *)

IsDeletion(w) == Goal[w] = {"gone"}

\* The answers of the endpoint itself about an object in state t.
Describes(t) ==
    CASE t = "gone"          -> Refusals("404", FALSE) \cup Refusals("403", FALSE)
      [] t = "GOVCLOUD"      -> {Refused("400", FALSE, TRUE)}
      [] t = "UNSYNCED"      -> Refusals("401", FALSE) \cup Refusals("403", FALSE)
      [] t = "PARTLY_SYNCED" -> Refusals("401", FALSE) \cup Refusals("403", FALSE) \cup {Found(t)}
      [] OTHER               -> {Found(t)}

\* A call can also fail on the way, and is refused when the credentials are no
\* longer valid.
Breaks(valid) ==
    {Refused("none", FALSE, FALSE)} \cup Refusals("500", FALSE)
        \cup (IF valid THEN {} ELSE Refusals("401", FALSE) \cup Refusals("403", TRUE))

\* A request that names something other than the object finds nothing.
ServerAnswers(w, t, valid) ==
    Describes(IF Conf[w].asks = "object" THEN t ELSE "gone") \cup Breaks(valid)

-----------------------------------------------------------------------------

VARIABLES
    wait,     \* the wait under way
    truth,    \* the state the object is in
    valid,    \* are the provider's credentials valid?
    pc,       \* "sleeping" between polls, "calling", or "returned"
    answer,   \* the answer under way to the provider
    sighted,  \* the state the object was in when that answer was formed
    targetOccurence, notfoundTick,   \* the library's two counters
    foundBefore, \* history: was the answer before this one a 200?
    now,      \* minutes since the wait began
    cancelled,\* the Timeout has fired and the 30 s grace period runs
    result    \* "none", "ok", or the kind of error returned

vars == <<wait, truth, valid, pc, answer, sighted, targetOccurence, notfoundTick,
          foundBefore, now, cancelled, result>>
serverVars == <<truth, valid>>

NoAnswer == Refused("none", FALSE, FALSE)
Results == {"none", "ok", "error", "notFound", "unexpectedState", "timeout", "ctxDone", "panicked"}

Init ==
    /\ wait \in Waits
    /\ truth \in Truths[wait]
    /\ valid \in BOOLEAN
    /\ pc = "sleeping"
    /\ answer = NoAnswer
    /\ sighted = "none"
    /\ targetOccurence = 0
    /\ notfoundTick = 0
    /\ foundBefore = FALSE
    /\ now = 0
    /\ cancelled = FALSE
    /\ result = "none"

\* A deleted object stays deleted; any other object may be in any of its states.
ObjectMoves ==
    /\ IsDeletion(wait) => truth # "gone"
    /\ truth' \in Truths[wait]
    /\ UNCHANGED <<wait, valid, pc, answer, sighted, targetOccurence, notfoundTick, foundBefore,
                   now, cancelled, result>>

CredentialsRevoked ==
    /\ valid
    /\ valid' = FALSE
    /\ UNCHANGED <<wait, truth, pc, answer, sighted, targetOccurence, notfoundTick, foundBefore,
                   now, cancelled, result>>

\* Time passes up to the next timer, and never past a timer that is due.
TimePasses ==
    /\ result = "none"
    /\ ~(now >= Conf[wait].Timeout /\ ~cancelled)
    /\ now < Conf[wait].deadline
    /\ now' \in {Conf[wait].Timeout, Conf[wait].deadline}
    /\ now' > now
    /\ \A t \in {Conf[wait].Timeout, Conf[wait].deadline} : t > now => now' <= t
    /\ UNCHANGED <<wait, truth, valid, pc, answer, sighted, targetOccurence, notfoundTick,
                   foundBefore, cancelled, result>>

\* conf.Refresh() sends its request and the server forms an answer.
Refresh ==
    /\ pc = "sleeping"
    /\ ~cancelled
    /\ answer' \in ServerAnswers(wait, truth, valid)
    /\ sighted' = truth
    /\ foundBefore' = (answer.code = "200")
    /\ pc' = "calling"
    /\ UNCHANGED <<wait, serverVars, targetOccurence, notfoundTick, now, cancelled, result>>

Return(r) ==
    /\ result' = r
    /\ pc' = "returned"

\* The loop goes on.  After the Timeout the cancelled loop stops instead, and
\* whatever it was about to report becomes a TimeoutError.
Continue ==
    IF cancelled THEN Return("timeout") ELSE pc' = "sleeping" /\ UNCHANGED result

Returned == Conf[wait].Refresh[answer]

\* A panic of the refresh function, which runs in a goroutine of its own, ends the
\* plugin and the wait with it.
RefreshPanics ==
    /\ Returned.state = "PANIC"
    /\ Return("panicked")
    /\ UNCHANGED <<targetOccurence, notfoundTick>>

RefreshFailed ==
    /\ Returned.err
    /\ Returned.state # "PANIC"
    /\ Return(IF cancelled THEN "timeout" ELSE "error")
    /\ UNCHANGED <<targetOccurence, notfoundTick>>

\* Mutated form: one miss more than the library tolerates.
ToleratesOneMissMore ==
    /\ ~Returned.err
    /\ Returned.res = "nil"
    /\ notfoundTick' = notfoundTick + 1
    /\ IF notfoundTick' > NotFoundChecks + 1
       THEN Return(IF cancelled THEN "timeout" ELSE "notFound")
       ELSE Continue
    /\ UNCHANGED targetOccurence

\* A nil result with an empty Target list is success; no conf has one.
RefreshFoundNothing ==
    /\ ~Returned.err
    /\ Returned.res = "nil"
    /\ notfoundTick' = notfoundTick + 1
    /\ IF notfoundTick' > NotFoundChecks
       THEN Return(IF cancelled THEN "timeout" ELSE "notFound")
       ELSE Continue
    /\ UNCHANGED targetOccurence

RefreshFoundTarget ==
    /\ ~Returned.err
    /\ Returned.res = "obj"
    /\ Returned.state \in Conf[wait].Target
    /\ notfoundTick' = 0
    /\ targetOccurence' = targetOccurence + 1
    /\ IF targetOccurence' = Conf[wait].ContinuousTargetOccurence
       THEN Return("ok")
       ELSE Continue

RefreshFoundPending ==
    /\ ~Returned.err
    /\ Returned.res = "obj"
    /\ Returned.state \in Conf[wait].Pending \ Conf[wait].Target
    /\ notfoundTick' = 0
    /\ targetOccurence' = 0
    /\ Continue

\* A state of neither list ends the wait, unless Pending is empty.
RefreshFoundOther ==
    /\ ~Returned.err
    /\ Returned.res = "obj"
    /\ Returned.state \notin Conf[wait].Pending \cup Conf[wait].Target
    /\ notfoundTick' = 0
    /\ IF Conf[wait].Pending # {}
       THEN Return(IF cancelled THEN "timeout" ELSE "unexpectedState")
       ELSE Continue
    /\ UNCHANGED targetOccurence

RefreshReturns ==
    /\ pc = "calling"
    /\ \/ RefreshPanics
       \/ RefreshFailed
       \/ RefreshFoundNothing
       \/ RefreshFoundTarget
       \/ RefreshFoundPending
       \/ RefreshFoundOther
    /\ UNCHANGED <<wait, serverVars, answer, sighted, foundBefore, now, cancelled>>

\* time.After(conf.Timeout): a sleeping loop is over, a call that is under way
\* gets a grace period.
TimeoutFires ==
    /\ result = "none"
    /\ ~cancelled
    /\ now >= Conf[wait].Timeout
    /\ cancelled' = TRUE
    /\ IF pc = "sleeping" THEN Return("timeout") ELSE UNCHANGED <<pc, result>>
    /\ UNCHANGED <<wait, serverVars, answer, sighted, targetOccurence, notfoundTick,
                   foundBefore, now>>

GracePeriodEnds ==
    /\ cancelled
    /\ pc = "calling"
    /\ Return("timeout")
    /\ UNCHANGED <<wait, serverVars, answer, sighted, targetOccurence, notfoundTick,
                   foundBefore, now, cancelled>>

\* Mutated form: the context is looked at between polls only.
CtxSeenBetweenPolls ==
    /\ result = "none"
    /\ pc = "sleeping"
    /\ now >= Conf[wait].deadline
    /\ Return(IF cancelled THEN "timeout" ELSE "ctxDone")
    /\ UNCHANGED <<wait, serverVars, answer, sighted, targetOccurence, notfoundTick,
                   foundBefore, now, cancelled>>

CtxDone ==
    /\ result = "none"
    /\ now >= Conf[wait].deadline
    /\ Return(IF cancelled THEN "timeout" ELSE "ctxDone")
    /\ UNCHANGED <<wait, serverVars, answer, sighted, targetOccurence, notfoundTick,
                   foundBefore, now, cancelled>>

\* Keeps a finished wait from counting as a deadlock.
Finished ==
    /\ result # "none"
    /\ UNCHANGED vars

Timers == TimePasses \/ TimeoutFires \/ GracePeriodEnds \/ CtxDone
Next == ObjectMoves \/ CredentialsRevoked \/ Refresh \/ RefreshReturns \/ Timers \/ Finished
Spec == Init /\ [][Next]_vars

\* The runtime's timers fire; nothing is assumed of the API's answers.
FairSpec == Spec /\ WF_vars(TimePasses) /\ WF_vars(TimeoutFires)
                 /\ WF_vars(GracePeriodEnds) /\ WF_vars(CtxDone)

-----------------------------------------------------------------------------

\* What the refresh functions owe the wait: a state of the Target list is
\* reported only about an object that is in a goal state.  Those that describe
\* first owe it only with valid credentials.
SoundRefresh(w) ==
    \A t \in Truths[w], v \in IF w \in Describing THEN {TRUE} ELSE BOOLEAN :
        \A a \in ServerAnswers(w, t, v) :
            LET o == Conf[w].Refresh[a]
            IN  ~o.err /\ o.res = "obj" /\ o.state \in Conf[w].Target => t \in Goal[w]
RefreshIsSound == \A w \in Waits : SoundRefresh(w)

\* Type invariant: the loop's state is what the SDK's loop can hold.
TypeOK ==
    /\ wait \in Waits
    /\ truth \in Truths[wait]
    /\ valid \in BOOLEAN
    /\ pc \in {"sleeping", "calling", "returned"}
    /\ answer \in Answers
    /\ sighted \in AllTruths \cup {"none"}
    /\ targetOccurence \in 0 .. Conf[wait].ContinuousTargetOccurence
    /\ notfoundTick \in 0 .. (NotFoundChecks + 1)
    /\ foundBefore \in BOOLEAN
    /\ now \in Nat
    /\ cancelled \in BOOLEAN
    /\ result \in Results
    /\ (result # "none") <=> (pc = "returned")
    /\ pc # "returned" => /\ targetOccurence < Conf[wait].ContinuousTargetOccurence
                          /\ notfoundTick <= NotFoundChecks

\* Can the classification of refusals be trusted?
Trusted == valid \/ wait \notin Describing

\* Safety: a wait reports success only when the answer it acted on was formed
\* while the object was in a state the wait is meant to wait for (every
\* waitForX of utils_wait.go returning nil).
SuccessMeansGoal == Trusted /\ result = "ok" => sighted \in Goal[wait]

\* Safety: after a wait for deletion has succeeded the object is gone for good
\* (the handler then lets Terraform forget it).
DeletedMeansGone == Trusted /\ result = "ok" /\ IsDeletion(wait) => truth = "gone"

\* Liveness: every wait ends, even if the API never answers a call again.
WaitReturns == <>(result # "none")

\* The strengthening behind the safety theorems: an answer under way was formed
\* about the state sighted, a wait that succeeded had sighted a goal state, and
\* a deletion that was sighted is final.
AnswerIsAboutSighted ==
    pc = "calling" => /\ sighted \in Truths[wait]
                      /\ \E v \in BOOLEAN : /\ valid => v
                                            /\ answer \in ServerAnswers(wait, sighted, v)
GoneIsFinal == IsDeletion(wait) /\ sighted = "gone" => truth = "gone"
IInv == TypeOK /\ AnswerIsAboutSighted /\ SuccessMeansGoal /\ GoneIsFinal

\* Refinement: the wait is an AbstractWait for the goal of the wait chosen; one
\* that describes first promises nothing about what it has sighted.
AbstractGoal == [w \in Waits |-> IF w \in Describing THEN AllTruths ELSE Goal[w]]
AbstractVerdict == CASE result = "none" -> "none" [] result = "ok" -> "ok" [] OTHER -> "error"
Promise == INSTANCE AbstractWait WITH Truths <- AllTruths, Goal <- AbstractGoal,
                                      verdict <- AbstractVerdict
ImplementsPromise == Promise!Spec
=============================================================================
