-------------------------- MODULE StateChange_proofs --------------------------
(***************************************************************************)
(* For any set of waits: the type invariant, and, when the refresh         *)
(* functions are sound, that a wait succeeds only on a goal state, that a  *)
(* deleted object is gone, and that the wait implements AbstractWait; and  *)
(* of the wait for a Kafka API key that it has seen the key twice.  For    *)
(* the waits of the provider the premise is proved of each refresh         *)
(* function and conf, and with it how these waits may end.                 *)
(***************************************************************************)
EXTENDS MCStateChange, TLAPS

\* The answers a server gives are answers the refresh functions are defined on.
LEMMA DescribesType ==
    ASSUME NEW t \in AllTruths
    PROVE  Describes(t) \subseteq Answers
<1>1. CASE t = "gone"
  BY <1>1 DEF Describes, Answers
<1>2. CASE t = "GOVCLOUD"
  BY <1>2 DEF Describes, Answers, Refusals
<1>3. CASE t = "UNSYNCED"
  BY <1>3 DEF Describes, Answers
<1>4. CASE t = "PARTLY_SYNCED"
  <2>1. t \in Phases
    BY <1>4 DEF Phases
  <2> QED BY <1>4, <2>1 DEF Describes, Answers
<1>5. CASE t # "gone" /\ t # "GOVCLOUD" /\ t # "UNSYNCED" /\ t # "PARTLY_SYNCED"
  <2>1. Describes(t) = {Found(t)}
    BY <1>5 DEF Describes
  <2>2. t \in Phases
    BY <1>5 DEF AllTruths
  <2> QED BY <2>1, <2>2 DEF Answers
<1> QED BY <1>1, <1>2, <1>3, <1>4, <1>5

LEMMA ServerAnswersType ==
    ASSUME NEW w, NEW t \in AllTruths, NEW v \in BOOLEAN
    PROVE  ServerAnswers(w, t, v) \subseteq Answers
<1>1. Breaks(v) \subseteq Answers
  BY DEF Breaks, Answers
<1>2. "gone" \in AllTruths
  BY DEF AllTruths
<1>3. Describes(IF Conf[w].asks = "object" THEN t ELSE "gone") \subseteq Answers
  BY <1>2, DescribesType
<1> QED BY <1>1, <1>3 DEF ServerAnswers

-----------------------------------------------------------------------------
(* The type invariant. *)

LEMMA InitType == Init => TypeOK
<1> SUFFICES ASSUME Init PROVE TypeOK
  OBVIOUS
<1>1. NoAnswer \in Answers
  BY DEF NoAnswer, Answers
<1>2. /\ targetOccurence \in 0 .. Conf[wait].ContinuousTargetOccurence
      /\ targetOccurence < Conf[wait].ContinuousTargetOccurence
      /\ notfoundTick \in 0 .. (NotFoundChecks + 1)
      /\ notfoundTick <= NotFoundChecks
  BY ConfAssumption, NotFoundChecksAssumption DEF Init
<1> QED BY <1>1, <1>2 DEF Init, TypeOK, Results

\* The six ways a refresh can end keep the library's counters in range.
LEMMA RefreshReturnsType ==
    ASSUME TypeOK, RefreshReturns
    PROVE  TypeOK'
<1> USE DEF TypeOK, Results
<1>1. pc = "calling" /\ result = "none" /\ wait' = wait /\ wait \in Waits
  BY DEF RefreshReturns
<1>2. /\ Conf[wait].ContinuousTargetOccurence \in Nat \ {0}
      /\ NotFoundChecks \in Nat
  BY ConfAssumption, NotFoundChecksAssumption
<1>3. UNCHANGED <<wait, truth, valid, answer, sighted, foundBefore, now, cancelled>>
  BY DEF RefreshReturns, serverVars
<1>4. CASE RefreshFailed \/ RefreshPanics
  BY <1>1, <1>3, <1>4 DEF RefreshFailed, RefreshPanics, Return
<1>5. CASE RefreshFoundNothing
  BY <1>1, <1>2, <1>3, <1>5 DEF RefreshFoundNothing, Return, Continue
<1>6. CASE RefreshFoundTarget
  BY <1>1, <1>2, <1>3, <1>6 DEF RefreshFoundTarget, Return, Continue
<1>7. CASE RefreshFoundPending
  BY <1>1, <1>2, <1>3, <1>7 DEF RefreshFoundPending, Return, Continue
<1>8. CASE RefreshFoundOther
  BY <1>1, <1>2, <1>3, <1>8 DEF RefreshFoundOther, Return, Continue
<1> QED BY <1>4, <1>5, <1>6, <1>7, <1>8 DEF RefreshReturns

LEMMA NextType == TypeOK /\ [Next]_vars => TypeOK'
<1> SUFFICES ASSUME TypeOK, [Next]_vars PROVE TypeOK'
  OBVIOUS
<1>0. wait \in Waits /\ Truths[wait] \subseteq AllTruths /\ Conf[wait].Timeout \in Nat
      /\ Conf[wait].deadline \in Nat
  BY ConfAssumption DEF TypeOK
<1>1. CASE ObjectMoves
  BY <1>1 DEF TypeOK, ObjectMoves
<1>2. CASE CredentialsRevoked
  BY <1>2 DEF TypeOK, CredentialsRevoked
<1>3. CASE Refresh
  <2>1. answer' \in Answers
    BY <1>0, <1>3, ServerAnswersType DEF TypeOK, Refresh
  <2> QED BY <1>0, <1>3, <2>1 DEF TypeOK, Refresh, serverVars
<1>4. CASE RefreshReturns
  BY <1>4, RefreshReturnsType
<1>5. CASE TimePasses
  <2>1. now' \in Nat
    BY <1>0, <1>5 DEF TimePasses
  <2> QED BY <1>5, <2>1 DEF TypeOK, TimePasses
<1>6. CASE TimeoutFires
  BY <1>6 DEF TypeOK, TimeoutFires, Return, Results, serverVars
<1>7. CASE GracePeriodEnds
  BY <1>7 DEF TypeOK, GracePeriodEnds, Return, Results, serverVars
<1>8. CASE CtxDone
  BY <1>8 DEF TypeOK, CtxDone, Return, Results, serverVars
<1>9. CASE UNCHANGED vars
  BY <1>9 DEF TypeOK, vars
<1> QED BY <1>1, <1>2, <1>3, <1>4, <1>5, <1>6, <1>7, <1>8, <1>9 DEF Next, Timers, Finished

\* For every set of waits, every conf and every server, the loop's variables
\* keep their types and its counters never pass the limits of the conf.
THEOREM TypeCorrect == Spec => []TypeOK
BY InitType, NextType, PTL DEF Spec

-----------------------------------------------------------------------------
(* Success means goal. *)

\* A refresh that found a target acted on a sound answer.
LEMMA TargetMeansGoal ==
    ASSUME RefreshIsSound, TypeOK, AnswerIsAboutSighted, Trusted, pc = "calling",
           ~Returned.err, Returned.res = "obj", Returned.state \in Conf[wait].Target
    PROVE  sighted \in Goal[wait]
<1>1. PICK v \in BOOLEAN : (valid => v) /\ answer \in ServerAnswers(wait, sighted, v)
  BY DEF AnswerIsAboutSighted
<1>2. wait \in Waits /\ sighted \in Truths[wait]
  BY DEF TypeOK, AnswerIsAboutSighted
<1>3. v \in IF wait \in Describing THEN {TRUE} ELSE BOOLEAN
  BY <1>1 DEF Trusted
<1> QED BY <1>1, <1>2, <1>3 DEF RefreshIsSound, SoundRefresh, Returned

LEMMA InitIInv == Init => IInv
<1> SUFFICES ASSUME Init PROVE IInv
  OBVIOUS
<1>1. TypeOK
  BY InitType
<1> QED BY <1>1 DEF Init, IInv, AnswerIsAboutSighted, SuccessMeansGoal, GoneIsFinal

LEMMA NextIInv == ASSUME RefreshIsSound PROVE IInv /\ [Next]_vars => IInv'
<1> SUFFICES ASSUME IInv, [Next]_vars PROVE IInv'
  OBVIOUS
<1>0. TypeOK /\ TypeOK'
  BY NextType DEF IInv
<1> USE DEF IInv, AnswerIsAboutSighted, SuccessMeansGoal, Trusted, GoneIsFinal, IsDeletion
<1>1. CASE ObjectMoves
  BY <1>0, <1>1 DEF ObjectMoves
<1>2. CASE CredentialsRevoked
  BY <1>0, <1>2 DEF CredentialsRevoked
<1>3. CASE Refresh
  <2>1. AnswerIsAboutSighted'
    BY <1>0, <1>3 DEF Refresh, serverVars, TypeOK
  <2>2. SuccessMeansGoal'
    BY <1>0, <1>3 DEF Refresh, TypeOK
  <2>3. GoneIsFinal'
    BY <1>3 DEF Refresh, serverVars
  <2> QED BY <1>0, <2>1, <2>2, <2>3
<1>4. CASE RefreshReturns
  <2>1. UNCHANGED <<wait, truth, valid, answer, sighted>> /\ pc = "calling" /\ pc' # "calling"
    BY <1>4 DEF RefreshReturns, serverVars, RefreshPanics, RefreshFailed, RefreshFoundNothing, RefreshFoundTarget,
                RefreshFoundPending, RefreshFoundOther, Return, Continue
  <2>2. SuccessMeansGoal'
    <3>1. CASE RefreshFoundTarget
      BY <1>0, <2>1, <3>1, TargetMeansGoal DEF RefreshFoundTarget
    <3>2. CASE ~RefreshFoundTarget
      BY <1>0, <1>4, <2>1, <3>2 DEF RefreshReturns, RefreshPanics, RefreshFailed, RefreshFoundNothing, TypeOK,
                RefreshFoundPending, RefreshFoundOther, Return, Continue
    <3> QED BY <3>1, <3>2
  <2> QED BY <1>0, <2>1, <2>2
<1>5. CASE TimePasses
  BY <1>0, <1>5 DEF TimePasses
<1>6. CASE TimeoutFires
  BY <1>0, <1>6 DEF TimeoutFires, Return, serverVars, TypeOK
<1>7. CASE GracePeriodEnds
  BY <1>0, <1>7 DEF GracePeriodEnds, Return, serverVars
<1>8. CASE CtxDone
  BY <1>0, <1>8 DEF CtxDone, Return, serverVars
<1>9. CASE UNCHANGED vars
  BY <1>0, <1>9 DEF vars
<1> QED BY <1>1, <1>2, <1>3, <1>4, <1>5, <1>6, <1>7, <1>8, <1>9 DEF Next, Timers, Finished

\* With sound refresh functions a wait that returns nil had sighted the object
\* in a goal state, however polls, timers and the object's moves interleave.
THEOREM SuccessMeansGoalHolds == ASSUME RefreshIsSound PROVE Spec => []SuccessMeansGoal
<1>1. IInv => SuccessMeansGoal
  BY DEF IInv
<1>2. IInv /\ [Next]_vars => IInv'
  BY NextIInv
<1> QED BY <1>1, <1>2, InitIInv, PTL DEF Spec

\* With sound refresh functions a wait for deletion that returns nil leaves an
\* object that is gone, now and later.
THEOREM DeletedMeansGoneHolds == ASSUME RefreshIsSound PROVE Spec => []DeletedMeansGone
<1>1. IInv => DeletedMeansGone
  BY DEF IInv, SuccessMeansGoal, GoneIsFinal, DeletedMeansGone, IsDeletion
<1>2. IInv /\ [Next]_vars => IInv'
  BY NextIInv
<1> QED BY <1>1, <1>2, InitIInv, PTL DEF Spec

-----------------------------------------------------------------------------
(* Refinement. *)

LEMMA InitRefines == Init => Promise!Init
BY ConfAssumption DEF Init, Promise!Init, AbstractVerdict

LEMMA NextRefines ==
    ASSUME RefreshIsSound
    PROVE  IInv /\ [Next]_vars => [Promise!Next]_(Promise!vars)
<1> SUFFICES ASSUME IInv, [Next]_vars PROVE [Promise!Next]_(Promise!vars)
  OBVIOUS
<1>0. TypeOK /\ wait \in Waits /\ Truths[wait] \subseteq AllTruths
  BY ConfAssumption DEF IInv, TypeOK
<1> USE DEF Promise!Next, Promise!vars, AbstractVerdict
<1>1. CASE ObjectMoves
  BY <1>0, <1>1 DEF ObjectMoves, Promise!ObjectMoves
<1>2. CASE CredentialsRevoked
  BY <1>2 DEF CredentialsRevoked
<1>3. CASE Refresh
  BY <1>0, <1>3 DEF Refresh, serverVars, TypeOK, Promise!Sight
<1>4. CASE RefreshReturns
  <2>0. UNCHANGED <<wait, truth, sighted>> /\ pc = "calling" /\ result = "none"
    BY <1>0, <1>4 DEF RefreshReturns, serverVars, TypeOK
  <2>1. CASE result' = "none"
    BY <2>0, <2>1
  <2>2. CASE result' = "ok"
    <3>1. RefreshFoundTarget
      BY <1>4, <2>0, <2>2 DEF RefreshReturns, RefreshPanics, RefreshFailed, RefreshFoundNothing, RefreshFoundPending,
                      RefreshFoundOther, Return, Continue
    <3>2. sighted \in AllTruths
      BY <1>0, <2>0 DEF IInv, AnswerIsAboutSighted
    <3>3. wait \notin Describing => sighted \in Goal[wait]
      BY <1>0, <2>0, <3>1, TargetMeansGoal DEF RefreshFoundTarget, IInv, Trusted
    <3>4. sighted \in AbstractGoal[wait]
      BY <1>0, <3>2, <3>3 DEF AbstractGoal
    <3> QED BY <2>0, <2>2, <3>4 DEF Promise!Succeed
  <2>3. CASE result' # "none" /\ result' # "ok"
    BY <2>0, <2>3 DEF Promise!GiveUp
  <2> QED BY <2>1, <2>2, <2>3
<1>5. CASE TimePasses
  BY <1>5 DEF TimePasses
<1>6. CASE TimeoutFires
  BY <1>6 DEF TimeoutFires, Return, serverVars, Promise!GiveUp
<1>7. CASE GracePeriodEnds
  BY <1>0, <1>7 DEF GracePeriodEnds, Return, serverVars, TypeOK, Promise!GiveUp
<1>8. CASE CtxDone
  BY <1>8 DEF CtxDone, Return, serverVars, Promise!GiveUp
<1>9. CASE UNCHANGED vars
  BY <1>9 DEF vars
<1> QED BY <1>1, <1>2, <1>3, <1>4, <1>5, <1>6, <1>7, <1>8, <1>9 DEF Next, Timers, Finished

\* With sound refresh functions every wait implements AbstractWait, which is all
\* the handlers rely on.
THEOREM Refinement == ASSUME RefreshIsSound PROVE Spec => ImplementsPromise
<1>1. IInv /\ [Next]_vars => IInv'
  BY NextIInv
<1>2. IInv /\ [Next]_vars => [Promise!Next]_(Promise!vars)
  BY NextRefines
<1> QED BY <1>1, <1>2, InitIInv, InitRefines, PTL DEF Spec, ImplementsPromise, Promise!Spec

-----------------------------------------------------------------------------
(* A Kafka API key is seen twice. *)

\* Between the first and the second synced answer nothing else was answered: the
\* counter of the library stands for answers in a row.
SeenInv ==
    wait = "kafkaApiKey" =>
        /\ targetOccurence > 0 /\ pc = "sleeping" => answer.code = "200"
        /\ targetOccurence > 0 /\ pc = "calling" => foundBefore
        /\ result = "ok" => answer.code = "200" /\ foundBefore

\* The refresh function of the wait reports the Target only of a 200, and never a
\* nil result without an error, which would leave the counter as it is.
LEMMA SyncedMeansFound ==
    ASSUME NEW a \in Answers, ~kafkaApiKeySyncStatus[a].err
    PROVE  /\ kafkaApiKeySyncStatus[a].res = "obj"
           /\ kafkaApiKeySyncStatus[a].state \in {"DONE", "IN_PROGRESS"}
           /\ kafkaApiKeySyncStatus[a].state = "DONE" => a.code = "200"
BY DEF kafkaApiKeySyncStatus, SyncStatus, Outcome, Failure

LEMMA SeenKeeps ==
    ASSUME Conf["kafkaApiKey"] = waitForCreatedKafkaApiKeyToSync, TypeOK, SeenInv, [Next]_vars
    PROVE  SeenInv'
<1>1. /\ Conf["kafkaApiKey"].ContinuousTargetOccurence = 2
      /\ Conf["kafkaApiKey"].Target = {"DONE"}
      /\ Conf["kafkaApiKey"].Pending = {"IN_PROGRESS"}
      /\ Conf["kafkaApiKey"].Refresh = kafkaApiKeySyncStatus
  BY DEF waitForCreatedKafkaApiKeyToSync, KeySync, StateChangeConf
<1>2. wait' = wait
  BY DEF Next, vars, Finished, Timers, ObjectMoves, CredentialsRevoked, Refresh, RefreshReturns,
         TimePasses, TimeoutFires, GracePeriodEnds, CtxDone
<1> SUFFICES ASSUME wait = "kafkaApiKey" PROVE SeenInv'
  BY <1>2 DEF SeenInv
<1>3. CASE RefreshReturns
  <2>1. /\ pc = "calling" /\ UNCHANGED <<answer, foundBefore>> /\ answer \in Answers
        /\ targetOccurence \in Nat /\ targetOccurence < 2 /\ result = "none"
    BY <1>1, <1>3 DEF RefreshReturns, TypeOK
  <2>2. Returned = kafkaApiKeySyncStatus[answer]
    BY <1>1 DEF Returned
  <2>3. CASE Returned.err
    BY <1>3, <2>1, <2>3 DEF RefreshReturns, RefreshPanics, RefreshFailed, RefreshFoundNothing,
           RefreshFoundTarget, RefreshFoundPending, RefreshFoundOther, Return, SeenInv
  <2>4. CASE ~Returned.err /\ RefreshPanics
    BY <2>1, <2>4 DEF RefreshPanics, Return, SeenInv
  <2>5. CASE ~Returned.err /\ ~RefreshPanics
    <3>1. /\ Returned.res = "obj"
          /\ Returned.state \in {"DONE", "IN_PROGRESS"}
          /\ Returned.state = "DONE" => answer.code = "200"
      BY <2>1, <2>2, <2>5, SyncedMeansFound
    <3>2. CASE RefreshFoundTarget
      <4>1. answer'.code = "200" /\ targetOccurence' = targetOccurence + 1
        BY <1>1, <2>1, <3>1, <3>2 DEF RefreshFoundTarget
      <4>2. result' = "ok" => targetOccurence = 1
        BY <1>1, <2>1, <3>2 DEF RefreshFoundTarget, Return, Continue
      <4>3. pc' # "calling"
        BY <3>2 DEF RefreshFoundTarget, Return, Continue
      <4> QED BY <2>1, <4>1, <4>2, <4>3 DEF SeenInv
    <3>3. CASE RefreshFoundPending
      BY <2>1, <3>3 DEF RefreshFoundPending, Return, Continue, SeenInv
    <3>4. ~RefreshFoundOther /\ ~RefreshFoundNothing /\ ~RefreshFailed
      BY <1>1, <2>5, <3>1 DEF RefreshFoundOther, RefreshFoundNothing, RefreshFailed
    <3> QED BY <1>3, <2>5, <3>2, <3>3, <3>4 DEF RefreshReturns
  <2> QED BY <2>3, <2>4, <2>5
<1>4. CASE Refresh
  BY <1>4 DEF Refresh, SeenInv, TypeOK
<1>5. CASE ObjectMoves \/ CredentialsRevoked \/ TimePasses \/ UNCHANGED vars
  BY <1>5 DEF ObjectMoves, CredentialsRevoked, TimePasses, vars, SeenInv
<1>6. CASE TimeoutFires \/ GracePeriodEnds \/ CtxDone
  BY <1>6 DEF TimeoutFires, GracePeriodEnds, CtxDone, Return, SeenInv, TypeOK
<1> QED BY <1>3, <1>4, <1>5, <1>6 DEF Next, Timers, Finished

\* The wait for a Kafka API key, as utils_wait.go configures it, succeeds only
\* after two answers in a row that found the key synced, however polls, timers and
\* revocations interleave.
THEOREM KeyIsSeenTwice ==
    ASSUME Conf["kafkaApiKey"] = waitForCreatedKafkaApiKeyToSync
    PROVE  Spec => []KafkaKeySeenTwice
<1>1. Init => TypeOK /\ SeenInv
  BY InitType DEF Init, SeenInv
<1>2. TypeOK /\ SeenInv /\ [Next]_vars => TypeOK' /\ SeenInv'
  BY NextType, SeenKeeps
<1>3. SeenInv => KafkaKeySeenTwice
  BY DEF SeenInv, KafkaKeySeenTwice
<1> QED BY <1>1, <1>2, <1>3, PTL DEF Spec

-----------------------------------------------------------------------------
(* How a wait may end. *)

\* A conf whose lists cover what its refresh function reports, and one whose
\* refresh function survives every answer.
Covers(c) ==
    \/ c.Pending = {}
    \/ \A a \in Answers : LET o == c.Refresh[a]
                          IN  ~o.err /\ o.res = "obj" => o.state \in c.Pending \cup c.Target
NeverPanics(c) == \A a \in Answers : c.Refresh[a].state # "PANIC"

\* The refresh functions decide about unexpected states and panics; a context is
\* done only at its deadline, and the clock of a wait that has ended stands still.
EndInv ==
    /\ KnownStatesNeverEndAWait
    /\ LostAnswerNeverPanics
    /\ result = "ctxDone" => now >= Conf[wait].deadline

WellConfigured ==
    \A w \in Waits : /\ w \notin Brittle => Covers(Conf[w])
                     /\ w \notin Unguarded => NeverPanics(Conf[w])
                     /\ w \notin CutShort => Conf[w].Timeout <= Conf[w].deadline

LEMMA EndKeeps ==
    ASSUME WellConfigured, TypeOK, EndInv, [Next]_vars
    PROVE  EndInv'
<1> USE DEF EndInv, KnownStatesNeverEndAWait, LostAnswerNeverPanics
<1>1. CASE RefreshReturns
  <2>1. /\ UNCHANGED <<wait, now>> /\ wait \in Waits /\ answer \in Answers /\ result = "none"
    BY <1>1 DEF RefreshReturns, TypeOK
  <2>2. CASE RefreshPanics
    BY <2>1, <2>2 DEF RefreshPanics, Return, Returned, WellConfigured, NeverPanics
  <2>3. CASE RefreshFoundOther
    BY <2>1, <2>3 DEF RefreshFoundOther, Return, Continue, Returned, WellConfigured, Covers
  <2>4. CASE RefreshFailed \/ RefreshFoundNothing \/ RefreshFoundTarget \/ RefreshFoundPending
    BY <2>1, <2>4 DEF RefreshFailed, RefreshFoundNothing, RefreshFoundTarget, RefreshFoundPending,
                      Return, Continue
  <2> QED BY <1>1, <2>2, <2>3, <2>4 DEF RefreshReturns
<1>2. CASE TimePasses
  BY <1>2 DEF TimePasses
<1>3. CASE CtxDone
  BY <1>3 DEF CtxDone, Return
<1>4. CASE TimeoutFires \/ GracePeriodEnds
  BY <1>4 DEF TimeoutFires, GracePeriodEnds, Return
<1>5. CASE Refresh \/ ObjectMoves \/ CredentialsRevoked \/ UNCHANGED vars
  BY <1>5 DEF Refresh, ObjectMoves, CredentialsRevoked, vars
<1> QED BY <1>1, <1>2, <1>3, <1>4, <1>5 DEF Next, Timers, Finished

LEMMA EndAlways == ASSUME WellConfigured PROVE Spec => [](TypeOK /\ EndInv)
<1>1. Init => TypeOK /\ EndInv
  BY InitType DEF Init, EndInv, KnownStatesNeverEndAWait, LostAnswerNeverPanics
<1>2. TypeOK /\ EndInv /\ [Next]_vars => TypeOK' /\ EndInv'
  BY NextType, EndKeeps
<1> QED BY <1>1, <1>2, PTL DEF Spec


-----------------------------------------------------------------------------
(* The confs of the provider, entry by entry of the Table. *)

\* SoundRefresh for a conf, and what an entry of the Table must satisfy for the
\* theorems about the provider's waits.
Sound(c, goal, truths, describes) ==
    \A t \in truths, v \in IF describes THEN {TRUE} ELSE BOOLEAN :
        \A a \in Describes(IF c.asks = "object" THEN t ELSE "gone") \cup Breaks(v) :
            LET o == c.Refresh[a]
            IN  ~o.err /\ o.res = "obj" /\ o.state \in c.Target => t \in goal

\* A 200 describes the object as it is, and only an object that is there.
LEMMA FoundIsTruth ==
    ASSUME NEW t, NEW v, NEW a \in Describes(t) \cup Breaks(v), a.code = "200"
    PROVE  a.phase = t /\ t \notin {"gone", "GOVCLOUD", "UNSYNCED"}
<1>1. a \in Describes(t)
  BY DEF Breaks, Refused, Refusals
<1>2. CASE t \in {"gone", "GOVCLOUD", "UNSYNCED", "PARTLY_SYNCED"}
  BY <1>1, <1>2 DEF Describes, Refused, Refusals, Found
<1>3. CASE t \notin {"gone", "GOVCLOUD", "UNSYNCED", "PARTLY_SYNCED"}
  <2>1. Describes(t) = {Found(t)}
    BY <1>3 DEF Describes
  <2> QED BY <1>1, <1>3, <2>1 DEF Found
<1> QED BY <1>2, <1>3

LEMMA AnswersOfAServer ==
    ASSUME NEW t \in AllTruths, NEW v, NEW a \in Describes(t) \cup Breaks(v)
    PROVE  a \in Answers
BY DescribesType DEF Breaks, Answers

Good(w, e) ==
    /\ Sound(e.conf, e.goal, e.truths, w \in DescribeFirst)
    /\ w \notin Brittle => Covers(e.conf)
    /\ w \notin Unguarded => NeverPanics(e.conf)
    /\ w \notin CutShort => e.conf.Timeout <= e.conf.deadline

\* A wait on a PhaseStatus: its Target list must hold goal states only, its two
\* lists the allowed phases.
LEMMA PhaseEntry ==
    ASSUME NEW w, NEW pending, NEW target, NEW allowed, NEW failures, NEW timeout, NEW deadline,
           NEW goal, NEW truths, truths \subseteq AllTruths,
           target \subseteq goal,
           w \in Brittle \/ pending = {} \/ allowed \subseteq pending \cup target,
           w \in CutShort \/ timeout <= deadline
    PROVE  Good(w, Special(StateChangeConf(pending, target, PhaseStatus(allowed, failures), timeout,
                                   deadline), goal, truths))
<1> DEFINE c == StateChangeConf(pending, target, PhaseStatus(allowed, failures), timeout, deadline)
<1>0. /\ c.Refresh = PhaseStatus(allowed, failures) /\ c.asks = "object"
      /\ c.Target = target /\ c.Pending = pending /\ c.Timeout = timeout /\ c.deadline = deadline
  BY DEF StateChangeConf
<1> HIDE DEF c
<1>1. \A a \in Answers : /\ LET o == c.Refresh[a] IN ~o.err /\ o.res = "obj" =>
                                a.code = "200" /\ o.state = a.phase /\ a.phase \in allowed
                         /\ c.Refresh[a].state # "PANIC"
  <2>1. \A a \in Answers : a.phase # "PANIC"
    BY DEF Answers, Found, Refused, Refusals, Phases
  <2> QED BY <1>0, <2>1 DEF PhaseStatus, Outcome, Failure
<1>2. \A describes : Sound(c, goal, truths, describes)
  BY <1>0, <1>1, FoundIsTruth, AnswersOfAServer DEF Sound
<1>3. NeverPanics(c)
  BY <1>1 DEF NeverPanics
<1>4. w \notin Brittle => Covers(c)
  BY <1>0, <1>1 DEF Covers
<1> QED BY <1>0, <1>2, <1>3, <1>4 DEF Good, Special, c

\* The same over every phase that the refresh function knows.
LEMMA ByPhaseEntry ==
    ASSUME NEW w, NEW pending, NEW target, NEW allowed, NEW failures, NEW timeout, NEW deadline,
           NEW goal,
           target \subseteq goal,
           w \in Brittle \/ pending = {} \/ allowed \subseteq pending \cup target,
           w \in CutShort \/ timeout <= deadline
    PROVE  Good(w, ByPhase(StateChangeConf(pending, target, PhaseStatus(allowed, failures), timeout,
                                   deadline), goal))
<1> DEFINE c == StateChangeConf(pending, target, PhaseStatus(allowed, failures), timeout, deadline)
<1> DEFINE truths == {p \in Phases : c.Refresh[Found(p)].state # "UNEXPECTED"} \cup {"OTHER", "gone"}
<1>1. ByPhase(c, goal) = Special(c, goal, truths)
  BY DEF ByPhase, Special
<1>2. truths \subseteq AllTruths
  BY DEF AllTruths, Phases
<1> HIDE DEF truths
<1> QED BY <1>1, <1>2, PhaseEntry

\* A wait on the state as it is, in the Brittle waits.
LEMMA RawEntry ==
    ASSUME NEW w \in Brittle, NEW pending, NEW target, NEW timeout, NEW deadline,
           NEW truths, truths \subseteq AllTruths,
           w \in CutShort \/ timeout <= deadline
    PROVE  Good(w, Special(StateChangeConf(pending, target, RawStatus, timeout, deadline),
                           target, truths))
<1> DEFINE c == StateChangeConf(pending, target, RawStatus, timeout, deadline)
<1>0. /\ c.Refresh = RawStatus /\ c.asks = "object" /\ c.Target = target
      /\ c.Timeout = timeout /\ c.deadline = deadline
  BY DEF StateChangeConf
<1> HIDE DEF c
<1>1. \A a \in Answers : /\ LET o == c.Refresh[a] IN ~o.err /\ o.res = "obj" =>
                                a.code = "200" /\ o.state = a.phase
                         /\ c.Refresh[a].state # "PANIC"
  <2>1. \A a \in Answers : a.phase # "PANIC"
    BY DEF Answers, Found, Refused, Refusals, Phases
  <2> QED BY <1>0, <2>1 DEF RawStatus, Outcome, Failure
<1>2. \A describes : Sound(c, target, truths, describes)
  BY <1>0, <1>1, FoundIsTruth, AnswersOfAServer DEF Sound
<1>3. NeverPanics(c)
  BY <1>1 DEF NeverPanics
<1> QED BY <1>0, <1>2, <1>3 DEF Good, Special, c

\* The wait for an API key, whatever number of answers in a row it asks for.
LEMMA SyncEntry ==
    ASSUME NEW w, NEW c, c.Pending = {"IN_PROGRESS"}, c.Target = {"DONE"}, c.asks = "object",
           c.Refresh = SyncStatus({"401", "403"}), c.Timeout = 20, c.deadline = 20
    PROVE  Good(w, UntilSynced(c))
<1> DEFINE truths == {"UNSYNCED", "PARTLY_SYNCED", "SYNCED"}
<1> DEFINE goal == {"PARTLY_SYNCED", "SYNCED"}
<1>0. truths \subseteq AllTruths
  BY DEF AllTruths, Phases
<1>1. \A a \in Answers : /\ LET o == c.Refresh[a] IN ~o.err /\ o.res = "obj" =>
                                /\ o.state \in {"DONE", "IN_PROGRESS"}
                                /\ o.state = "DONE" => a.code = "200"
                         /\ c.Refresh[a].state # "PANIC"
  BY DEF SyncStatus, Outcome, Failure
<1>2. \A describes : Sound(c, goal, truths, describes)
  BY <1>0, <1>1, FoundIsTruth, AnswersOfAServer DEF Sound
<1>3. NeverPanics(c) /\ Covers(c)
  BY <1>1 DEF NeverPanics, Covers
<1> QED BY <1>2, <1>3 DEF Good, UntilSynced

\* The waits for catalog entities and their bindings.
LEMMA CatalogEntry ==
    ASSUME NEW w \in Unguarded, NEW timeout, NEW deadline, timeout <= deadline
    PROVE  /\ Good(w, UntilExists(StateChangeConf({"PROVISIONING"}, {"READY"}, CatalogStatus, timeout, deadline)))
           /\ Good(w, UntilBound(StateChangeConf({"PROVISIONING"}, {"READY"}, CatalogBindingStatus, timeout, deadline)))
<1> DEFINE c == StateChangeConf({"PROVISIONING"}, {"READY"}, CatalogStatus, timeout, deadline)
<1> DEFINE b == StateChangeConf({"PROVISIONING"}, {"READY"}, CatalogBindingStatus, timeout, deadline)
<1>0. /\ c.Refresh = CatalogStatus /\ c.asks = "object"
      /\ b.Refresh = CatalogBindingStatus /\ b.asks = "object"
      /\ c.Target = {"READY"} /\ c.Pending = {"PROVISIONING"} /\ c.Timeout = timeout /\ c.deadline = deadline
      /\ b.Target = {"READY"} /\ b.Pending = {"PROVISIONING"} /\ b.Timeout = timeout /\ b.deadline = deadline
  BY DEF StateChangeConf
<1> HIDE DEF c, b
<1>1. \A a \in Answers : LET o == c.Refresh[a] IN ~o.err /\ o.res = "obj" =>
                                a.code = "200" /\ o.state = "READY"
  BY <1>0 DEF CatalogStatus, Outcome, Failure, Panic
<1>2. \A a \in Answers : LET o == b.Refresh[a] IN ~o.err /\ o.res = "obj" =>
                                a.code = "200" /\ o.state = "READY" /\ a.phase = "EXISTS"
  BY <1>0 DEF CatalogBindingStatus, Outcome, Failure, Panic
<1>3. {"gone", "NO_STATUS", "EXISTS"} \subseteq AllTruths
  BY DEF AllTruths, Phases
<1>4. \A describes : Sound(c, {"EXISTS"}, {"gone", "EXISTS"}, describes)
  BY <1>0, <1>1, <1>3, FoundIsTruth, AnswersOfAServer DEF Sound
<1>5. \A describes : Sound(b, {"EXISTS"}, {"gone", "NO_STATUS", "EXISTS"}, describes)
  BY <1>0, <1>2, <1>3, FoundIsTruth, AnswersOfAServer DEF Sound
<1>6. Covers(c) /\ Covers(b)
  BY <1>0, <1>1, <1>2 DEF Covers
<1> QED BY <1>0, <1>4, <1>5, <1>6 DEF Good, UntilExists, UntilBound, c, b

\* The waits for a schema exporter, a Connect artifact, the Schema Registry cluster
\* of an environment and a resize, whose refresh functions have forms of their own.
LEMMA ExporterEntry ==
    ASSUME NEW w \in Unguarded, NEW timeout, NEW deadline, w \in CutShort \/ timeout <= deadline
    PROVE  Good(w, Special(StateChangeConf({"PROVISIONING"}, {"READY"}, schemaExporterProvisionStatus,
                                           timeout, deadline),
                           {"RUNNING", "PAUSED"}, {"gone", "STARTING", "RUNNING", "PAUSED", "OTHER"}))
<1> DEFINE c == StateChangeConf({"PROVISIONING"}, {"READY"}, schemaExporterProvisionStatus, timeout, deadline)
<1>0. /\ c.Refresh = schemaExporterProvisionStatus /\ c.asks = "object" /\ c.Target = {"READY"}
      /\ c.Pending = {"PROVISIONING"} /\ c.Timeout = timeout /\ c.deadline = deadline
  BY DEF StateChangeConf
<1> HIDE DEF c
<1>1. \A a \in Answers : LET o == c.Refresh[a] IN ~o.err /\ o.res = "obj" =>
                            /\ o.state \in {"PROVISIONING", "READY"}
                            /\ o.state = "READY" => a.code = "200" /\ a.phase \in {"RUNNING", "PAUSED"}
  BY <1>0 DEF schemaExporterProvisionStatus, Outcome, Failure, Panic
<1>2. {"gone", "STARTING", "RUNNING", "PAUSED", "OTHER"} \subseteq AllTruths
  BY DEF AllTruths, Phases
<1>3. \A describes : Sound(c, {"RUNNING", "PAUSED"}, {"gone", "STARTING", "RUNNING", "PAUSED", "OTHER"}, describes)
  BY <1>0, <1>1, <1>2, FoundIsTruth, AnswersOfAServer DEF Sound
<1>4. Covers(c)
  BY <1>0, <1>1 DEF Covers
<1> QED BY <1>0, <1>3, <1>4 DEF Good, Special, c

LEMMA ArtifactEntry ==
    ASSUME NEW w \in CutShort, NEW timeout, NEW deadline
    PROVE  Good(w, Special(StateChangeConf({"PROVISIONING", "PROCESSING", "WAITING_FOR_PROCESSING"},
                                           {"PROVISIONED", "READY"}, connectArtifactProvisionStatus,
                                           timeout, deadline),
                           {"PROVISIONED", "READY", "NO_STATUS"},
                           {"PROCESSING", "WAITING_FOR_PROCESSING", "PROVISIONING", "PROVISIONED",
                            "READY", "NO_STATUS", "FAILED", "OTHER"}))
<1> DEFINE truths == {"PROCESSING", "WAITING_FOR_PROCESSING", "PROVISIONING", "PROVISIONED",
                      "READY", "NO_STATUS", "FAILED", "OTHER"}
<1> DEFINE goal == {"PROVISIONED", "READY", "NO_STATUS"}
<1> DEFINE c == StateChangeConf({"PROVISIONING", "PROCESSING", "WAITING_FOR_PROCESSING"},
                                {"PROVISIONED", "READY"}, connectArtifactProvisionStatus, timeout, deadline)
<1>0. /\ c.Refresh = connectArtifactProvisionStatus /\ c.asks = "object" /\ c.Target = {"PROVISIONED", "READY"}
      /\ c.Pending = {"PROVISIONING", "PROCESSING", "WAITING_FOR_PROCESSING"}
  BY DEF StateChangeConf
<1> HIDE DEF c
<1>1. \A a \in Answers : LET o == c.Refresh[a] IN
          /\ o.state # "PANIC"
          /\ ~o.err /\ o.res = "obj" => 
               /\ a.code = "200"
               /\ o.state \in {"PROVISIONED", "READY", "PROVISIONING", "PROCESSING", "WAITING_FOR_PROCESSING"}
               /\ o.state = a.phase \/ a.phase = "NO_STATUS"
  BY <1>0 DEF connectArtifactProvisionStatus, PhaseStatus, Outcome, Failure
<1>2. truths \subseteq AllTruths
  BY DEF AllTruths, Phases
<1>3. \A describes : Sound(c, goal, truths, describes)
  BY <1>0, <1>1, <1>2, FoundIsTruth, AnswersOfAServer DEF Sound
<1>4. Covers(c) /\ NeverPanics(c)
  BY <1>0, <1>1 DEF Covers, NeverPanics
<1> QED BY <1>0, <1>3, <1>4 DEF Good, Special, c

LEMMA AnySchemaRegistryEntry ==
    ASSUME NEW w, NEW timeout, NEW deadline, timeout <= deadline
    PROVE  Good(w, Special(StateChangeConf({"PROVISIONING"}, {"PROVISIONED"},
                                           anySchemaRegistryClusterProvisionStatus, timeout, deadline),
                           {"PROVISIONED", "GOVCLOUD"},
                           {"NO_STATUS", "PROVISIONING", "PROVISIONED", "FAILED", "GOVCLOUD"}))
<1> DEFINE truths == {"NO_STATUS", "PROVISIONING", "PROVISIONED", "FAILED", "GOVCLOUD"}
<1> DEFINE goal == {"PROVISIONED", "GOVCLOUD"}
<1> DEFINE c == StateChangeConf({"PROVISIONING"}, {"PROVISIONED"},
                                anySchemaRegistryClusterProvisionStatus, timeout, deadline)
<1>0. /\ c.Refresh = anySchemaRegistryClusterProvisionStatus /\ c.asks = "object"
      /\ c.Target = {"PROVISIONED"} /\ c.Pending = {"PROVISIONING"}
      /\ c.Timeout = timeout /\ c.deadline = deadline
  BY DEF StateChangeConf
<1> HIDE DEF c
<1>1. \A a \in Answers : LET o == c.Refresh[a] IN
          /\ o.state # "PANIC"
          /\ ~o.err /\ o.res = "obj" =>
               /\ o.state \in {"PROVISIONED", "PROVISIONING"}
               /\ o.state = "PROVISIONED" => \/ a.code = "400"
                                             \/ a.code = "200" /\ a.phase = "PROVISIONED"
  BY <1>0 DEF anySchemaRegistryClusterProvisionStatus, PhaseStatus, Outcome, Failure
<1>2. truths \subseteq AllTruths
  BY DEF AllTruths, Phases
<1>3. \A t \in truths, v \in BOOLEAN : \A a \in Describes(t) \cup Breaks(v) :
          a.code = "400" => t = "GOVCLOUD"
  BY DEF Describes, Breaks, Refusals, Refused, Found
<1>4. \A describes : Sound(c, goal, truths, describes)
  BY <1>0, <1>1, <1>2, <1>3, FoundIsTruth, AnswersOfAServer DEF Sound
<1>5. Covers(c) /\ NeverPanics(c)
  BY <1>0, <1>1 DEF Covers, NeverPanics
<1> QED BY <1>0, <1>4, <1>5 DEF Good, Special, c

LEMMA CkuEntry ==
    ASSUME NEW w, NEW timeout, NEW deadline, timeout <= deadline
    PROVE  Good(w, Special(StateChangeConf({"IN_PROGRESS"}, {"DONE"}, kafkaClusterCkuUpdateStatus,
                                           timeout, deadline),
                           {"CKU_SETTLED"}, {"CKU_EXPANDING", "CKU_STALE", "CKU_SETTLED", "gone"}))
<1> DEFINE truths == {"CKU_EXPANDING", "CKU_STALE", "CKU_SETTLED", "gone"}
<1> DEFINE c == StateChangeConf({"IN_PROGRESS"}, {"DONE"}, kafkaClusterCkuUpdateStatus, timeout, deadline)
<1>0. /\ c.Refresh = kafkaClusterCkuUpdateStatus /\ c.asks = "object"
      /\ c.Target = {"DONE"} /\ c.Pending = {"IN_PROGRESS"}
      /\ c.Timeout = timeout /\ c.deadline = deadline
  BY DEF StateChangeConf
<1> HIDE DEF c
<1>1. \A a \in Answers : LET o == c.Refresh[a] IN
          /\ o.state # "PANIC"
          /\ ~o.err /\ o.res = "obj" =>
               /\ o.state \in {"DONE", "IN_PROGRESS"}
               /\ o.state = "DONE" => a.code = "200" /\ a.phase = "CKU_SETTLED"
  BY <1>0 DEF kafkaClusterCkuUpdateStatus, CkuOf, desiredCku, Outcome, Failure
<1>2. truths \subseteq AllTruths
  BY DEF AllTruths, Phases
<1>3. \A describes : Sound(c, {"CKU_SETTLED"}, truths, describes)
  BY <1>0, <1>1, <1>2, FoundIsTruth, AnswersOfAServer DEF Sound
<1>4. Covers(c) /\ NeverPanics(c)
  BY <1>0, <1>1 DEF Covers, NeverPanics
<1> QED BY <1>0, <1>3, <1>4 DEF Good, Special, c

\* What a delete status may report, and whether it tells a refusal that an invalid
\* key explains from one that means that the object is gone.
ReportsDeletion(refresh, busy, done) ==
    \A a \in Answers : LET o == refresh[a] IN
        /\ o.state # "PANIC"
        /\ ~o.err /\ o.res = "obj" => o.state \in {busy, done}
        /\ ~o.err /\ o.res = "obj" /\ o.state = done => a.code \in {"403", "404"}
HeedsTheKey(refresh, done) ==
    \A a \in Answers : ~refresh[a].err /\ refresh[a].state = done => ~a.invalidKey

\* A status that describes first takes every 403 for "gone"; the others tell a 403
\* that an invalid key explains.
LEMMA DescribingStatus ==
    ReportsDeletion(flinkStatementDeleteStatus, "IN_PROGRESS", "DONE")
BY DEF ReportsDeletion, flinkStatementDeleteStatus, DeleteStatus, Outcome, Failure,
       DescribeThenClassify, isNonKafkaRestApiResourceNotFound,
       ResponseHasExpectedStatusCode, createDescriptiveError

LEMMA SameDescribingStatus ==
    \A s \in {dnsRecordDeleteStatus, privateLinkAccessDeleteStatus, peeringDeleteStatus,
              transitGatewayAttachmentDeleteStatus, kafkaClusterDeleteStatus,
              flinkMaterializedTableDeleteStatus, flinkStatementDeleteStatus} :
        s = flinkStatementDeleteStatus
BY DEF dnsRecordDeleteStatus, privateLinkAccessDeleteStatus, peeringDeleteStatus,
              transitGatewayAttachmentDeleteStatus, kafkaClusterDeleteStatus,
              flinkMaterializedTableDeleteStatus, flinkStatementDeleteStatus

LEMMA CodeOnlyStatus ==
    ReportsDeletion(kafkaTopicDeleteStatus, "IN_PROGRESS", "DONE")
    /\ HeedsTheKey(kafkaTopicDeleteStatus, "DONE")
<1>1. \A a \in Answers : a.invalidKey => a.code = "403"
  BY DEF Answers, Refused, Refusals, Found
<1> QED BY <1>1 DEF ReportsDeletion, HeedsTheKey, kafkaTopicDeleteStatus, DeleteStatus, Outcome, Failure,
                    StatusIsNotFound, ResponseHasExpectedStatusCode

LEMMA ClassifyingStatuses ==
    /\ ReportsDeletion(accessPointDeleteStatus, "IN_PROGRESS", "DONE")
    /\ HeedsTheKey(accessPointDeleteStatus, "DONE")
    /\ ReportsDeletion(computePoolDeleteStatus, "DELETING", "DELETED")
    /\ HeedsTheKey(computePoolDeleteStatus, "DELETED")
<1> USE DEF ReportsDeletion, HeedsTheKey, DeleteStatus, Outcome, Failure, ClassifyThenDescribe,
            isNonKafkaRestApiResourceNotFound, ResponseHasStatusForbiddenDueToInvalidAPIKey,
            ResponseHasExpectedStatusCode
<1>1. \A a \in Answers : /\ a.code \in {"403", "404"} => a.body = "unread"
                         /\ a.invalidKey => a.code = "403"
  BY DEF Answers, Refused, Refusals, Found
<1>2. ReportsDeletion(accessPointDeleteStatus, "IN_PROGRESS", "DONE")
  BY DEF accessPointDeleteStatus
<1>3. HeedsTheKey(accessPointDeleteStatus, "DONE")
  BY <1>1 DEF accessPointDeleteStatus
<1>4. ReportsDeletion(computePoolDeleteStatus, "DELETING", "DELETED")
  BY DEF computePoolDeleteStatus
<1>5. HeedsTheKey(computePoolDeleteStatus, "DELETED")
  BY <1>1 DEF computePoolDeleteStatus
<1> QED BY <1>2, <1>3, <1>4, <1>5

\* A wait for a deletion: with credentials that it can trust, only a refusal that
\* is not about the key is "gone", and an object that is there gets none.
LEMMA GoneEntry ==
    ASSUME NEW w, NEW busy, NEW done, NEW refresh, NEW timeout, NEW deadline,
           ReportsDeletion(refresh, busy, done),
           w \in DescribeFirst \/ HeedsTheKey(refresh, done),
           w \in CutShort \/ timeout <= deadline
    PROVE  Good(w, UntilGone(StateChangeConf({busy}, {done}, refresh, timeout, deadline)))
<1> DEFINE c == StateChangeConf({busy}, {done}, refresh, timeout, deadline)
<1>0. /\ c.Refresh = refresh /\ c.asks = "object" /\ c.Target = {done} /\ c.Pending = {busy}
      /\ c.Timeout = timeout /\ c.deadline = deadline
  BY DEF StateChangeConf
<1> HIDE DEF c
<1>1. Covers(c) /\ NeverPanics(c)
  BY <1>0 DEF Covers, NeverPanics, ReportsDeletion
<1>2. \A v \in BOOLEAN : \A a \in Describes("READY") \cup Breaks(v) :
          a.code \in {"403", "404"} => ~v /\ a.invalidKey
  BY DEF Describes, Breaks, Refusals, Refused, Found
<1>3. "READY" \in AllTruths /\ "gone" \in AllTruths
  BY DEF AllTruths, Phases
<1>4. Sound(c, {"gone"}, {"READY", "gone"}, w \in DescribeFirst)
  <2> SUFFICES ASSUME NEW v \in IF w \in DescribeFirst THEN {TRUE} ELSE BOOLEAN,
                      NEW a \in Describes("READY") \cup Breaks(v),
                      ~refresh[a].err, refresh[a].res = "obj", refresh[a].state = done
               PROVE  FALSE
    BY <1>0 DEF Sound
  <2>1. a \in Answers /\ v \in BOOLEAN
    BY <1>3, AnswersOfAServer
  <2>2. a.code \in {"403", "404"} /\ (w \notin DescribeFirst => ~a.invalidKey)
    BY <2>1 DEF ReportsDeletion, HeedsTheKey
  <2> QED BY <1>2, <2>1, <2>2
<1> QED BY <1>0, <1>1, <1>4 DEF Good, UntilGone, c

LEMMA TableStatuses ==
    /\ flinkMaterializedTableProvisionStatus =
           PhaseStatus({"CREATING", "PENDING", "STOPPING", "ALTERING", "RUNNING", "STOPPED"}, {"FAILED", "FAILING"})
    /\ flinkMaterializedTableUpdatingStatus =
           PhaseStatus({"CREATING", "PENDING", "STOPPING", "ALTERING", "RUNNING", "STOPPED"}, {"FAILED", "FAILING"})
<1>1. {p \in Phases : isFlinkMaterializedTableTransitionalPhase(p)} \cup {"RUNNING", "STOPPED"}
        = {"CREATING", "PENDING", "STOPPING", "ALTERING", "RUNNING", "STOPPED"}
  BY DEF Phases, isFlinkMaterializedTableTransitionalPhase
<1> QED BY <1>1 DEF flinkMaterializedTableProvisionStatus, flinkMaterializedTableUpdatingStatus

LEMMA StatesExist == ConnectorStates \subseteq AllTruths /\ MirrorStates \subseteq AllTruths
BY DEF ConnectorStates, MirrorStates, AllTruths, Phases

\* Every entry of the Table, by the lemma of its form.
LEMMA EveryEntry == ASSUME NEW w \in WaitsForTheObject PROVE Good(w, Table[w])
<1>1. CASE w = "kafkaApiKey"
  BY <1>1, SyncEntry DEF Table, waitForCreatedKafkaApiKeyToSync, kafkaApiKeySyncStatus, KeySync,
         DefaultOperationTimeout, StateChangeConf
<1>2. CASE w = "cloudApiKey"
  BY <1>2, SyncEntry DEF Table, waitForCreatedCloudApiKeyToSync, cloudApiKeySyncStatus, KeySync,
         DefaultOperationTimeout, StateChangeConf
<1>3. CASE w = "tableflowApiKey"
  BY <1>3, SyncEntry DEF Table, waitForCreatedTableflowApiKeyToSync, tableflowApiKeySyncStatus,
         KeySync, DefaultOperationTimeout, StateChangeConf
<1>4. CASE w = "globalApiKey"
  BY <1>4, SyncEntry DEF Table, waitForCreatedGlobalApiKeyToSync, globalApiKeySyncStatus,
         KeySync, DefaultOperationTimeout, StateChangeConf
<1>5. CASE w = "basicKafka"
  BY <1>5, ByPhaseEntry DEF Table, waitForKafkaClusterToProvision, kafkaClusterProvisionStatus,
         getTimeoutFor, Hours, Provision
<1>6. CASE w = "dedicatedKafka"
  BY <1>6, ByPhaseEntry DEF Table, waitForKafkaClusterToProvision, kafkaClusterProvisionStatus,
         getTimeoutFor, Hours, Provision
<1>7. CASE w = "ksql"
  BY <1>7, ByPhaseEntry DEF Table, waitForKsqlClusterToProvision, ksqlClusterProvisionStatus,
         ksqlCreateTimeout, Hours, Provision
<1>8. CASE w = "pla"
  BY <1>8, ByPhaseEntry DEF Table, waitForPrivateLinkAccessToProvision,
         privateLinkAccessProvisionStatus, Usable, networkingAPICreateTimeout, Hours, Provision
<1>9. CASE w = "connectorOffsets"
  BY <1>9, ByPhaseEntry DEF Table, waitForConnectorOffsetsUpdateToComplete,
         connectorOffsetUpdateStatus, CutShort
<1>10. CASE w = "platt"
  BY <1>10, ByPhaseEntry DEF Table, waitForPrivateLinkAttachmentToProvision,
         privateLinkAttachmentProvisionStatus, CutShort, Provision
<1>11. CASE w = "plattc"
  BY <1>11, ByPhaseEntry DEF Table, waitForPrivateLinkAttachmentConnectionToProvision,
         privateLinkAttachmentConnectionProvisionStatus, Usable, CutShort, Provision
<1>12. CASE w = "network"
  BY <1>12, ByPhaseEntry DEF Table, waitForNetworkToProvision, networkProvisionStatus, Usable,
         networkingAPICreateTimeout, Hours, Provision
<1>13. CASE w = "statement"
  BY <1>13, ByPhaseEntry DEF Table, waitForFlinkStatementToProvision,
         flinkStatementProvisionStatus, statementsAPICreateTimeout, Hours
<1>14. CASE w = "carriedStatement"
  BY <1>14, ByPhaseEntry DEF Table, waitForFlinkStatementToProvision,
         flinkStatementProvisionStatus, statementsAPICreateTimeout, Hours
<1>15. CASE w = "dnsRecord"
  BY <1>15, ByPhaseEntry DEF Table, waitForDnsRecordToProvision, dnsRecordProvisionStatus,
         UsableOrPassive, networkingAPICreateTimeout, Hours, Provision
<1>16. CASE w = "dnsForwarder"
  BY <1>16, ByPhaseEntry DEF Table, waitForDnsForwarderToProvision, dnsForwarderProvisionStatus,
         UsableOrPassive, CutShort, Provision
<1>17. CASE w = "accessPoint"
  BY <1>17, ByPhaseEntry DEF Table, waitForAccessPointToProvision, accessPointProvisionStatus,
         UsableOrPassive, networkingAPICreateTimeout, Hours, Provision
<1>18. CASE w = "gateway"
  BY <1>18, ByPhaseEntry DEF Table, waitForGatewayToProvision, gatewayProvisionStatus,
         UsableOrPassive, CutShort, Provision
<1>19. CASE w = "computePool"
  BY <1>19, ByPhaseEntry DEF Table, waitForComputePoolToProvision, computePoolProvisionStatus,
         fcpmAPICreateTimeout, Hours, Provision
<1>20. CASE w = "anySchemaRegistry"
  BY <1>20, AnySchemaRegistryEntry DEF Table, waitForAnySchemaRegistryClusterToProvision,
         getTimeoutFor, Hours, Provision
<1>21. CASE w = "connector"
  BY <1>21, PhaseEntry, StatesExist DEF Table, waitForConnectorToProvision,
         connectorProvisionStatus, connectAPICreateTimeout, Hours
<1>22. CASE w = "connectorPause"
  BY <1>22, RawEntry, StatesExist DEF Table, waitForConnectorToChangeStatus,
         connectorUpdateStatus, CutShort, Brittle
<1>23. CASE w = "connectorResume"
  BY <1>23, RawEntry, StatesExist DEF Table, waitForConnectorToChangeStatus,
         connectorUpdateStatus, CutShort, Brittle
<1>24. CASE w = "mirrorPause"
  BY <1>24, RawEntry, StatesExist DEF Table, waitForKafkaMirrorTopicToChangeStatus,
         kafkaMirrorTopicUpdateStatus, DefaultOperationTimeout, Brittle
<1>25. CASE w = "mirrorResume"
  BY <1>25, RawEntry, StatesExist DEF Table, waitForKafkaMirrorTopicToChangeStatus,
         kafkaMirrorTopicUpdateStatus, DefaultOperationTimeout, Brittle
<1>26. CASE w = "mirrorStop"
  BY <1>26, RawEntry, StatesExist DEF Table, waitForKafkaMirrorTopicToChangeStatus,
         kafkaMirrorTopicUpdateStatus, DefaultOperationTimeout, Brittle
<1>27. CASE w = "peering"
  BY <1>27, ByPhaseEntry DEF Table, waitForPeeringToProvision, peeringProvisionStatus,
         UsableOrPassive, networkingAPICreateTimeout, Hours, Provision
<1>28. CASE w = "tag"
  BY <1>28, CatalogEntry DEF Table, waitForTagToProvision, tagProvisionStatus,
         DefaultOperationTimeout, dataCatalogTimeout, Unguarded, Provision
<1>29. CASE w = "businessMetadata"
  BY <1>29, CatalogEntry DEF Table, waitForBusinessMetadataToProvision,
         businessMetadataProvisionStatus, DefaultOperationTimeout, dataCatalogTimeout,
         Unguarded, Provision
<1>30. CASE w = "tagBinding"
  BY <1>30, CatalogEntry DEF Table, waitForTagBindingToProvision, tagBindingProvisionStatus,
         DefaultOperationTimeout, dataCatalogTimeout, Unguarded, Provision
<1>31. CASE w = "businessMetadataBinding"
  BY <1>31, CatalogEntry DEF Table, waitForBusinessMetadataBindingToProvision,
         businessMetadataBindingProvisionStatus, DefaultOperationTimeout, dataCatalogTimeout,
         Unguarded, Provision
<1>32. CASE w = "exporterCreate"
  BY <1>32, ExporterEntry DEF Table, waitForSchemaExporterToProvision,
         schemaExporterAPICreateTimeout, Hours, Unguarded, Provision
<1>33. CASE w = "exporterUpdate"
  BY <1>33, ExporterEntry DEF Table, waitForSchemaExporterToProvision, CutShort, Unguarded,
         Provision
<1>34. CASE w = "tgwAttachment"
  BY <1>34, ByPhaseEntry DEF Table, waitForTransitGatewayAttachmentToProvision,
         transitGatewayAttachmentProvisionStatus, UsableOrPassive, networkingAPICreateTimeout,
         Hours, Provision
<1>35. CASE w = "cku"
  BY <1>35, CkuEntry DEF Table, waitForKafkaClusterCkuUpdateToComplete, getTimeoutFor, Hours
<1>36. CASE w = "linkEndpoint"
  BY <1>36, ByPhaseEntry DEF Table, waitForNetworkLinkEndpointToProvision,
         networkLinkEndpointProvisionStatus, networkingAPICreateTimeout, Hours, Provision
<1>37. CASE w = "linkService"
  BY <1>37, ByPhaseEntry DEF Table, waitForNetworkLinkServiceToProvision,
         networkLinkServiceProvisionStatus, Usable, networkingAPICreateTimeout, Hours,
         Provision
<1>38. CASE w = "rtceTopic"
  BY <1>38, ByPhaseEntry DEF Table, waitForRtceTopicToProvision, rtceTopicProvisionStatus,
         rtceV1APICreateTimeout, Hours
<1>39. CASE w = "connectArtifact"
  BY <1>39, ArtifactEntry DEF Table, waitForConnectArtifactToProvision, CutShort
<1>40. CASE w = "statementStop"
  BY <1>40, ByPhaseEntry DEF Table, waitForFlinkStatementToBeUpdated,
         flinkStatementUpdatingStatus, DefaultOperationTimeout
<1>41. CASE w = "statementResume"
  BY <1>41, ByPhaseEntry DEF Table, waitForFlinkStatementToBeUpdated,
         flinkStatementUpdatingStatus, DefaultOperationTimeout, Brittle
<1>42. CASE w = "tableProvision"
  BY <1>42, ByPhaseEntry, TableStatuses DEF Table, waitForFlinkMaterializedTableToProvision,
         materializedTableAPICreateTimeout, Hours
<1>43. CASE w = "tableProvisionStopped"
  BY <1>43, ByPhaseEntry, TableStatuses DEF Table, waitForFlinkMaterializedTableToProvision,
         materializedTableAPICreateTimeout, Hours
<1>44. CASE w = "tableStop"
  BY <1>44, ByPhaseEntry, TableStatuses DEF Table, waitForFlinkMaterializedTableToBeUpdated,
         materializedTableAPIUpdateTimeout
<1>45. CASE w = "tableResume"
  BY <1>45, ByPhaseEntry, TableStatuses DEF Table, waitForFlinkMaterializedTableToBeUpdated,
         materializedTableAPIUpdateTimeout
<1>46. CASE w = "dnsRecordGone"
  BY <1>46, GoneEntry, DescribingStatus, SameDescribingStatus DEF Table,
         waitForDnsRecordToBeDeleted, Deletion, DescribeFirst, networkingAPIDeleteTimeout,
         Hours
<1>47. CASE w = "accessPointGone"
  BY <1>47, GoneEntry, ClassifyingStatuses DEF Table, waitForAccessPointToBeDeleted, Deletion,
         networkingAPIDeleteTimeout, Hours
<1>48. CASE w = "plaGone"
  BY <1>48, GoneEntry, DescribingStatus, SameDescribingStatus DEF Table,
         waitForPrivateLinkAccessToBeDeleted, Deletion, DescribeFirst,
         networkingAPIDeleteTimeout, Hours
<1>49. CASE w = "peeringGone"
  BY <1>49, GoneEntry, DescribingStatus, SameDescribingStatus DEF Table,
         waitForPeeringToBeDeleted, Deletion, DescribeFirst, networkingAPIDeleteTimeout, Hours
<1>50. CASE w = "tgwAttachmentGone"
  BY <1>50, GoneEntry, DescribingStatus, SameDescribingStatus DEF Table,
         waitForTransitGatewayAttachmentToBeDeleted, Deletion, DescribeFirst,
         networkingAPIDeleteTimeout, Hours
<1>51. CASE w = "topicGone"
  BY <1>51, GoneEntry, CodeOnlyStatus DEF Table, waitForKafkaTopicToBeDeleted, Deletion,
         CutShort
<1>52. CASE w = "mirrorTopicGone"
  BY <1>52, GoneEntry, CodeOnlyStatus DEF Table, waitForKafkaMirrorTopicToBeDeleted,
         kafkaMirrorTopicDeleteStatus, kafkaTopicDeleteStatus, Deletion, CutShort
<1>53. CASE w = "clusterLinkGone"
  BY <1>53, GoneEntry, CodeOnlyStatus DEF Table, waitForClusterLinkToBeDeleted,
         clusterLinkDeleteStatus, kafkaTopicDeleteStatus, Deletion, CutShort
<1>54. CASE w = "statementGone"
  BY <1>54, GoneEntry, DescribingStatus, SameDescribingStatus DEF Table,
         waitForFlinkStatementToBeDeleted, Deletion, DescribeFirst, DefaultOperationTimeout
<1>55. CASE w = "tableGone"
  BY <1>55, GoneEntry, DescribingStatus, SameDescribingStatus DEF Table,
         waitForFlinkMaterializedTableToBeDeleted, Deletion, DescribeFirst,
         materializedTableAPIDeleteTimeout
<1>56. CASE w = "kafkaGone"
  BY <1>56, GoneEntry, DescribingStatus, SameDescribingStatus DEF Table,
         waitForKafkaClusterToBeDeleted, Deletion, DescribeFirst, CutShort
<1>57. CASE w = "computePoolGone"
  BY <1>57, GoneEntry, ClassifyingStatuses DEF Table, waitForComputePoolToBeDeleted,
         TwoWordDeletion, fcpmAPIDeleteTimeout, Hours
<1>58. CASE w = "linkEndpointGone"
  BY <1>58, GoneEntry, ClassifyingStatuses DEF Table, waitForNetworkLinkEndpointToBeDeleted,
         networkLinkEndpointDeleteStatus, computePoolDeleteStatus, TwoWordDeletion,
         networkingAPIDeleteTimeout, Hours
<1>59. CASE w = "linkServiceGone"
  BY <1>59, GoneEntry, ClassifyingStatuses DEF Table, waitForNetworkLinkServiceToBeDeleted,
         networkLinkServiceDeleteStatus, computePoolDeleteStatus, TwoWordDeletion,
         networkingAPIDeleteTimeout, Hours
<1>60. CASE w = "rtceTopicGone"
  BY <1>60, GoneEntry, ClassifyingStatuses DEF Table, waitForRtceTopicToBeDeleted,
         rtceTopicDeleteStatus, computePoolDeleteStatus, TwoWordDeletion,
         rtceV1APIDeleteTimeout, Hours
<1> HIDE DEF Good
<1>61. w \in {"kafkaApiKey", "cloudApiKey", "tableflowApiKey", "globalApiKey",
         "basicKafka", "dedicatedKafka", "ksql", "pla", "connectorOffsets", "platt", "plattc",
         "network", "statement", "carriedStatement", "dnsRecord", "dnsForwarder", "accessPoint",
         "gateway", "computePool", "anySchemaRegistry", "connector", "connectorPause",
         "connectorResume", "mirrorPause", "mirrorResume", "mirrorStop", "peering", "tag",
         "businessMetadata", "tagBinding", "businessMetadataBinding", "exporterCreate",
         "exporterUpdate", "tgwAttachment", "cku", "linkEndpoint", "linkService", "rtceTopic",
         "connectArtifact", "statementStop", "statementResume", "tableProvision",
         "tableProvisionStopped", "tableStop", "tableResume", "dnsRecordGone",
         "accessPointGone", "plaGone", "peeringGone", "tgwAttachmentGone", "topicGone",
         "mirrorTopicGone", "clusterLinkGone", "statementGone", "tableGone", "kafkaGone",
         "computePoolGone", "linkEndpointGone", "linkServiceGone", "rtceTopicGone"}
  BY DEF WaitsForTheObject, Table
<1> QED BY <1>1, <1>2, <1>3, <1>4, <1>5, <1>6, <1>7, <1>8, <1>9, <1>10, <1>11, <1>12, <1>13,
         <1>14, <1>15, <1>16, <1>17, <1>18, <1>19, <1>20, <1>21, <1>22, <1>23, <1>24, <1>25,
         <1>26, <1>27, <1>28, <1>29, <1>30, <1>31, <1>32, <1>33, <1>34, <1>35, <1>36, <1>37,
         <1>38, <1>39, <1>40, <1>41, <1>42, <1>43, <1>44, <1>45, <1>46, <1>47, <1>48, <1>49,
         <1>50, <1>51, <1>52, <1>53, <1>54, <1>55, <1>56, <1>57, <1>58, <1>59, <1>60, <1>61

-----------------------------------------------------------------------------
(* The waits of the provider. *)

\* Some of the provider's waits, as utils_wait.go configures them, the one for the
\* deletion of a private link attachment connection left out.
ProviderWaits ==
    /\ Waits \subseteq WaitsForTheObject
    /\ Conf = MCConf /\ Truths = MCTruths /\ Goal = MCGoal
    /\ Describing = DescribeFirst

LEMMA ProviderConfs ==
    ASSUME ProviderWaits
    PROVE  RefreshIsSound /\ WellConfigured
<1> SUFFICES ASSUME NEW w \in Waits
             PROVE  /\ SoundRefresh(w)
                    /\ w \notin Brittle => Covers(Conf[w])
                    /\ w \notin Unguarded => NeverPanics(Conf[w])
                    /\ w \notin CutShort => Conf[w].Timeout <= Conf[w].deadline
  BY DEF RefreshIsSound, WellConfigured
<1>1. w \in WaitsForTheObject /\ w \in DOMAIN Table
  BY DEF ProviderWaits, WaitsForTheObject
<1>2. /\ Conf[w] = Table[w].conf /\ Goal[w] = Table[w].goal /\ Truths[w] = Table[w].truths
      /\ Describing = DescribeFirst
  BY <1>1 DEF ProviderWaits, MCConf, MCGoal, MCTruths
<1>3. Good(w, Table[w])
  BY <1>1, EveryEntry
<1>4. Sound(Conf[w], Goal[w], Truths[w], w \in Describing)
  BY <1>2, <1>3 DEF Good
<1>5. SoundRefresh(w)
  BY <1>4 DEF Sound, SoundRefresh, ServerAnswers
<1> QED BY <1>2, <1>3, <1>5 DEF Good

\* Each of the provider's waits starts with a refresh function that never takes an
\* object for one in a goal state: the premise of the theorems above, discharged
\* for the refresh functions of utils_wait.go one by one.
THEOREM ProviderRefreshIsSound == ASSUME ProviderWaits PROVE Spec => []StartsWithASoundRefresh
<1>1. TypeOK => StartsWithASoundRefresh
  BY ProviderConfs DEF TypeOK, StartsWithASoundRefresh, RefreshIsSound
<1> QED BY <1>1, TypeCorrect, PTL

\* A wait of the provider that returns nil had sighted a goal state, and one for a
\* deletion leaves an object that is gone.
THEOREM ProviderWaitsReachTheirGoal ==
    ASSUME ProviderWaits
    PROVE  Spec => [](SuccessMeansGoal /\ DeletedMeansGone)
<1>1. RefreshIsSound
  BY ProviderConfs
<1>2. Spec => []SuccessMeansGoal
  BY <1>1, SuccessMeansGoalHolds
<1>3. Spec => []DeletedMeansGone
  BY <1>1, DeletedMeansGoneHolds
<1> QED BY <1>2, <1>3, PTL

\* The provider's waits implement AbstractWait, with no hypothesis left on their
\* refresh functions.
THEOREM ProviderWaitsRefine == ASSUME ProviderWaits PROVE Spec => ImplementsPromise
BY ProviderConfs, Refinement

\* Apart from the Brittle ones, no wait of the provider stops at a state that its
\* own refresh function reports as normal: its Pending and Target lists name them all.
THEOREM KnownStatesNeverEndAWaitHolds ==
    ASSUME ProviderWaits PROVE Spec => []KnownStatesNeverEndAWait
<1>1. WellConfigured
  BY ProviderConfs
<1>2. Spec => [](TypeOK /\ EndInv)
  BY <1>1, EndAlways
<1>3. EndInv => KnownStatesNeverEndAWait
  BY DEF EndInv
<1> QED BY <1>2, <1>3, PTL

\* Apart from the Unguarded ones, no wait of the provider ends the plugin with a
\* panic, whichever call of it gets no response.
THEOREM LostAnswerNeverPanicsHolds ==
    ASSUME ProviderWaits PROVE Spec => []LostAnswerNeverPanics
<1>1. WellConfigured
  BY ProviderConfs
<1>2. Spec => [](TypeOK /\ EndInv)
  BY <1>1, EndAlways
<1>3. EndInv => LostAnswerNeverPanics
  BY DEF EndInv
<1> QED BY <1>2, <1>3, PTL

\* Apart from the waits of CutShort, the deadline of the handler's context never
\* ends a wait of the provider before the Timeout of its StateChangeConf.
THEOREM DeadlineLeavesTheTimeoutHolds ==
    ASSUME ProviderWaits PROVE Spec => []DeadlineLeavesTheTimeout
<1>1. WellConfigured
  BY ProviderConfs
<1>2. Spec => [](TypeOK /\ EndInv)
  BY <1>1, EndAlways
<1>3. TypeOK /\ EndInv => DeadlineLeavesTheTimeout
  <2> SUFFICES ASSUME TypeOK, EndInv, wait \notin CutShort, result = "ctxDone"
               PROVE  now >= Conf[wait].Timeout
    BY DEF DeadlineLeavesTheTimeout
  <2>1. /\ wait \in Waits /\ now \in Nat /\ now >= Conf[wait].deadline
        /\ Conf[wait].Timeout \in Nat /\ Conf[wait].deadline \in Nat
        /\ Conf[wait].Timeout <= Conf[wait].deadline
    BY <1>1, ConfAssumption DEF TypeOK, EndInv, WellConfigured
  <2> QED BY <2>1
<1> QED BY <1>2, <1>3, PTL
=============================================================================
