------------------------ MODULE ProviderRouterProofs ------------------------
(***************************************************************************)
(* Proofs about ProviderRouter for any number of workers, clients and keys.*)
(***************************************************************************)
EXTENDS ProviderRouter, TLAPS

(* What a call in hand has posted with its key so far: an attempt before   *)
(* the second, and up to two before a corrective turn.                     *)
SentInv ==
  \A w \in Worker :
    /\ call[w].sent <= 4
    /\ call[w].phase = "posting" /\ call[w].correcting = "no"
         => call[w].sent <= call[w].attempt - 1
    /\ call[w].phase = "posting" /\ call[w].correcting # "no"
         => call[w].sent <= call[w].attempt + 1

(* SkippedHaveFailed, by its parts.                                        *)
PassedByRouter  == \A i \in 1 .. active - 1 : i \in failed
PassedByWorkers == \A w \in Worker : \A i \in 1 .. call[w].client - 1 : i \in failed
ReasonInv ==
  /\ failed # {} <=> reason # None
  /\ reason \in Transient \cup {None}

(* A call that failed has its failure.                                     *)
FailureIsKnown == \A w \in Worker : call[w].phase = "failed" => call[w].error \in Category

IInv ==
  /\ TypeOK /\ FailureIsKnown /\ SentInv
  /\ PassedByRouter /\ PassedByWorkers /\ ReasonInv

-----------------------------------------------------------------------------
LEMMA IdleType == Idle \in Call
  BY RouterAssumption DEF Idle, Call, Phase, Client

LEMMA BegunType ==
  ASSUME NEW i \in Client
  PROVE  /\ Begun(i) \in Call
         /\ Begun(i).client = i /\ Begun(i).sent = 0 /\ Begun(i).attempt = 1
         /\ Begun(i).correcting = "no"
         /\ Begun(i).phase = "failed" => Begun(i).error \in Category
  <1>1. i \in live => Begun(i) = [phase |-> "posting", client |-> i, key |-> 1, attempt |-> 1,
                                  correcting |-> "no", error |-> None, sent |-> 0]
    BY DEF Begun, Idle
  <1>2. i \notin live => Begun(i) = [phase |-> "failed", client |-> i, key |-> 1, attempt |-> 1,
                                     correcting |-> "no", error |-> "lasting", sent |-> 0]
    BY DEF Begun, Idle
  <1> QED
    BY <1>1, <1>2, RouterAssumption DEF Call, Phase, Category

LEMMA InitInv == Init => IInv
  <1> SUFFICES ASSUME Init PROVE IInv
    OBVIOUS
  <1>1. TypeOK
    BY IdleType, RouterAssumption DEF Init, TypeOK, Client
  <1>2. FailureIsKnown /\ SentInv /\ PassedByWorkers
    BY DEF Init, Idle, FailureIsKnown, SentInv, PassedByWorkers
  <1>3. PassedByRouter /\ ReasonInv
    BY DEF Init, PassedByRouter, ReasonInv
  <1> QED
    BY <1>1, <1>2, <1>3 DEF IInv

(* A step that leaves the router alone and the call of w at its client.    *)
LEMMA OwnStep ==
  ASSUME IInv, NEW w \in Worker, NEW c \in Call,
         call' = [call EXCEPT ![w] = c], UNCHANGED <<live, active, reason, failed>>,
         c.client = call[w].client \/ c.client = active \/ c.client = 1,
         c.phase = "failed" => c.error \in Category,
         c.sent <= 4,
         c.phase = "posting" /\ c.correcting = "no" => c.sent <= c.attempt - 1,
         c.phase = "posting" /\ c.correcting # "no" => c.sent <= c.attempt + 1
  PROVE  IInv'
  <1> USE DEF IInv
  <1>1. TypeOK'
    BY DEF TypeOK
  <1>2. FailureIsKnown'
    BY DEF FailureIsKnown, TypeOK
  <1>3. SentInv'
    BY DEF SentInv, TypeOK
  <1>4. PassedByRouter' /\ ReasonInv'
    BY DEF PassedByRouter, ReasonInv
  <1>5. PassedByWorkers'
    BY DEF PassedByWorkers, PassedByRouter, TypeOK
  <1> QED
    BY <1>1, <1>2, <1>3, <1>4, <1>5

LEMMA AskStep == ASSUME IInv, NEW w \in Worker, Ask(w) PROVE IInv'
  <1>1. active \in Client
    BY DEF IInv, TypeOK
  <1> DEFINE c == Begun(active)
  <1>2. call' = [call EXCEPT ![w] = c] /\ UNCHANGED <<live, active, reason, failed>>
    BY DEF Ask
  <1>3. /\ c \in Call /\ c.client = active /\ c.sent = 0 /\ c.attempt = 1
        /\ c.correcting = "no"
        /\ c.phase = "failed" => c.error \in Category
    BY <1>1, BegunType
  <1> HIDE DEF c
  <1>4. c.sent <= 4 /\ c.sent <= c.attempt - 1
    BY <1>3
  <1> QED
    BY <1>2, <1>3, <1>4, OwnStep

(* The next key begins with nothing sent; without one the call has failed. *)
LEMMA KeyFailedEffect ==
  ASSUME NEW c \in Call, NEW category \in Category, c.sent <= 4
  PROVE  LET d == KeyFailed(c, category) IN
         /\ d \in Call /\ d.client = c.client /\ d.error = category /\ d.sent <= 4
         /\ d.phase \in {c.phase, "failed"}
         /\ d.phase # "failed" => d.sent = 0 /\ d.attempt = 1
  <1> DEFINE d == KeyFailed(c, category)
  <1>1. CASE c.key < Keys /\ c.correcting # "refused"
    <2>2. PICK k \in 1 .. Keys : k = c.key + 1
      BY <1>1, RouterAssumption DEF Call
    <2>1. d = [c EXCEPT !.key = k, !.attempt = 1, !.correcting = "no",
                        !.error = category, !.sent = 0]
      BY <1>1, <2>2 DEF KeyFailed
    <2> HIDE DEF d
    <2>3. d \in Call
      BY <2>1 DEF Call
    <2>4. /\ d.client = c.client /\ d.error = category /\ d.phase = c.phase
          /\ d.sent = 0 /\ d.attempt = 1
      BY <2>1 DEF Call
    <2> QED
      BY <2>3, <2>4 DEF d
  <1>2. CASE ~ (c.key < Keys /\ c.correcting # "refused")
    <2>1. d = [c EXCEPT !.phase = "failed", !.error = category]
      BY <1>2 DEF KeyFailed
    <2> HIDE DEF d
    <2>2. d \in Call /\ d.client = c.client /\ d.error = category /\ d.phase = "failed"
          /\ d.sent = c.sent
      BY <2>1 DEF Call, Phase
    <2> QED
      BY <2>2 DEF d
  <1> QED
    BY <1>1, <1>2

LEMMA PostFailsStep ==
  ASSUME IInv, NEW w \in Worker, NEW failure \in Failure, PostFails(w, failure) PROVE IInv'
  <1> DEFINE c == Sent(w)
  <1>1. /\ call[w] \in Call /\ c \in Call /\ c.client = call[w].client
        /\ c.phase = "posting" /\ c.sent = call[w].sent + 1
        /\ c.attempt = call[w].attempt /\ c.correcting = call[w].correcting
        /\ call[w].phase = "posting"
    BY DEF IInv, TypeOK, Sent, Call, PostFails, At
  <1> HIDE DEF c
  <1>2. /\ c.correcting = "no" => c.sent <= c.attempt
        /\ c.correcting # "no" => c.sent <= c.attempt + 2
        /\ c.sent <= 4
    BY <1>1 DEF IInv, SentInv, Call
  <1>3. CASE Repeats(c, failure)
    <2> DEFINE d == [c EXCEPT !.attempt = 2]
    <2>1. call' = [call EXCEPT ![w] = d] /\ UNCHANGED <<live, active, reason, failed>>
      BY <1>3 DEF PostFails, c
    <2>2. /\ d \in Call /\ d.client = c.client /\ d.phase = c.phase /\ d.sent = c.sent
          /\ d.correcting = c.correcting /\ d.attempt = 2 /\ c.attempt = 1
      BY <1>1, <1>3 DEF Call, Repeats
    <2> HIDE DEF d
    <2>3. d.sent <= d.attempt + 1 /\ (d.correcting = "no" => d.sent <= d.attempt - 1)
      BY <1>2, <2>2 DEF Call
    <2> QED
      BY <1>1, <1>2, <2>1, <2>2, <2>3, OwnStep
  <1>4. CASE ~ Repeats(c, failure)
    <2> DEFINE d == KeyFailed(c, CategoryOf(failure))
    <2>1. call' = [call EXCEPT ![w] = d] /\ UNCHANGED <<live, active, reason, failed>>
      BY <1>4 DEF PostFails, c
    <2>2. CategoryOf(failure) \in Category
      BY DEF CategoryOf, Failure, Category
    <2>3. /\ d \in Call /\ d.client = c.client /\ d.error = CategoryOf(failure) /\ d.sent <= 4
          /\ d.phase \in {c.phase, "failed"}
          /\ d.phase # "failed" => d.sent = 0 /\ d.attempt = 1
      BY <1>1, <1>2, <2>2, KeyFailedEffect
    <2> HIDE DEF d
    <2>4. d.phase = "posting" => d.sent <= d.attempt - 1 /\ d.sent <= d.attempt + 1
      BY <2>3
    <2> QED
      BY <1>1, <2>1, <2>2, <2>3, <2>4, OwnStep
  <1> QED
    BY <1>3, <1>4

LEMMA CorrectStep ==
  ASSUME IInv, NEW w \in Worker, NEW how \in {"answered", "refused"}, Correct(w, how)
  PROVE  IInv'
  <1> DEFINE d == [Sent(w) EXCEPT !.correcting = how, !.attempt = 1]
  <1>1. call[w] \in Call /\ call[w].sent <= call[w].attempt - 1
    BY DEF IInv, TypeOK, SentInv, Correct, At
  <1>0. call[w].sent <= 1
    BY <1>1 DEF Call
  <1>5. /\ Sent(w) \in Call /\ Sent(w).client = call[w].client
        /\ Sent(w).phase = "posting" /\ Sent(w).sent = call[w].sent + 1
    BY <1>1 DEF Sent, Call, Correct, At
  <1>2. /\ d \in Call /\ d.client = call[w].client /\ d.phase = "posting"
        /\ d.sent = call[w].sent + 1 /\ d.attempt = 1 /\ d.correcting = how
    BY <1>5 DEF Call
  <1>4. call' = [call EXCEPT ![w] = d] /\ UNCHANGED <<live, active, reason, failed>>
    BY DEF Correct
  <1> HIDE DEF d
  <1>3. d.sent <= d.attempt + 1 /\ d.sent <= 4
    BY <1>1, <1>2, <1>0 DEF Call
  <1> QED
    BY <1>2, <1>3, <1>4, OwnStep

LEMMA PostSucceedsStep ==
  ASSUME IInv, NEW w \in Worker, NEW decision \in BOOLEAN, PostSucceeds(w, decision)
  PROVE  IInv'
  <1> DEFINE d == IF decision THEN [Sent(w) EXCEPT !.phase = "answered"]
                  ELSE [Sent(w) EXCEPT !.phase = "failed", !.error = "lasting"]
  <1>1. call[w] \in Call /\ call[w].sent <= 3
    BY DEF IInv, TypeOK, SentInv, PostSucceeds, At, Call
  <1>5. Sent(w) \in Call /\ Sent(w).client = call[w].client /\ Sent(w).sent <= 4
    BY <1>1 DEF Sent, Call
  <1>2. /\ d \in Call /\ d.client = call[w].client /\ d.phase \in {"answered", "failed"}
        /\ d.sent <= 4
        /\ d.phase = "failed" => d.error \in Category
    BY <1>5 DEF Call, Phase, Category
  <1>3. call' = [call EXCEPT ![w] = d] /\ UNCHANGED <<live, active, reason, failed>>
    BY DEF PostSucceeds
  <1> HIDE DEF d
  <1>4. d.phase # "posting" /\ (d.phase = "failed" => d.error \in Category)
    BY <1>2
  <1> QED
    BY <1>2, <1>3, <1>4, OwnStep

LEMMA EndStep ==
  ASSUME IInv, NEW w \in Worker, PostEscapes(w) \/ GiveUp(w) \/ Record(w) PROVE IInv'
  BY IdleType, OwnStep DEF PostEscapes, GiveUp, Record, Idle

(* The router moves to the client of the call, which passed those before.  *)
LEMMA AdoptStep == ASSUME IInv, NEW w \in Worker, Adopt(w) PROVE IInv'
  <1> USE DEF IInv, Adopt
  <1>1. call[w] \in Call
    BY DEF TypeOK
  <1>2. TypeOK'
    BY <1>1 DEF TypeOK, Call, Phase
  <1>3. FailureIsKnown' /\ SentInv'
    BY <1>1 DEF FailureIsKnown, SentInv, TypeOK, At, Call
  <1>4. PassedByRouter' /\ ReasonInv'
    BY DEF PassedByRouter, PassedByWorkers, ReasonInv
  <1>5. PassedByWorkers'
    BY <1>1 DEF PassedByWorkers, TypeOK, Call
  <1> QED
    BY <1>2, <1>3, <1>4, <1>5

(* The client of the call joins those that failed.                         *)
LEMMA FailOverStep == ASSUME IInv, NEW w \in Worker, FailOver(w) PROVE IInv'
  <1> USE DEF IInv
  <1> DEFINE c == call[w]
  <1>1. c \in Call /\ c.client \in Client /\ c.client + 1 \in Client
    BY RouterAssumption DEF FailOver, TypeOK, Call, Client
  <1>2. /\ call' = [call EXCEPT ![w] = Begun(c.client + 1)]
        /\ failed' = failed \cup {c.client} /\ reason' = c.error /\ c.error \in Transient
        /\ UNCHANGED <<live, active>>
    BY DEF FailOver
  <1>3. /\ Begun(c.client + 1) \in Call /\ Begun(c.client + 1).client = c.client + 1
        /\ Begun(c.client + 1).sent = 0 /\ Begun(c.client + 1).attempt = 1
        /\ Begun(c.client + 1).phase = "failed" => Begun(c.client + 1).error \in Category
    BY <1>1, BegunType
  <1>4. TypeOK'
    BY <1>1, <1>2, <1>3 DEF TypeOK, Category
  <1>5. FailureIsKnown'
    BY <1>2, <1>3 DEF FailureIsKnown, TypeOK
  <1>6. SentInv'
    BY <1>2, <1>3 DEF SentInv, TypeOK
  <1>7. PassedByRouter' /\ ReasonInv'
    BY <1>2, RouterAssumption DEF PassedByRouter, ReasonInv, Transient
  <1>8. PassedByWorkers'
    <2>1. ASSUME NEW v \in Worker, NEW i \in 1 .. call'[v].client - 1 PROVE i \in failed'
      <3>1. CASE v = w
        <4>1. i \in 1 .. c.client
          BY <1>1, <1>2, <1>3, <2>1, <3>1 DEF TypeOK, Client
        <4> QED
          BY <4>1, <1>1, <1>2 DEF PassedByWorkers, Client
      <3>2. CASE v # w
        BY <1>2, <2>1, <3>2 DEF PassedByWorkers, TypeOK
      <3> QED
        BY <3>1, <3>2
    <2> QED
      BY <2>1 DEF PassedByWorkers
  <1> QED
    BY <1>4, <1>5, <1>6, <1>7, <1>8

-----------------------------------------------------------------------------
LEMMA StepInv == IInv /\ [Next]_vars => IInv'
  <1> SUFFICES ASSUME IInv, [Next]_vars PROVE IInv'
    OBVIOUS
  <1>1. ASSUME NEW w \in Worker, Ask(w) PROVE IInv'
    BY <1>1, AskStep
  <1>2. ASSUME NEW w \in Worker, Progress(w) PROVE IInv'
    <2>1. ASSUME NEW failure \in Failure, PostFails(w, failure) PROVE IInv'
      BY <2>1, PostFailsStep
    <2>2. ASSUME NEW how \in {"answered", "refused"}, Correct(w, how) PROVE IInv'
      BY <2>2, CorrectStep
    <2>3. ASSUME NEW decision \in BOOLEAN, PostSucceeds(w, decision) PROVE IInv'
      BY <2>3, PostSucceedsStep
    <2>4. CASE PostEscapes(w) \/ GiveUp(w)
      BY <2>4, EndStep
    <2>5. CASE Adopt(w) \/ FailOver(w)
      BY <2>5, AdoptStep, FailOverStep
    <2> QED
      BY <1>2, <2>1, <2>2, <2>3, <2>4, <2>5 DEF Progress
  <1>3. ASSUME NEW w \in Worker, Record(w) PROVE IInv'
    BY <1>3, EndStep
  <1>4. CASE UNCHANGED vars
    BY <1>4 DEF vars, IInv, TypeOK, FailureIsKnown, SentInv, PassedByRouter,
                PassedByWorkers, ReasonInv
  <1> QED
    BY <1>1, <1>2, <1>3, <1>4 DEF Next

LEMMA Invariance == Spec => []IInv
  BY InitInv, StepInv, PTL DEF Spec

-----------------------------------------------------------------------------
(* The index of the router and those of the calls stay within the list of  *)
(* clients, the key within its pool (provider.py:366, 711).                *)
THEOREM IndicesStayInRange == Spec => []TypeOK
  BY Invariance, PTL DEF IInv

(* Whatever the provider answers, a call posts at most four times with a   *)
(* key: two attempts and two of the corrective turn.                       *)
THEOREM FourPostsPerKey == Spec => []PostsAreBounded
  <1>1. IInv => PostsAreBounded
    BY DEF IInv, SentInv, PostsAreBounded
  <1> QED
    BY <1>1, Invariance, PTL

(* However many threads move _active_index for one another, no client is   *)
(* passed over that did not fail transiently, and a reported fallback has  *)
(* such a failure as its reason.                                           *)
THEOREM OnlyFailedAreSkipped == Spec => []SkippedHaveFailed
  <1>1. IInv => SkippedHaveFailed
    BY DEF IInv, PassedByRouter, PassedByWorkers, ReasonInv, SkippedHaveFailed
  <1> QED
    BY <1>1, Invariance, PTL
=============================================================================
