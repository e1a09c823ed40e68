---------------------------- MODULE ProviderRouter ----------------------------
(***************************************************************************)
(* The AI providers behind FailoverAIClient.next_step. The clients form a  *)
(* list; investigations in several request threads share the one router,   *)
(* whose two fields have no lock. A client posts its request with one key  *)
(* after another, at most twice with each, and asks once more without      *)
(* tools when the model called a tool it was not given.                    *)
(*                                                                         *)
(* A step is one HTTP exchange. Failures are abstracted to three           *)
(* categories: "outage" stands for the transient ones that are retried (a  *)
(* timeout, a network error, 408, 409, 5xx), "lasting" for the others that *)
(* are not transient (quota_exhausted, authentication, invalid_response,   *)
(* ...). Payloads and prompts are left out, and health checks:             *)
(* provider_health_report asks the clients themselves, and nothing calls   *)
(* the router's own health_check, which would set _active_index too.       *)
(***************************************************************************)
EXTENDS Naturals

CONSTANTS
  Worker,            \* threads that investigate
  Clients,           \* number of clients of the router
  Keys,              \* number of API keys of a client
  None               \* no failure

ASSUME RouterAssumption ==
  /\ Clients \in Nat \ {0} /\ Keys \in Nat \ {0}
  /\ None \notin {"outage", "rate_limited", "lasting"}

VARIABLES
  live,      \* clients with credentials (the others are UnavailableAIClient)
  active,    \* _active_index, from 1
  reason,    \* _fallback_reason
  call,      \* the next_step each worker is in
  failed     \* history: clients that a call left for a transient failure

vars == <<live, active, reason, call, failed>>

Client    == 1 .. Clients
Transient == {"outage", "rate_limited"}
Category  == Transient \cup {"lasting"}

(* correcting: whether the post is the corrective turn, and of which kind  *)
(* of tool call: one the model "answered" with or one the provider         *)
(* "refused". error: the last failure of this client in this call. sent:   *)
(* posts since the turn of the key began.                                  *)
Phase == {"idle", "posting", "failed", "answered", "decided"}
Call == [phase : Phase, client : Client, key : 1 .. Keys, attempt : {1, 2},
         correcting : {"no", "answered", "refused"}, error : Category \cup {None},
         sent : Nat]
Idle == [phase |-> "idle", client |-> 1, key |-> 1, attempt |-> 1,
         correcting |-> "no", error |-> None, sent |-> 0]

TypeOK ==
  /\ live \subseteq Client
  /\ active \in Client
  /\ reason \in Category \cup {None}
  /\ call \in [Worker -> Call]
  /\ failed \subseteq Client

Init ==
  /\ live \in SUBSET Client
  /\ active = 1
  /\ reason = None
  /\ call = [w \in Worker |-> Idle]
  /\ failed = {}

At(w, phase) == call[w].phase = phase

-----------------------------------------------------------------------------
(* The client of index i begins; one without credentials raises at once.   *)
Begun(i) == IF i \in live
            THEN [Idle EXCEPT !.phase = "posting", !.client = i]
            ELSE [Idle EXCEPT !.phase = "failed", !.client = i, !.error = "lasting"]

(* FailoverAIClient.next_step: the loop runs from the index of now.        *)
Ask(w) ==
  /\ \/ At(w, "idle")
     \/ At(w, "decided")
  /\ call' = [call EXCEPT ![w] = Begun(active)]
  /\ UNCHANGED <<live, active, reason, failed>>

(* Whether _chat posts the request again with the same key: a generation   *)
(* that was not JSON once, an outage once unless keys do not rotate.       *)
Repeats(c, failure) ==
  /\ c.attempt = 1
  /\ \/ failure = "not JSON"
     \/ failure = "outage" /\ c.correcting = "no"

(* Mutants: the first key of the pool follows the last one; one key too    *)
(* many is tried.                                                          *)
KeyFailedRound(c, category) ==
  IF c.correcting # "refused"
  THEN [c EXCEPT !.key = IF c.key < Keys THEN @ + 1 ELSE 1, !.attempt = 1,
                 !.correcting = "no", !.error = category, !.sent = 0]
  ELSE [c EXCEPT !.phase = "failed", !.error = category]

KeyFailedPast(c, category) ==
  IF c.key <= Keys /\ c.correcting # "refused"
  THEN [c EXCEPT !.key = @ + 1, !.attempt = 1, !.correcting = "no", !.error = category, !.sent = 0]
  ELSE [c EXCEPT !.phase = "failed", !.error = category]

(* The exchange with the current key is over and failed. The corrective    *)
(* turn uses the first key only. One for an answer runs inside the try     *)
(* block, and its failure sends the caller to the next key; one for a      *)
(* refusal runs in the handler, and its failure is the client's.           *)
KeyFailed(c, category) ==
  IF c.key < Keys /\ c.correcting # "refused"
  THEN [c EXCEPT !.key = @ + 1, !.attempt = 1, !.correcting = "no", !.error = category, !.sent = 0]
  ELSE [c EXCEPT !.phase = "failed", !.error = category]

(* _http_failure_category and the other handlers.                          *)
CategoryOf(failure) == IF failure = "not JSON" THEN "lasting" ELSE failure

Sent(w) == [call[w] EXCEPT !.sent = @ + 1]

(* A post that fails.                                                      *)
PostFails(w, failure) ==
  LET c == Sent(w) IN
  /\ At(w, "posting")
  /\ call' = [call EXCEPT ![w] = IF Repeats(c, failure) THEN [c EXCEPT !.attempt = 2]
                                 ELSE KeyFailed(c, CategoryOf(failure))]
  /\ UNCHANGED <<live, active, reason, failed>>

(* Mutant: a corrective turn can be corrected in turn.                     *)
CorrectAgain(w, how) ==
  /\ At(w, "posting")
  /\ call' = [call EXCEPT ![w] = [Sent(w) EXCEPT !.correcting = how, !.attempt = 1]]
  /\ UNCHANGED <<live, active, reason, failed>>

(* The model called a tool that it was not given.                          *)
Correct(w, how) ==
  /\ At(w, "posting")
  /\ call[w].correcting = "no"
  /\ call' = [call EXCEPT ![w] = [Sent(w) EXCEPT !.correcting = how, !.attempt = 1]]
  /\ UNCHANGED <<live, active, reason, failed>>

(* A JSON object came back, and it is a decision or not; the latter is     *)
(* outside the loop over the keys.                                         *)
PostSucceeds(w, decision) ==
  /\ At(w, "posting")
  /\ call' = [call EXCEPT ![w] = IF decision THEN [Sent(w) EXCEPT !.phase = "answered"]
                                 ELSE [Sent(w) EXCEPT !.phase = "failed",
                                                      !.error = "lasting"]]
  /\ UNCHANGED <<live, active, reason, failed>>

(* The arguments of a tool call are not JSON: ValueError, which the router *)
(* does not catch.                                                         *)
PostEscapes(w) ==
  /\ At(w, "posting")
  /\ call[w].correcting = "no"
  /\ call' = [call EXCEPT ![w] = Idle]
  /\ UNCHANGED <<live, active, reason, failed>>

-----------------------------------------------------------------------------
(* The answer is returned by the client that is now the active one.        *)
Adopt(w) ==
  /\ At(w, "answered")
  /\ active' = call[w].client
  /\ call' = [call EXCEPT ![w].phase = "decided"]
  /\ UNCHANGED <<live, reason, failed>>

(* Mutant: the next client is tried whatever the failure.                  *)
FailOverAlways(w) ==
  LET c == call[w] IN
  /\ At(w, "failed")
  /\ c.client < Clients
  /\ reason' = c.error
  /\ failed' = IF c.error \in Transient THEN failed \cup {c.client} ELSE failed
  /\ call' = [call EXCEPT ![w] = Begun(c.client + 1)]
  /\ UNCHANGED <<live, active>>

(* The client raised something transient, and there is another.            *)
FailOver(w) ==
  LET c == call[w] IN
  /\ At(w, "failed")
  /\ c.error \in Transient
  /\ c.client < Clients
  /\ reason' = c.error
  /\ failed' = failed \cup {c.client}
  /\ call' = [call EXCEPT ![w] = Begun(c.client + 1)]
  /\ UNCHANGED <<live, active>>

(* _all_providers_failed, with the last failure. The investigation fails.  *)
GiveUp(w) ==
  LET c == call[w] IN
  /\ At(w, "failed")
  /\ c.error \notin Transient \/ c.client = Clients
  /\ call' = [call EXCEPT ![w] = Idle]
  /\ UNCHANGED <<live, active, reason, failed>>

(* The investigation is over: _with_metadata reads the router as it is now.*)
Record(w) ==
  /\ At(w, "decided")
  /\ call' = [call EXCEPT ![w] = Idle]
  /\ UNCHANGED <<live, active, reason, failed>>

Failure == Category \cup {"not JSON"}

(* What a call does by itself: urlopen has a timeout.                      *)
Progress(w) ==
  \/ \E failure \in Failure : PostFails(w, failure)
  \/ \E how \in {"answered", "refused"} : Correct(w, how)
  \/ \E decision \in BOOLEAN : PostSucceeds(w, decision)
  \/ PostEscapes(w)
  \/ Adopt(w) \/ FailOver(w) \/ GiveUp(w)

Next == \E w \in Worker : Ask(w) \/ Progress(w) \/ Record(w)

Spec == Init /\ [][Next]_vars /\ \A w \in Worker : WF_vars(Progress(w))

-----------------------------------------------------------------------------
(* Retries, the regeneration and the corrective turn together stay within  *)
(* four posts per key, whatever the provider answers.                      *)
PostsAreBounded == \A w \in Worker : call[w].sent <= 4

(* A client is passed over only when it failed transiently: those before   *)
(* the active one, and those before the one that a call has come to. The   *)
(* response that reports a fallback then has such a failure as its reason. *)
SkippedHaveFailed ==
  /\ \A i \in 1 .. active - 1 : i \in failed
  /\ \A w \in Worker : \A i \in 1 .. call[w].client - 1 : i \in failed
  /\ failed # {} <=> reason # None
  /\ reason \in Transient \cup {None}

(* Every call comes to a decision or to a failure, however providers and   *)
(* other workers behave.                                                   *)
CallEnds ==
  \A w \in Worker :
    call[w].phase \in {"posting", "failed", "answered"} ~> call[w].phase \in {"idle", "decided"}

-----------------------------------------------------------------------------
(* What the documents say and the code does not do.                        *)

(* docs/data_api.md:153, "Key pools retry in order only for bounded        *)
(* transient failures; quota, authorization, unsupported-capability, and   *)
(* malformed-output failures are not hidden": after such a failure of a    *)
(* key there is no other post in the call.                                 *)
LastingFailureIsFinal ==
  [][\A w \in Worker :
       call[w].error = "lasting" => call'[w].sent <= call[w].sent]_vars

(* docs/data_api.md:153, "Investigation persistence includes ...           *)
(* actual_provider_used": what Record reads is the client that answered.   *)
ActualProviderIsRecorded == \A w \in Worker : At(w, "decided") => active = call[w].client
=============================================================================
