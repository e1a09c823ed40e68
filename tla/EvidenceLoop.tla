----------------------------- MODULE EvidenceLoop -----------------------------
(***************************************************************************)
(* InvestigationService._investigate: one investigation of one exception.  *)
(* The service calls read-only evidence tools on the lifecycle and asks    *)
(* the provider to choose the next tool or to conclude; a conclusion is    *)
(* verified, and may be corrected once, before it becomes the response.    *)
(*                                                                         *)
(* The provider, the tools' refusals and the verifier's verdict are free   *)
(* choices; EvidenceVerifier has the verifier. Evidence, summaries, audit  *)
(* events and the metadata of _with_metadata are left out.                 *)
(***************************************************************************)
EXTENDS Naturals, FiniteSets

CONSTANTS
  Tool,              \* tools that _investigation_tools allows for the type
  Baselines,         \* for each group of types, the tools that are called first
  Foreign,           \* a tool name that is not allowed
  Empty,             \* the arguments {}
  Arguments,         \* argument objects, Empty among them
  NotAnObject,       \* arguments that are JSON and not an object
  Steps,             \* decisions of the loop, and tools of the legacy path: 8
  IterationLimit,    \* the largest failure_iteration of a response: 8
  None               \* no candidate, or no iteration in a failure

ASSUME LoopAssumption ==
  /\ Baselines \subseteq SUBSET (Tool \cup {Foreign})
  /\ \A tools \in Baselines : IsFiniteSet(tools)
  /\ Steps \in Nat \ {0} /\ IterationLimit \in Nat
  /\ Empty \in Arguments /\ NotAnObject \notin Arguments
  /\ None \notin Nat \cup {"SUPPORTED", "UNRESOLVED", "FAILED"}

VARIABLES
  client,            \* what the provider is
  phase,
  baseline,          \* _fallback_tools, of the types that have to be compared
  left,              \* baseline tools still to be called
  called,            \* pairs of a name and arguments that a tool answered
  calls,             \* length of tool_calls, a SKIPPED one included
  step,              \* tool calls of the loop, and bad answers of a legacy client
  asked,             \* history: calls of next_step
  candidate,         \* status of the provider's conclusion
  checked,           \* what the verifier said of it
  outcome            \* status of the response, or "raised"

vars == <<client, phase, baseline, left, called, calls, step, asked, candidate, checked, outcome>>

Status == {"SUPPORTED", "UNRESOLVED", "FAILED"}
Verdict == {"clean", "issues", "too many"}
Phase  == {"collecting", "deciding", "repairing", "finishing", "selecting", "concluding",
           "verifying", "correcting", "done"}

(* Types, and the loop's bounds: no more than Steps tools beside the       *)
(* baseline, and the provider is asked at most twice more than that, to    *)
(* repair a conclusion and to correct it.                                  *)
TypeOK ==
  /\ client \in {"live", "stub", "legacy"}
  /\ phase \in Phase
  /\ baseline \in Baselines
  /\ left \subseteq baseline
  /\ called \subseteq (Tool \cup {Foreign}) \X Arguments
  /\ calls \in 0 .. Cardinality(baseline) + Steps
  /\ step \in 0 .. Steps
  /\ asked \in 0 .. Steps + 2
  /\ candidate \in Status \cup {None}
  /\ checked \in Verdict \cup {"no"}
  /\ outcome \in Status \cup {"raised", None}

Init ==
  /\ client \in {"live", "stub", "legacy"}
  /\ baseline \in Baselines
  /\ left = baseline
  /\ \/ client = "legacy" /\ phase = "selecting"
     \/ client # "legacy" /\ phase = IF baseline = {} THEN "deciding" ELSE "collecting"
  /\ called = {} /\ calls = 0 /\ step = 0 /\ asked = 0
  /\ candidate = None /\ checked = "no" /\ outcome = None

-----------------------------------------------------------------------------
(* The response is built, or its construction raises: it has no more than  *)
(* IterationLimit as failure_iteration.                                    *)
End(status) == phase' = "done" /\ outcome' = status

Failed(iteration) ==
  End(IF iteration # None /\ iteration > IterationLimit THEN "raised" ELSE "FAILED")

(* next_step is called. The count stops one above what TypeOK allows.      *)
Ask == asked' = IF asked < Steps + 3 THEN asked + 1 ELSE asked

(* The baseline: each tool once, without arguments.                        *)
Collect(t) ==
  /\ phase = "collecting" /\ t \in left
  /\ called' = called \cup {<<t, Empty>>}
  /\ calls' = calls + 1
  /\ left' = left \ {t}
  /\ phase' = IF left' = {} THEN "deciding" ELSE "collecting"
  /\ UNCHANGED <<client, baseline, step, asked, candidate, checked, outcome>>

(* Mutant: a tool of the baseline that raises is passed over.              *)
CollectRefusedGoesOn ==
  /\ phase = "collecting"
  /\ left' = {}
  /\ phase' = "deciding"
  /\ UNCHANGED <<client, baseline, called, calls, step, asked, candidate, checked, outcome>>

(* A tool of the baseline raises ValueError: no SKIPPED call is recorded.  *)
CollectRefused ==
  /\ phase = "collecting"
  /\ End("UNRESOLVED")
  /\ UNCHANGED <<client, baseline, left, called, calls, step, asked, candidate, checked>>

-----------------------------------------------------------------------------
(* next_step raises ProviderUnavailable. _chat numbers the failure after   *)
(* the calls so far; other failures have no number. The attempt to repair  *)
(* a conclusion turns it into a failure with a number.                     *)
Unavailable(iteration) ==
  /\ phase \in {"deciding", "finishing"}
  /\ iteration \in {None, calls + 1}
  /\ Ask
  /\ Failed(iteration)
  /\ UNCHANGED <<client, baseline, left, called, calls, step, candidate, checked>>

(* next_step raises TypeError or ValueError, or decides neither to call a  *)
(* tool of the type nor to conclude.                                       *)
Undecided ==
  /\ phase = "deciding"
  /\ Ask
  /\ End("UNRESOLVED")
  /\ UNCHANGED <<client, baseline, left, called, calls, step, candidate, checked>>

(* A tool that was called with these arguments before is not called again: *)
(* the provider has to conclude.                                           *)
Repeat(t, a) ==
  /\ phase = "deciding" /\ <<t, a>> \in called /\ t \in Tool
  /\ Ask
  /\ phase' = "finishing"
  /\ UNCHANGED <<client, baseline, left, called, calls, step, candidate, checked, outcome>>

(* Mutant: a repeated call of the loop is not counted as a step.           *)
InvokeFree(t, a) ==
  /\ phase = "deciding" /\ <<t, a>> \notin called
  /\ Ask
  /\ called' = called \cup {<<t, a>>}
  /\ calls' = calls + 1
  /\ UNCHANGED <<client, baseline, phase, left, step, candidate, checked, outcome>>

(* The tool answers. The loop is over after Steps of them.                 *)
Invoke(t, a) ==
  /\ phase = "deciding" /\ <<t, a>> \notin called
  /\ Ask
  /\ called' = called \cup {<<t, a>>}
  /\ calls' = calls + 1
  /\ step' = step + 1
  /\ IF step' = Steps THEN End("UNRESOLVED") ELSE UNCHANGED <<phase, outcome>>
  /\ UNCHANGED <<client, baseline, left, candidate, checked>>

(* The tool raises ValueError, as it does of arguments it does not know,   *)
(* and a SKIPPED call is recorded; ToolCall takes an object only.          *)
Refuse(t, a) ==
  /\ phase = "deciding" /\ <<t, a>> \notin called
  /\ Ask
  /\ IF a = NotAnObject
     THEN End("raised") /\ UNCHANGED calls
     ELSE End("UNRESOLVED") /\ calls' = calls + 1
  /\ UNCHANGED <<client, baseline, left, called, step, candidate, checked>>

-----------------------------------------------------------------------------
(* A final decision: a candidate with a status, or one that the contract   *)
(* refuses ("invalid"), that _normalize_provider_candidate cannot look up  *)
(* ("odd", TypeError) or cannot read ("stray", AttributeError).            *)
Conclusion == Status \cup {"invalid", "odd", "stray"}

Accept(status) == phase' = "verifying" /\ candidate' = status /\ UNCHANGED outcome

Conclude(c) ==
  /\ phase = "deciding"
  /\ Ask
  /\ \/ c \in Status /\ Accept(c)
     \/ c = "invalid" /\ phase' = "repairing" /\ UNCHANGED <<candidate, outcome>>
     \/ c \in {"odd", "stray"} /\ End("raised") /\ UNCHANGED candidate
  /\ UNCHANGED <<client, baseline, left, called, calls, step, checked>>

(* The one repair: any other decision or failure counts as an invalid one. *)
Repair(c) ==
  /\ phase = "repairing"
  /\ Ask
  /\ \/ c \in Status /\ Accept(c)
     \/ c = "stray" /\ End("raised") /\ UNCHANGED candidate
     \/ c \in {"invalid", "odd"} /\ Failed(calls + 1) /\ UNCHANGED candidate
  /\ UNCHANGED <<client, baseline, left, called, calls, step, checked>>

(* The answer after a repeated call; nothing repairs it.                   *)
Finish(c) ==
  /\ phase = "finishing"
  /\ Ask
  /\ \/ c \in Status /\ Accept(c)
     \/ c = "invalid" /\ Failed(calls + 1) /\ UNCHANGED candidate
     \/ c \in {"odd", "stray"} /\ End("raised") /\ UNCHANGED candidate
  /\ UNCHANGED <<client, baseline, left, called, calls, step, checked>>

(* Mutant: the loop goes on.                                               *)
FinishOtherwiseGoesOn ==
  /\ phase = "finishing"
  /\ Ask
  /\ phase' = "deciding"
  /\ UNCHANGED <<client, baseline, left, called, calls, step, candidate, checked, outcome>>

(* It is another tool call.                                                *)
FinishOtherwise ==
  /\ phase = "finishing"
  /\ Ask
  /\ End("UNRESOLVED")
  /\ UNCHANGED <<client, baseline, left, called, calls, step, candidate, checked>>

-----------------------------------------------------------------------------
(* Clients without next_step: at most Steps tools of their choice, then a  *)
(* conclusion, asked for twice. A ValueError leads to an UNRESOLVED        *)
(* candidate, which is verified like the others.                           *)
Select(t) ==
  /\ phase = "selecting" /\ calls < Steps
  /\ called' = called \cup {<<t, Empty>>}
  /\ calls' = calls + 1
  /\ UNCHANGED <<client, baseline, phase, left, step, asked, candidate, checked, outcome>>

Selected ==
  /\ phase = "selecting"
  /\ phase' = "concluding"
  /\ UNCHANGED <<client, baseline, left, called, calls, step, asked, candidate, checked, outcome>>

LegacyUnavailable ==
  /\ phase \in {"selecting", "concluding"}
  /\ Failed(None)
  /\ UNCHANGED <<client, baseline, left, called, calls, step, asked, candidate, checked>>

LegacyConclude(c) ==
  /\ \/ phase = "concluding" /\ c # "stray"
     \/ phase = "selecting" /\ c = "odd"
  /\ IF c = "invalid" /\ step = 0
     THEN step' = 1 /\ UNCHANGED <<phase, candidate, outcome>>
     ELSE Accept(IF c \in Status THEN c ELSE "UNRESOLVED") /\ UNCHANGED step
  /\ UNCHANGED <<client, baseline, left, called, calls, asked, checked>>

-----------------------------------------------------------------------------
(* The response of a verified candidate. The issues are added to its       *)
(* missing_evidence, and a response has at most twenty of these.           *)
Respond(status, verdict) ==
  \/ verdict = "clean" /\ End(status)
  \/ verdict = "issues" /\ End("UNRESOLVED")
  \/ verdict = "too many" /\ End("raised")

(* verify_candidate. A provider that is not the stub corrects a candidate  *)
(* with issues.                                                            *)
Verify(verdict) ==
  /\ phase = "verifying"
  /\ checked' = verdict
  /\ IF verdict # "clean" /\ client = "live"
     THEN phase' = "correcting" /\ UNCHANGED outcome
     ELSE Respond(candidate, verdict)
  /\ UNCHANGED <<client, baseline, left, called, calls, step, asked, candidate>>

(* Mutant: the corrected candidate is not verified.                        *)
CorrectUnverified(c, verdict) ==
  /\ phase = "correcting"
  /\ Ask
  /\ IF c \in Status
     THEN candidate' = c /\ UNCHANGED checked /\ Respond(c, "clean")
     ELSE UNCHANGED <<candidate, checked>> /\ Respond(candidate, checked)
  /\ UNCHANGED <<client, baseline, left, called, calls, step>>

(* The correction: a valid conclusion is verified in place of the first,   *)
(* for better or worse; otherwise the first verdict stands.                *)
Correct(c, verdict) ==
  /\ phase = "correcting"
  /\ Ask
  /\ \/ c \in Status /\ candidate' = c /\ checked' = verdict /\ Respond(c, verdict)
     \/ c = "stray" /\ End("raised") /\ UNCHANGED <<candidate, checked>>
     \/ /\ c \in {"invalid", "odd"}
        /\ Respond(candidate, checked) /\ UNCHANGED <<candidate, checked>>
  /\ UNCHANGED <<client, baseline, left, called, calls, step>>

-----------------------------------------------------------------------------
Next ==
  \/ \E t \in baseline : Collect(t)
  \/ CollectRefused
  \/ \E iteration \in {None, calls + 1} : Unavailable(iteration)
  \/ Undecided
  \/ \E t \in Tool, a \in Arguments : Repeat(t, a) \/ Invoke(t, a)
  \/ \E t \in Tool, a \in Arguments \cup {NotAnObject} : Refuse(t, a)
  \/ \E c \in Conclusion : Conclude(c) \/ Repair(c) \/ Finish(c) \/ LegacyConclude(c)
  \/ FinishOtherwise
  \/ \E t \in Tool : Select(t)
  \/ Selected \/ LegacyUnavailable
  \/ \E verdict \in Verdict : Verify(verdict)
  \/ \E c \in Conclusion, verdict \in Verdict : Correct(c, verdict)

(* Tools read the lifecycle in memory, and every post of a provider has a  *)
(* timeout: the investigation goes on whatever they answer.                *)
Spec == Init /\ [][Next]_vars /\ WF_vars(Next)

-----------------------------------------------------------------------------
(* "Ambiguity requires comparison, even when a provider thinks the         *)
(* exception label alone is enough to answer" (the comment of the loop):   *)
(* for these types no conclusion is accepted, verified or answered before  *)
(* every tool of the baseline has answered.                                *)
ComparisonIsCollected ==
  phase \in {"repairing", "finishing", "verifying", "correcting"} \/ outcome = "SUPPORTED" =>
    client = "legacy" \/ \A t \in baseline : <<t, Empty>> \in called

(* A response is SUPPORTED only when the candidate it gives is, the        *)
(* verifier had nothing against that very candidate, and no tool call of   *)
(* the loop was refused or made twice.                                     *)
SupportedIsVerified ==
  outcome = "SUPPORTED" =>
    /\ candidate = "SUPPORTED" /\ checked = "clean"
    /\ client = "legacy" \/ calls = Cardinality(called)

(* An investigation ends, whatever the provider answers.                   *)
Ends == <>(phase = "done")

-----------------------------------------------------------------------------
(* What the documents say and the code does not do.                        *)

(* docs/data_api.md:93: the service "validates the bounded plan and        *)
(* provider output against cited records and deterministic exception       *)
(* compatibility, and persists SUPPORTED, UNRESOLVED, or FAILED": an       *)
(* investigation that ends has one of the three.                           *)
EndsTyped == phase = "done" => outcome \in Status
=============================================================================
