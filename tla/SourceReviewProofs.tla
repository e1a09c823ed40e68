------------------------- MODULE SourceReviewProofs -------------------------
(***************************************************************************)
(* Theorems about SourceReview, for any workers, sources, names, contents, *)
(* types, fields and columns and any bound on the calls.                   *)
(*                                                                         *)
(* A call touches the sources it works on, and the set of sources when it  *)
(* uploads or deletes. As long as two calls never touched one of them at   *)
(* the same time, whatever a call has read of it is still true when the    *)
(* call writes: SourceSound and CallSound say what that is.                *)
(***************************************************************************)
EXTENDS SourceReview, TLAPS

(* What is known of a source on its own.                                   *)
SourceSound(s) ==
  /\ Ready(s) => Reviewed(s)
  /\ row[s].status \in {"MAPPING_REQUIRED", "READY"} => analysis[s] # None
  /\ analysis[s] # None => s \in stored /\ Present(s)

Fresh(s) == row[s].status \in {"unused", "UPLOADED", "deleted"} /\ analysis[s] = None

(* What a call knows of the source it works on.                            *)
OwnSound(c, s) ==
  /\ c.phase \in Uploading => Fresh(s)
  /\ c.phase \in {"profiling", "proposing", "editing", "retyping"} => ~ Ready(s)
  /\ c.phase \in {"proposing", "finishing", "covering", "checking", "confirming",
                  "reviewing", "promoting", "typing", "retyping"}
       => analysis[s] # None
  /\ c.phase \in {"covering", "checking", "confirming"}
       => analysis[s] = c.type /\ c.type \in Type
  /\ c.phase \in {"checking", "confirming"} => Covers(s, c.type)
  /\ c.phase = "confirming" => DOMAIN maps[s].of # {}

CallSound(c, s) ==
  /\ s \in c.todo \cup {c.drop} => ~ Ready(s)
  /\ s = c.source => OwnSound(c, s)

SourcesSound ==
  \A s \in Source \ contended :
    /\ SourceSound(s)
    /\ \A w \in Worker : CallSound(call[w], s)

(* Two calls that touch the same thing are on record.                      *)
Exclusive ==
  \A v, w \in Worker : v # w => Touched(call[v]) \cap Touched(call[w]) \subseteq contended

(* What the calls carry.                                                   *)
Carries(c) ==
  /\ c.phase # "idle" => c.source \in Source
  /\ c.phase \in Uploading \cup {"reusing", "starting", "profiling", "proposing"}
       => c.content \in Content
  /\ c.phase \in {"choosing", "editing"} => c.edit \in Edit
  /\ c.phase = "replacing" => c.drop \in Source
  /\ c.phase \notin Uploading => c.todo = {} /\ c.drop = None

Carried ==
  /\ \A w \in Worker : Carries(call[w])
  /\ \A s \in Sources : row[s].content \in Content

(* The counts of deletions, while the set of sources has one writer.       *)
CountSound(c) ==
  /\ c.phase = "replacing" => (c.last <=> Sources \subseteq {c.drop})
  /\ c.phase = "dropping" => (c.last <=> Sources \subseteq {c.source})

CountsSound ==
  contended = {} => /\ status = "DRAFT" <=> Sources = {}
                    /\ \A w \in Worker : CountSound(call[w])

IInv == TypeOK /\ Carried /\ OneSourcePerContent /\ Exclusive /\ SourcesSound /\ CountsSound

-----------------------------------------------------------------------------
(* Nothing of source s changes.                                            *)
Same(s) ==
  /\ row'[s] = row[s] /\ analysis'[s] = analysis[s] /\ maps'[s] = maps[s]
  /\ s \in stored' <=> s \in stored

Works(w, c) == Touched(call[w]) \cup Touched(c)

LEMMA NoneIsNoSource == None \notin Source /\ "table" \notin Source
  BY ReviewAssumption

LEMMA TouchedType ==
  ASSUME NEW c \in Call
  PROVE  Touched(c) \subseteq Source \cup {"table"}
  BY DEF Call, Touched

LEMMA TouchedSource ==
  ASSUME NEW c, NEW s \in Source
  PROVE  s \in Touched(c) <=> s \in {c.source, c.keep, c.drop} \cup c.todo
  BY NoneIsNoSource DEF Touched

LEMMA IdleCall == Idle \in Call /\ Touched(Idle) = {} /\ Carries(Idle)
  BY DEF Idle, Call, Touched, Phase, Kind, Carries, Uploading

(* What a call says of a source it does not touch is nothing.              *)
LEMMA UntouchedSound ==
  ASSUME NEW c, NEW s \in Source, s \notin Touched(c)
  PROVE  CallSound(c, s)
  BY TouchedSource DEF CallSound

LEMMA UntouchedSoundNext ==
  ASSUME NEW c, NEW s \in Source, s \notin Touched(c)
  PROVE  CallSound(c, s)'
  BY TouchedSource DEF CallSound

LEMMA GotoStep ==
  ASSUME TypeOK, Exclusive, NEW w \in Worker, NEW c \in Call, Goto(w, c)
  PROVE  /\ call' \in [Worker -> Call]
         /\ call'[w] = c
         /\ \A v \in Worker \ {w} : call'[v] = call[v]
         /\ contended \subseteq contended'
         /\ contended' \subseteq Source \cup {"table"}
         /\ \A v \in Worker \ {w} : Works(w, c) \cap Touched(call[v]) \subseteq contended'
         /\ Exclusive'
<1>1. call' \in [Worker -> Call] /\ call'[w] = c /\ \A v \in Worker \ {w} : call'[v] = call[v]
  BY DEF TypeOK, Goto
<1>2. contended \subseteq contended' /\ contended' \subseteq Source \cup {"table"}
  BY TouchedType DEF TypeOK, Goto
<1>3. ASSUME NEW v \in Worker \ {w}
      PROVE  Works(w, c) \cap Touched(call[v]) \subseteq contended'
  <2>1. Touched(c) \cap Touched(call[v]) \subseteq contended'
    BY DEF Goto
  <2>2. Touched(call[w]) \cap Touched(call[v]) \subseteq contended
    BY DEF Exclusive
  <2> QED BY <2>1, <2>2, <1>2 DEF Works
<1>4. ASSUME NEW u \in Worker, NEW v \in Worker, u # v
      PROVE  Touched(call'[u]) \cap Touched(call'[v]) \subseteq contended'
  <2>1. CASE u = w
    BY <2>1, <1>1, <1>3, <1>4 DEF Works
  <2>2. CASE v = w
    BY <2>2, <1>1, <1>3, <1>4 DEF Works
  <2>3. CASE u # w /\ v # w
    BY <2>3, <1>1, <1>2, <1>4 DEF Exclusive
  <2> QED BY <2>1, <2>2, <2>3
<1>5. Exclusive'
  BY <1>4 DEF Exclusive, Touched, Uploading
<1> QED BY <1>1, <1>2, <1>3, <1>5

(* A call goes on as c. It keeps the invariant if it changes only sources  *)
(* it touches, and c and these are sound afterwards.                       *)
LEMMA Step ==
  ASSUME IInv, NEW w \in Worker, NEW c \in Call, Goto(w, c), Carries(c),
         begun' \in Nat, status' \in InvestigationStatus, stored' \subseteq Source,
         row' \in [Source -> Row], maps' \in [Source -> Maps],
         analysis' \in [Source -> Kind \cup {None}],
         \A s \in Source : Present(s)' => row'[s].content \in Content,
         OneSourcePerContent',
         \A s \in Source \ Works(w, c) : Same(s),
         \A s \in (Source \ contended') \cap Works(w, c) : SourceSound(s)' /\ CallSound(c, s)',
         Sources' = Sources \/ "table" \in Works(w, c),
         contended' = {} => (status' = "DRAFT" <=> Sources' = {}) /\ CountSound(c)'
  PROVE  IInv'
<1>1. /\ call' \in [Worker -> Call] /\ call'[w] = c
      /\ \A v \in Worker \ {w} : call'[v] = call[v]
      /\ contended \subseteq contended'
      /\ contended' \subseteq Source \cup {"table"}
      /\ \A v \in Worker \ {w} : Works(w, c) \cap Touched(call[v]) \subseteq contended'
      /\ Exclusive'
  BY GotoStep DEF IInv
<1>2. TypeOK'
  BY <1>1 DEF TypeOK
<1>3. Carried'
  <2>1. \A v \in Worker : Carries(call'[v])
    BY <1>1 DEF IInv, Carried
  <2> QED BY <2>1 DEF Carried, Sources, Carries, Uploading
<1>4. SourcesSound'
  <2> SUFFICES ASSUME NEW s \in Source \ contended'
               PROVE  SourceSound(s)' /\ \A v \in Worker : CallSound(call[v], s)'
    BY DEF SourcesSound
  <2>1. SourceSound(s) /\ \A v \in Worker : CallSound(call[v], s)
    BY <1>1 DEF IInv, SourcesSound
  <2>2. CASE s \in Works(w, c)
    <3>1. SourceSound(s)' /\ CallSound(c, s)'
      BY <2>2
    <3>1a. CallSound(call[w], s)'
      BY <3>1, <1>1 DEF CallSound, OwnSound
    <3>2. ASSUME NEW v \in Worker \ {w}
          PROVE  CallSound(call[v], s)'
      <4>1. s \notin Touched(call'[v])
        BY <2>2, <1>1
      <4> QED BY <4>1, TouchedSource DEF CallSound
    <3> QED BY <3>1, <3>1a, <3>2
  <2>3. CASE s \notin Works(w, c)
    <3>1. Same(s)
      BY <2>3
    <3>2. SourceSound(s)'
      BY <3>1, <2>1 DEF Same, SourceSound, Ready, Present, Reviewed, Covers, Mapped
    <3>3. CallSound(call[w], s)'
      <4>1. s \notin Touched(call'[w])
        BY <2>3, <1>1 DEF Works
      <4> QED BY <4>1, TouchedSource DEF CallSound
    <3>4. ASSUME NEW v \in Worker \ {w}
          PROVE  CallSound(call[v], s)'
      <4>1. CallSound(call[v], s) /\ call'[v] = call[v]
        BY <2>1, <1>1
      <4> QED BY <3>1, <4>1
           DEF Same, CallSound, OwnSound, Ready, Fresh, Covers, Mapped
    <3> QED BY <3>2, <3>3, <3>4
  <2> QED BY <2>2, <2>3
<1>5. CountsSound'
  <2> SUFFICES ASSUME contended' = {}
               PROVE  /\ status' = "DRAFT" <=> Sources' = {}
                      /\ \A v \in Worker : CountSound(call[v])'
    BY DEF CountsSound
  <2>1. contended = {}
    BY <1>1
  <2>2. ASSUME NEW v \in Worker \ {w}
        PROVE  CountSound(call[v])'
    <3>1. CountSound(call[v]) /\ call'[v] = call[v]
      BY <2>1, <1>1 DEF IInv, CountsSound
    <3>2. CASE Sources' = Sources
      BY <3>1, <3>2 DEF CountSound
    <3>3. CASE "table" \in Works(w, c)
      <4>1. "table" \notin Touched(call[v])
        BY <3>3, <1>1
      <4> QED BY <3>1, <4>1 DEF CountSound, Touched, Uploading
    <3> QED BY <3>2, <3>3
  <2>3. CountSound(call[w])'
    BY <1>1
  <2> QED BY <2>2, <2>3
<1> QED BY <1>1, <1>2, <1>3, <1>4, <1>5 DEF IInv

(* A step that only reads.                                                 *)
LEMMA ReadingStep ==
  ASSUME IInv, NEW w \in Worker, NEW c \in Call, Goto(w, c), Carries(c),
         begun' \in Nat, UNCHANGED <<tables, stored>>,
         \A s \in Source \ contended' : CallSound(c, s),
         contended' = {} => CountSound(c)
  PROVE  IInv'
<1>1. /\ row' = row /\ analysis' = analysis /\ maps' = maps /\ status' = status
      /\ stored' = stored
  BY DEF tables
<1>2. contended \subseteq contended'
  BY GotoStep DEF IInv
<1>3. Sources' = Sources /\ OneSourcePerContent'
  BY <1>1 DEF IInv, OneSourcePerContent, Sources, Present
<1>4. \A s \in Source : Present(s)' => row'[s].content \in Content
  BY <1>1 DEF IInv, Carried, Sources, Present
<1>5. \A s \in Source : Same(s)
  BY <1>1 DEF Same
<1>6. ASSUME NEW s \in Source \ contended'
      PROVE  SourceSound(s)' /\ CallSound(c, s)'
  <2>1. SourceSound(s) /\ CallSound(c, s)
    BY <1>2 DEF IInv, SourcesSound
  <2> QED BY <1>1, <2>1
       DEF SourceSound, Ready, Reviewed, Present, Covers, Mapped, CallSound, OwnSound, Fresh
<1>7. contended' = {} => (status' = "DRAFT" <=> Sources' = {}) /\ CountSound(c)'
  BY <1>1, <1>2, <1>3 DEF IInv, CountsSound, CountSound
<1>8. /\ status' \in InvestigationStatus /\ stored' \subseteq Source /\ row' \in [Source -> Row]
      /\ maps' \in [Source -> Maps] /\ analysis' \in [Source -> Kind \cup {None}]
  BY <1>1 DEF IInv, TypeOK
<1> QED BY <1>3, <1>4, <1>5, <1>6, <1>7, <1>8, Step

(* A call ends, having changed nothing in its last step.                   *)
LEMMA ReturnStep ==
  ASSUME IInv, NEW w \in Worker, Return(w), UNCHANGED <<tables, stored, begun>>
  PROVE  IInv'
<1>1. \A s \in Source : CallSound(Idle, s)
  BY IdleCall, UntouchedSound
<1>2. CountSound(Idle)
  BY DEF CountSound, Idle
<1>3. begun' \in Nat
  BY DEF IInv, TypeOK
<1> QED BY <1>1, <1>2, <1>3, IdleCall, ReadingStep DEF Return

(* What is known of a call whose sources no other call touched.            *)
LEMMA Known ==
  ASSUME IInv, NEW w \in Worker, NEW c \in Call, Goto(w, c)
  PROVE  /\ contended \subseteq contended'
         /\ call[w] \in Call /\ Carries(call[w])
         /\ \A s \in Source \ contended' : SourceSound(s) /\ CallSound(call[w], s)
         /\ contended' = {} => CountSound(call[w]) /\ (status = "DRAFT" <=> Sources = {})
<1>1. contended \subseteq contended'
  BY GotoStep DEF IInv
<1> QED BY <1>1 DEF IInv, TypeOK, Carried, SourcesSound, CountsSound

LEMMA EnterCall ==
  ASSUME NEW c \in Call, NEW phase \in Phase
  PROVE  [c EXCEPT !.phase = phase] \in Call
  BY DEF Call

(* A call that only reads goes on, with what it carries.                   *)
LEMMA EnterStep ==
  ASSUME IInv, NEW w \in Worker, NEW phase \in Phase, Enter(w, phase),
         UNCHANGED <<tables, stored, begun>>,
         NEW c, c = [call[w] EXCEPT !.phase = phase],
         Carries(c),
         \A s \in Source \ contended' :
           s = c.source /\ SourceSound(s) /\ OwnSound(call[w], s) => OwnSound(c, s),
         contended' = {} /\ CountSound(call[w]) => CountSound(c)
  PROVE  IInv'
<1>1. call[w] \in Call
  BY DEF IInv, TypeOK
<1>2. c \in Call /\ Goto(w, c)
  BY <1>1, EnterCall DEF Enter
<1>3. c.source = call[w].source /\ c.todo = call[w].todo /\ c.drop = call[w].drop
  BY <1>1 DEF Call
<1>4. \A s \in Source \ contended' : CallSound(c, s)
  BY <1>2, <1>3, Known DEF CallSound
<1>5. contended' = {} => CountSound(c)
  BY <1>2, Known
<1>6. begun' \in Nat
  BY DEF IInv, TypeOK
<1> QED BY <1>2, <1>4, <1>5, <1>6, ReadingStep

-----------------------------------------------------------------------------
(* Uploads.                                                                *)
LEMMA UploadSound ==
  ASSUME IInv, NEW w \in Worker, NEW s \in Source, NEW n \in Name, NEW x \in Content,
         Upload(w, s, n, x)
  PROVE  IInv'
<1> DEFINE c == [Idle EXCEPT !.phase = "matching", !.source = s, !.name = n, !.content = x]
<1>1. c \in Call /\ Carries(c) /\ c.source = s /\ c.phase = "matching" /\ c.todo = {}
      /\ c.drop = None
  BY DEF Idle, Call, Phase, Kind, Carries, Uploading
<1>2. Goto(w, c) /\ begun' = begun + 1
  BY DEF Upload, Begin
<1>3. /\ row' = row /\ analysis' = analysis /\ maps' = maps /\ status' = status
      /\ stored' = stored \cup {s} /\ row[s] = Unused
  BY DEF Upload, tables
<1> HIDE DEF c
<1>4. contended \subseteq contended'
  BY <1>1, <1>2, Known
<1>5. s \in Works(w, c) /\ "table" \in Works(w, c)
  BY <1>1, TouchedSource DEF Works, Touched, Uploading
<1>6. ASSUME NEW t \in Source \ contended'
      PROVE  SourceSound(t)' /\ CallSound(c, t)'
  <2>1. SourceSound(t)
    BY <1>1, <1>2, Known
  <2>2. SourceSound(t)'
    BY <1>3, <2>1 DEF SourceSound, Ready, Reviewed, Present, Covers, Mapped
  <2>3. t = s => Fresh(t)' /\ ~ Ready(t)'
    BY <1>3, <2>1 DEF SourceSound, Fresh, Unused, Present, Ready
  <2>4. CallSound(c, t)'
    BY <1>1, <2>3, NoneIsNoSource DEF CallSound, OwnSound
  <2> QED BY <2>2, <2>4
<1>7. \A t \in Source \ Works(w, c) : Same(t)
  BY <1>3, <1>5 DEF Same
<1>8. Sources' = Sources /\ OneSourcePerContent'
  BY <1>3 DEF IInv, OneSourcePerContent, Sources, Present
<1>9. \A t \in Source : Present(t)' => row'[t].content \in Content
  BY <1>3 DEF IInv, Carried, Sources, Present
<1>10. contended' = {} => (status' = "DRAFT" <=> Sources' = {}) /\ CountSound(c)'
  BY <1>1, <1>3, <1>4, <1>8 DEF IInv, CountsSound, CountSound
<1>11. /\ status' \in InvestigationStatus /\ stored' \subseteq Source /\ row' \in [Source -> Row]
       /\ maps' \in [Source -> Maps] /\ analysis' \in [Source -> Kind \cup {None}]
       /\ begun' \in Nat
  BY <1>2, <1>3 DEF IInv, TypeOK
<1> QED BY <1>1, <1>2, <1>6, <1>7, <1>8, <1>9, <1>10, <1>11, Step

LEMMA MatchNameSound ==
  ASSUME IInv, NEW w \in Worker, MatchName(w)
  PROVE  IInv'
<1> DEFINE same == {s \in Sources : row[s].name = call[w].name}
           unready == {s \in same : ~ Ready(s)}
           found(k) == [call[w] EXCEPT !.phase = "comparing", !.keep = k, !.todo = unready]
           hashed == [call[w] EXCEPT !.phase = "hashing", !.todo = unready]
<1>1. call[w] \in Call /\ Carries(call[w]) /\ call[w].phase = "matching" /\ begun' \in Nat
  BY DEF IInv, TypeOK, Carried, MatchName, At
<1>2. UNCHANGED <<tables, stored>>
  BY DEF MatchName
<1>3. unready \in SUBSET Source /\ same \in SUBSET Source
  BY DEF Sources
<1>4. ASSUME NEW c \in Call, Goto(w, c), c.phase \in {"comparing", "hashing"},
             c.todo = unready, c.source = call[w].source, c.content = call[w].content,
             c.drop = call[w].drop
      PROVE  IInv'
  <2>1. ASSUME NEW s \in Source \ contended'
        PROVE  CallSound(c, s)
    <3>1. CallSound(call[w], s)
      BY <1>4, Known
    <3> QED BY <1>1, <1>4, <3>1 DEF CallSound, OwnSound, Uploading
  <2>2. Carries(c) /\ CountSound(c)
    BY <1>1, <1>4 DEF Carries, Uploading, CountSound
  <2> QED BY <1>1, <1>2, <1>4, <2>1, <2>2, ReadingStep
<1>5. ASSUME NEW k \in same \ unready, Goto(w, found(k))
      PROVE  IInv'
  <2>1. found(k) \in Call
    BY <1>1, <1>3 DEF Call, Phase
  <2> HIDE DEF unready
  <2>2. /\ found(k).phase = "comparing" /\ found(k).todo = unready
        /\ found(k).source = call[w].source /\ found(k).content = call[w].content
        /\ found(k).drop = call[w].drop
    BY <1>1 DEF Call
  <2> HIDE DEF found
  <2> QED BY <1>4, <1>5, <2>1, <2>2
<1>6. ASSUME Goto(w, hashed)
      PROVE  IInv'
  <2>1. hashed \in Call
    BY <1>1, <1>3 DEF Call, Phase
  <2> HIDE DEF unready
  <2>2. /\ hashed.phase = "hashing" /\ hashed.todo = unready
        /\ hashed.source = call[w].source /\ hashed.content = call[w].content
        /\ hashed.drop = call[w].drop
    BY <1>1 DEF Call
  <2> HIDE DEF hashed
  <2> QED BY <1>4, <1>6, <2>1, <2>2
<1> QED BY <1>5, <1>6 DEF MatchName

LEMMA Entered ==
  ASSUME NEW c \in Call, NEW phase \in Phase
  PROVE  LET d == [c EXCEPT !.phase = phase]
         IN  /\ d \in Call /\ d.phase = phase /\ d.source = c.source /\ d.content = c.content
             /\ d.type = c.type /\ d.edit = c.edit /\ d.id = c.id /\ d.todo = c.todo
             /\ d.drop = c.drop /\ d.keep = c.keep /\ d.last = c.last
  BY DEF Call

(* An upload enters a phase that asks for nothing new.                     *)
LEMMA UploadEnters ==
  ASSUME IInv, NEW w \in Worker, call[w].phase \in Uploading,
         NEW phase \in Uploading \ {"replacing"}, Enter(w, phase),
         UNCHANGED <<tables, stored, begun>>
  PROVE  IInv'
<1>1. call[w] \in Call /\ Carries(call[w])
  BY DEF IInv, TypeOK, Carried
<1>2. phase \in Phase
  BY DEF Uploading, Phase
<1>3. PICK c : c = [call[w] EXCEPT !.phase = phase]
  OBVIOUS
<1>4. /\ c.phase = phase /\ c.source = call[w].source /\ c.content = call[w].content
      /\ c.edit = call[w].edit
  BY <1>1, <1>2, <1>3, Entered
<1>5. Carries(c) /\ CountSound(c)
  BY <1>1, <1>4 DEF Carries, Uploading, CountSound
<1>6. ASSUME NEW s, OwnSound(call[w], s)
      PROVE  OwnSound(c, s)
  BY <1>4, <1>6 DEF OwnSound, Uploading
<1> QED BY <1>2, <1>3, <1>5, <1>6, EnterStep

LEMMA CompareSound ==
  ASSUME IInv, NEW w \in Worker, Compare(w)
  PROVE  IInv'
<1>1. call[w].phase \in Uploading
  BY DEF Compare, At, Uploading
<1>2. \E phase \in Uploading \ {"replacing"} : Enter(w, phase)
  BY DEF Compare, Uploading
<1> QED BY <1>1, <1>2, UploadEnters DEF Compare

LEMMA ClearedSound ==
  ASSUME IInv, NEW w \in Worker, Cleared(w)
  PROVE  IInv'
<1>1. call[w].phase \in Uploading
  BY DEF Cleared, At, Uploading
<1>2. \E phase \in Uploading \ {"replacing"} : Enter(w, phase)
  BY DEF Cleared, Uploading
<1> QED BY <1>1, <1>2, UploadEnters DEF Cleared

(* An upload ends and removes the file of its source, which has no         *)
(* analysis.                                                               *)
LEMMA UploadEnds ==
  ASSUME IInv, NEW w \in Worker, call[w].phase \in Uploading, Return(w),
         stored' = stored \ {call[w].source}, UNCHANGED <<tables, begun>>
  PROVE  IInv'
<1>1. Idle \in Call /\ Carries(Idle) /\ Goto(w, Idle)
  BY IdleCall DEF Return
<1>2. row' = row /\ analysis' = analysis /\ maps' = maps /\ status' = status /\ begun' = begun
  BY DEF tables
<1>3. contended \subseteq contended' /\ Carries(call[w])
  BY <1>1, Known
<1>4. call[w].source \in Source
  BY <1>3 DEF Carries, Uploading
<1>5. call[w].source \in Works(w, Idle) /\ "table" \in Works(w, Idle)
  BY <1>4, TouchedSource DEF Works, Touched
<1>6. ASSUME NEW t \in Source \ contended'
      PROVE  SourceSound(t)' /\ CallSound(Idle, t)'
  <2>1. SourceSound(t) /\ CallSound(call[w], t)
    BY <1>1, Known
  <2>2. t = call[w].source => Fresh(t)
    BY <2>1 DEF CallSound, OwnSound
  <2>3. SourceSound(t)'
    BY <1>2, <2>1, <2>2 DEF SourceSound, Ready, Reviewed, Present, Covers, Mapped, Fresh
  <2>4. CallSound(Idle, t)'
    BY IdleCall, UntouchedSoundNext
  <2> QED BY <2>3, <2>4
<1>7. \A t \in Source \ Works(w, Idle) : Same(t)
  BY <1>2, <1>5 DEF Same
<1>8. Sources' = Sources /\ OneSourcePerContent'
  BY <1>2 DEF IInv, OneSourcePerContent, Sources, Present
<1>9. \A t \in Source : Present(t)' => row'[t].content \in Content
  BY <1>2 DEF IInv, Carried, Sources, Present
<1>10. contended' = {} => (status' = "DRAFT" <=> Sources' = {}) /\ CountSound(Idle)'
  BY <1>2, <1>3, <1>8 DEF IInv, CountsSound, CountSound, Idle
<1>11. /\ status' \in InvestigationStatus /\ stored' \subseteq Source /\ row' \in [Source -> Row]
       /\ maps' \in [Source -> Maps] /\ analysis' \in [Source -> Kind \cup {None}]
       /\ begun' \in Nat
  BY <1>2 DEF IInv, TypeOK
<1> QED BY <1>1, <1>6, <1>7, <1>8, <1>9, <1>10, <1>11, Step

LEMMA DiscardSound ==
  ASSUME IInv, NEW w \in Worker, Discard(w)
  PROVE  IInv'
  BY UploadEnds DEF Discard, Uploading

LEMMA UploadRaisesSound ==
  ASSUME IInv, NEW w \in Worker, UploadRaises(w)
  PROVE  IInv'
  BY UploadEnds DEF UploadRaises

LEMMA FindContentSound ==
  ASSUME IInv, NEW w \in Worker, FindContent(w)
  PROVE  IInv'
<1> DEFINE twins == {s \in Sources : row[s].content = call[w].content}
           kept(s) == [call[w] EXCEPT !.phase = "clearing", !.keep = s]
           taken(s) == [call[w] EXCEPT !.phase = "clearing", !.todo = @ \cup {s}]
<1>1. call[w] \in Call /\ Carries(call[w]) /\ call[w].phase = "hashing" /\ begun' \in Nat
  BY DEF IInv, TypeOK, Carried, FindContent, At
<1>2. UNCHANGED <<tables, stored>>
  BY DEF FindContent
<1>3. ASSUME NEW c \in Call, Goto(w, c), c.phase = "clearing",
             NEW s \in Source, c.todo \subseteq call[w].todo \cup {s},
             s \in c.todo \ call[w].todo => ~ Ready(s),
             c.source = call[w].source, c.content = call[w].content, c.drop = call[w].drop
      PROVE  IInv'
  <2>1. ASSUME NEW t \in Source \ contended'
        PROVE  CallSound(c, t)
    <3>1. CallSound(call[w], t)
      BY <1>3, Known
    <3> QED BY <1>1, <1>3, <3>1 DEF CallSound, OwnSound, Uploading
  <2>2. Carries(c) /\ CountSound(c)
    BY <1>1, <1>3 DEF Carries, Uploading, CountSound
  <2> QED BY <1>1, <1>2, <1>3, <2>1, <2>2, ReadingStep
<1>4. ASSUME NEW s \in twins, Ready(s), Goto(w, kept(s))
      PROVE  IInv'
  <2>1. s \in Source
    BY DEF Sources
  <2>2. /\ kept(s) \in Call /\ kept(s).phase = "clearing" /\ kept(s).todo = call[w].todo
        /\ kept(s).source = call[w].source /\ kept(s).content = call[w].content
        /\ kept(s).drop = call[w].drop
    BY <1>1, <2>1, ZenonT(60) DEF Call, Phase
  <2> HIDE DEF kept
  <2> QED BY <1>3, <1>4, <2>1, <2>2
<1>5. ASSUME NEW s \in twins, ~ Ready(s), Goto(w, taken(s))
      PROVE  IInv'
  <2>1. s \in Source
    BY DEF Sources
  <2>2. /\ taken(s) \in Call /\ taken(s).phase = "clearing"
        /\ taken(s).todo = call[w].todo \cup {s}
        /\ taken(s).source = call[w].source /\ taken(s).content = call[w].content
        /\ taken(s).drop = call[w].drop
    BY <1>1, <2>1 DEF Call, Phase
  <2> HIDE DEF taken
  <2> QED BY <1>3, <1>5, <2>1, <2>2
<1>6. ASSUME Enter(w, "clearing")
      PROVE  IInv'
  BY <1>1, <1>6, UploadEnters DEF FindContent, Uploading
<1> QED BY <1>4, <1>5, <1>6 DEF FindContent

LEMMA PickUnreadySound ==
  ASSUME IInv, NEW w \in Worker, PickUnready(w)
  PROVE  IInv'
<1>1. call[w] \in Call /\ Carries(call[w]) /\ call[w].phase = "clearing" /\ begun' \in Nat
  BY DEF IInv, TypeOK, Carried, PickUnready, At
<1>2. PICK s \in call[w].todo \ {call[w].keep} :
        Goto(w, [call[w] EXCEPT !.phase = "replacing", !.drop = s, !.todo = @ \ {s},
                                !.last = (Sources \subseteq {s})])
  BY DEF PickUnready
<1>3. PICK c : c = [call[w] EXCEPT !.phase = "replacing", !.drop = s, !.todo = @ \ {s},
                                   !.last = (Sources \subseteq {s})]
  OBVIOUS
<1>4. s \in Source
  BY <1>1 DEF Call
<1>5. (Sources \subseteq {s}) \in BOOLEAN
  OBVIOUS
<1>6. /\ c \in Call /\ c.phase = "replacing" /\ c.drop = s /\ c.todo = call[w].todo \ {s}
      /\ c.source = call[w].source /\ c.content = call[w].content
  BY <1>1, <1>3, <1>4, <1>5 DEF Call, Phase
<1>7. c.last <=> Sources \subseteq {s}
  BY <1>1, <1>3, <1>5 DEF Call
<1>8. Goto(w, c)
  BY <1>2, <1>3
<1>9. ASSUME NEW t \in Source \ contended'
      PROVE  CallSound(c, t)
  <2>1. CallSound(call[w], t)
    BY <1>6, <1>8, Known
  <2> QED BY <1>1, <1>2, <1>6, <2>1 DEF CallSound, OwnSound, Uploading
<1>10. Carries(c) /\ CountSound(c)
  BY <1>1, <1>4, <1>6, <1>7 DEF Carries, Uploading, CountSound
<1>11. UNCHANGED <<tables, stored>>
  BY DEF PickUnready
<1> QED BY <1>1, <1>6, <1>8, <1>9, <1>10, <1>11, ReadingStep

(* A source goes for good, and the investigation is a DRAFT again when it  *)
(* was the last.                                                           *)
LEMMA DropStep ==
  ASSUME IInv, NEW w \in Worker, NEW c \in Call, Goto(w, c), Carries(c),
         NEW s \in Source, Present(s), NEW last, Drop(s, last),
         s \in Touched(call[w]), "table" \in Touched(call[w]),
         contended' = {} => (last <=> Sources \subseteq {s}),
         c.phase \in {"clearing", "idle"}, c.drop = None, c.todo \subseteq call[w].todo,
         c.phase = "clearing" => c.source = call[w].source /\ call[w].phase \in Uploading,
         c.phase = "idle" => c.source = None,
         begun' = begun
  PROVE  IInv'
<1>1. /\ row' = [row EXCEPT ![s] = Deleted]
      /\ analysis' = [analysis EXCEPT ![s] = None] /\ maps' = [maps EXCEPT ![s] = NoMaps]
      /\ status' = (IF last THEN "DRAFT" ELSE status)
      /\ stored' \in {stored, stored \ {s}}
  BY DEF Drop
<1>2. TypeOK /\ Carried /\ OneSourcePerContent
  BY DEF IInv
<1>3. Deleted \in Row /\ NoMaps \in Maps
  BY DEF Row, Deleted, Maps, NoMaps
<1>4. /\ status' \in InvestigationStatus /\ stored' \subseteq Source /\ row' \in [Source -> Row]
      /\ maps' \in [Source -> Maps] /\ analysis' \in [Source -> Kind \cup {None}]
      /\ begun' \in Nat
  BY <1>1, <1>2, <1>3 DEF TypeOK, InvestigationStatus
<1>5. Sources' = Sources \ {s}
  BY <1>1, <1>2 DEF Sources, Present, Deleted, TypeOK
<1>6. \A t \in Source \ {s} : Same(t) /\ row'[t] = row[t]
  BY <1>1, <1>2 DEF Same, TypeOK
<1>7. OneSourcePerContent'
  BY <1>2, <1>5, <1>6 DEF OneSourcePerContent, Sources
<1>8. \A t \in Source : Present(t)' => row'[t].content \in Content
  BY <1>2, <1>5, <1>6 DEF Carried, Sources
<1>9. s \in Works(w, c) /\ "table" \in Works(w, c)
  BY DEF Works
<1>10. ASSUME NEW t \in Source \ contended'
       PROVE  SourceSound(t)' /\ CallSound(c, t)'
  <2>1. SourceSound(t) /\ CallSound(call[w], t)
    BY Known
  <2>2. CASE t = s
    <3>1. ~ Ready(t)' /\ Fresh(t)' /\ SourceSound(t)'
      BY <1>1, <1>2, <2>2 DEF Ready, Deleted, Fresh, SourceSound, TypeOK
    <3> QED BY <3>1, NoneIsNoSource DEF CallSound, OwnSound, Uploading
  <2>3. CASE t # s
    <3>1. Same(t)
      BY <1>6, <2>3
    <3>2. SourceSound(t)'
      BY <2>1, <3>1 DEF Same, SourceSound, Ready, Reviewed, Present, Covers, Mapped
    <3>3. CallSound(c, t)'
      BY <2>1, <3>1, NoneIsNoSource
      DEF Same, CallSound, OwnSound, Ready, Fresh, Uploading
    <3> QED BY <3>2, <3>3
  <2> QED BY <2>2, <2>3
<1>11. contended' = {} => (status' = "DRAFT" <=> Sources' = {}) /\ CountSound(c)'
  <2> SUFFICES ASSUME contended' = {}
               PROVE  (status' = "DRAFT" <=> Sources' = {}) /\ CountSound(c)'
    OBVIOUS
  <2>1. status = "DRAFT" <=> Sources = {}
    BY Known
  <2>2. s \in Sources
    BY DEF Sources
  <2> QED BY <1>1, <1>5, <2>1, <2>2 DEF CountSound
<1> QED BY <1>4, <1>6, <1>7, <1>8, <1>9, <1>10, <1>11, Step

LEMMA RemoveUnreadySound ==
  ASSUME IInv, NEW w \in Worker, RemoveUnready(w)
  PROVE  IInv'
<1>1. call[w] \in Call /\ Carries(call[w]) /\ call[w].phase = "replacing" /\ begun' = begun
      /\ begun \in Nat
  BY DEF IInv, TypeOK, Carried, RemoveUnready, At
<1>2. PICK c : c = [call[w] EXCEPT !.phase = "clearing", !.drop = None, !.last = FALSE]
  OBVIOUS
<1>3. /\ c \in Call /\ c.phase = "clearing" /\ c.drop = None /\ c.todo = call[w].todo
      /\ c.source = call[w].source /\ c.content = call[w].content
  BY <1>1, <1>2 DEF Call, Phase
<1>4. Goto(w, c)
  BY <1>2 DEF RemoveUnready
<1>5. Carries(c) /\ CountSound(c)
  BY <1>1, <1>3 DEF Carries, Uploading, CountSound
<1>6. CASE Present(call[w].drop)
  <2>1. Drop(call[w].drop, call[w].last)
    BY <1>6 DEF RemoveUnready
  <2>2. call[w].drop \in Source
    BY <1>1 DEF Carries
  <2>3. contended' = {} => (call[w].last <=> Sources \subseteq {call[w].drop})
    BY <1>1, <1>3, <1>4, Known DEF CountSound
  <2>4. call[w].drop \in Touched(call[w]) /\ "table" \in Touched(call[w])
    BY <1>1, <2>2, TouchedSource DEF Touched, Uploading
  <2>5. call[w].phase \in Uploading
    BY <1>1 DEF Uploading
  <2> QED BY <1>1, <1>3, <1>4, <1>5, <1>6, <2>1, <2>2, <2>3, <2>4, <2>5, DropStep
<1>7. CASE ~ Present(call[w].drop)
  <2>1. UNCHANGED <<tables, stored>>
    BY <1>7 DEF RemoveUnready
  <2>2. ASSUME NEW t \in Source \ contended'
        PROVE  CallSound(c, t)
    <3>1. CallSound(call[w], t)
      BY <1>3, <1>4, Known
    <3> QED BY <1>1, <1>3, <3>1, NoneIsNoSource DEF CallSound, OwnSound, Uploading
  <2> QED BY <1>1, <1>3, <1>4, <1>5, <2>1, <2>2, ReadingStep
<1> QED BY <1>6, <1>7

LEMMA InsertSound ==
  ASSUME IInv, NEW w \in Worker, Insert(w)
  PROVE  IInv'
<1> DEFINE s == call[w].source
           new == [status |-> "UPLOADED", name |-> call[w].name, content |-> call[w].content]
           twin == \E x \in Sources : row[x].content = call[w].content
<1>1. call[w] \in Call /\ Carries(call[w]) /\ call[w].phase = "inserting"
      /\ stored' = stored /\ begun' = begun /\ TypeOK /\ Carried /\ OneSourcePerContent
  BY DEF IInv, TypeOK, Carried, Insert, At
<1>2. s \in Source /\ call[w].content \in Content
  BY <1>1 DEF Carries, Uploading
<1>3. CASE twin
  <2>1. Enter(w, "discarding") /\ UNCHANGED <<tables, stored, begun>>
    BY <1>1, <1>3 DEF Insert
  <2> QED BY <1>1, <2>1, UploadEnters DEF Uploading
<1>4. CASE ~ twin
  <2>1. /\ row' = [row EXCEPT ![s] = new]
        /\ status' = (IF status = "DRAFT" THEN "SOURCES_UPLOADED" ELSE status)
        /\ Enter(w, "answering") /\ analysis' = analysis /\ maps' = maps
    BY <1>4 DEF Insert
  <2>2. PICK c : c = [call[w] EXCEPT !.phase = "answering"]
    OBVIOUS
  <2>3. /\ c \in Call /\ c.phase = "answering" /\ c.source = s /\ c.content = call[w].content
        /\ c.todo = call[w].todo /\ c.drop = call[w].drop
    BY <1>1, <2>2 DEF Call, Phase
  <2>4. Goto(w, c)
    BY <2>1, <2>2 DEF Enter
  <2>5. Carries(c) /\ CountSound(c)'
    BY <1>2, <2>3 DEF Carries, Uploading, CountSound
  <2>6. new \in Row
    BY <1>1 DEF Row, Call
  <2>7. /\ status' \in InvestigationStatus /\ stored' \subseteq Source /\ row' \in [Source -> Row]
        /\ maps' \in [Source -> Maps] /\ analysis' \in [Source -> Kind \cup {None}]
        /\ begun' \in Nat
    BY <1>1, <2>1, <2>6 DEF TypeOK, InvestigationStatus
  <2>8. row'[s] = new /\ \A t \in Source \ {s} : row'[t] = row[t] /\ Same(t)
    BY <1>1, <1>2, <2>1 DEF TypeOK, Same
  <2>9. Sources' = Sources \cup {s}
    BY <1>2, <2>8 DEF Sources, Present
  <2>10. OneSourcePerContent'
    BY <1>1, <1>4, <2>8, <2>9 DEF OneSourcePerContent, Sources
  <2>11. \A t \in Source : Present(t)' => row'[t].content \in Content
    BY <1>1, <1>2, <2>8, <2>9 DEF Carried, Sources
  <2>12. s \in Works(w, c) /\ "table" \in Works(w, c)
    BY <1>2, <2>3, TouchedSource DEF Works, Touched, Uploading
  <2>13. ASSUME NEW t \in Source \ contended'
         PROVE  SourceSound(t)' /\ CallSound(c, t)'
    <3>1. SourceSound(t) /\ CallSound(call[w], t)
      BY <2>3, <2>4, Known
    <3>2. CASE t = s
      <4>1. Fresh(t)
        BY <1>1, <3>1, <3>2 DEF CallSound, OwnSound, Uploading
      <4>2. ~ Ready(t)' /\ Fresh(t)' /\ SourceSound(t)'
        BY <2>1, <2>8, <3>2, <4>1 DEF Ready, Fresh, SourceSound
      <4> QED BY <2>3, <4>2 DEF CallSound, OwnSound
    <3>3. CASE t # s
      <4>1. Same(t)
        BY <2>8, <3>3
      <4>2. SourceSound(t)'
        BY <3>1, <4>1 DEF Same, SourceSound, Ready, Reviewed, Present, Covers, Mapped
      <4>3. CallSound(c, t)'
        BY <2>3, <3>1, <3>3, <4>1 DEF Same, CallSound, Ready
      <4> QED BY <4>2, <4>3
    <3> QED BY <3>2, <3>3
  <2>14. contended' = {} => (status' = "DRAFT" <=> Sources' = {}) /\ CountSound(c)'
    BY <2>1, <2>5, <2>9
  <2> HIDE DEF s
  <2> QED BY <2>3, <2>4, <2>5, <2>7, <2>8, <2>10, <2>11, <2>12, <2>13, <2>14, Step
<1> QED BY <1>3, <1>4

LEMMA AnswerUploadSound ==
  ASSUME IInv, NEW w \in Worker, AnswerUpload(w)
  PROVE  IInv'
  BY ReturnStep DEF AnswerUpload

-----------------------------------------------------------------------------
(* Deletions.                                                              *)
LEMMA DeleteSound ==
  ASSUME IInv, NEW w \in Worker, NEW s \in Source, Delete(w, s)
  PROVE  IInv'
<1>1. PICK c : c = [Idle EXCEPT !.phase = "counting", !.source = s]
  OBVIOUS
<1>2. c \in Call /\ c.phase = "counting" /\ c.source = s /\ c.todo = {} /\ c.drop = None
  BY <1>1 DEF Idle, Call, Phase, Kind
<1>3. Goto(w, c) /\ begun' = begun + 1 /\ UNCHANGED <<tables, stored>>
  BY <1>1 DEF Delete, Begin
<1>4. Carries(c) /\ CountSound(c) /\ begun' \in Nat
  BY <1>2, <1>3 DEF Carries, Uploading, CountSound, IInv, TypeOK
<1>5. \A t \in Source : CallSound(c, t)
  BY <1>2, NoneIsNoSource DEF CallSound, OwnSound, Uploading
<1> QED BY <1>2, <1>3, <1>4, <1>5, ReadingStep

LEMMA CountOthersSound ==
  ASSUME IInv, NEW w \in Worker, CountOthers(w)
  PROVE  IInv'
<1>1. call[w] \in Call /\ Carries(call[w]) /\ call[w].phase = "counting" /\ begun' \in Nat
  BY DEF IInv, TypeOK, Carried, CountOthers, At
<1>2. PICK c : c = [call[w] EXCEPT !.phase = "dropping",
                                   !.last = (Sources \subseteq {call[w].source})]
  OBVIOUS
<1>3. (Sources \subseteq {call[w].source}) \in BOOLEAN
  OBVIOUS
<1>4. /\ c \in Call /\ c.phase = "dropping" /\ c.source = call[w].source
      /\ c.todo = call[w].todo /\ c.drop = call[w].drop
      /\ c.last <=> Sources \subseteq {call[w].source}
  BY <1>1, <1>2, <1>3, ZenonT(60) DEF Call, Phase
<1>5. Goto(w, c) /\ UNCHANGED <<tables, stored>>
  BY <1>2 DEF CountOthers
<1>6. Carries(c) /\ CountSound(c)
  BY <1>1, <1>4 DEF Carries, Uploading, CountSound
<1>7. \A t \in Source \ contended' : CallSound(c, t)
  BY <1>4, <1>5, Known DEF CallSound, OwnSound, Uploading
<1> QED BY <1>1, <1>4, <1>5, <1>6, <1>7, ReadingStep

LEMMA DropSourceSound ==
  ASSUME IInv, NEW w \in Worker, DropSource(w)
  PROVE  IInv'
<1>1. call[w] \in Call /\ Carries(call[w]) /\ call[w].phase = "dropping" /\ begun' = begun
  BY DEF IInv, TypeOK, Carried, DropSource, At
<1>2. Return(w)
  BY DEF DropSource
<1>3. CASE Present(call[w].source)
  <2>1. Drop(call[w].source, call[w].last)
    BY <1>3 DEF DropSource
  <2>2. call[w].source \in Source
    BY <1>1 DEF Carries
  <2>3. Goto(w, Idle) /\ Idle \in Call /\ Carries(Idle)
    BY <1>2, IdleCall DEF Return
  <2>4. Idle.phase = "idle" /\ Idle.source = None /\ Idle.drop = None /\ Idle.todo = {}
    BY DEF Idle
  <2>5. contended' = {} => (call[w].last <=> Sources \subseteq {call[w].source})
    BY <1>1, <2>3, Known DEF CountSound
  <2>6. call[w].source \in Touched(call[w]) /\ "table" \in Touched(call[w])
    BY <1>1, <2>2, TouchedSource DEF Touched, Uploading
  <2> QED BY <1>1, <1>3, <2>1, <2>2, <2>3, <2>4, <2>5, <2>6, DropStep
<1>4. CASE ~ Present(call[w].source)
  BY <1>1, <1>2, <1>4, ReturnStep DEF DropSource
<1> QED BY <1>3, <1>4

-----------------------------------------------------------------------------
(* Analysis and review.                                                    *)

(* A call writes to the source it works on, which stays where it is.       *)
LEMMA WritingStep ==
  ASSUME IInv, NEW w \in Worker, NEW c \in Call, Goto(w, c), Carries(c),
         NEW s \in Source, s = call[w].source, c.source \in {s, None},
         c.phase \notin Uploading \cup {"dropping"},
         status' \in InvestigationStatus, row' \in [Source -> Row],
         maps' \in [Source -> Maps], analysis' \in [Source -> Kind \cup {None}],
         \A t \in Source \ {s} :
           row'[t] = row[t] /\ analysis'[t] = analysis[t] /\ maps'[t] = maps[t],
         Present(s)' <=> Present(s), row'[s].content = row[s].content,
         s \notin contended' => SourceSound(s)' /\ OwnSound(c, s)',
         contended' = {} => (status' = "DRAFT" <=> status = "DRAFT"),
         UNCHANGED <<stored, begun>>
  PROVE  IInv'
<1>1. TypeOK /\ Carried /\ OneSourcePerContent
  BY DEF IInv
<1>2. \A t \in Source \ {s} : Same(t)
  BY DEF Same
<1>3. Sources' = Sources
  BY DEF Sources, Present
<1>4. \A t \in Source : row'[t].content = row[t].content
  OBVIOUS
<1>5. OneSourcePerContent' /\ \A t \in Source : Present(t)' => row'[t].content \in Content
  BY <1>1, <1>3, <1>4 DEF OneSourcePerContent, Carried, Sources
<1>6. s \in Works(w, c)
  BY TouchedSource DEF Works
<1>7. c.todo = {} /\ c.drop = None
  BY DEF Carries
<1>8. ASSUME NEW t \in Source \ contended'
      PROVE  SourceSound(t)' /\ CallSound(c, t)'
  <2>1. SourceSound(t)
    BY Known
  <2>2. CASE t = s
    BY <1>7, <2>2, NoneIsNoSource DEF CallSound
  <2>3. CASE t # s
    <3>1. Same(t)
      BY <1>2, <2>3
    <3>2. SourceSound(t)'
      BY <2>1, <3>1 DEF Same, SourceSound, Ready, Reviewed, Present, Covers, Mapped
    <3>3. CallSound(c, t)'
      BY <1>7, <2>3, NoneIsNoSource DEF CallSound
    <3> QED BY <3>2, <3>3
  <2> QED BY <2>2, <2>3
<1>9. contended' = {} => (status' = "DRAFT" <=> Sources' = {}) /\ CountSound(c)'
  BY <1>3, Known DEF CountSound, Uploading
<1>10. stored' \subseteq Source /\ begun' \in Nat
  BY <1>1 DEF TypeOK
<1> QED BY <1>2, <1>3, <1>5, <1>6, <1>8, <1>9, <1>10, Step

(* A call that is not an upload goes on to a phase it may enter.           *)
LEMMA EnterReview ==
  ASSUME IInv, NEW w \in Worker, call[w].phase \notin Uploading \cup {"idle"},
         NEW phase \in Phase, phase \notin Uploading \cup {"idle", "dropping"},
         phase \in {"choosing", "editing"} => call[w].edit \in Edit,
         phase \in {"reusing", "starting", "profiling", "proposing"}
           => call[w].content \in Content
  PROVE  \E c \in Call :
           /\ c = [call[w] EXCEPT !.phase = phase]
           /\ Carries(c) /\ CountSound(c)
           /\ c.phase = phase /\ c.source = call[w].source /\ c.type = call[w].type
           /\ c.source \in Source
<1>1. call[w] \in Call /\ Carries(call[w])
  BY DEF IInv, TypeOK, Carried
<1>2. PICK c : c = [call[w] EXCEPT !.phase = phase]
  OBVIOUS
<1>3. /\ c \in Call /\ c.phase = phase /\ c.source = call[w].source /\ c.content = call[w].content
      /\ c.type = call[w].type /\ c.edit = call[w].edit /\ c.todo = call[w].todo
      /\ c.drop = call[w].drop
  BY <1>1, <1>2, Entered
<1>4. Carries(c) /\ CountSound(c) /\ c.source \in Source
  BY <1>1, <1>3 DEF Carries, CountSound, Uploading
<1> QED BY <1>2, <1>3, <1>4

LEMMA AnalyzeSound ==
  ASSUME IInv, NEW w \in Worker, NEW s \in Source, Analyze(w, s)
  PROVE  IInv'
<1>1. PICK phase \in {"reusing", "starting"} :
        phase = IF Ready(s) THEN "reusing" ELSE "starting"
  OBVIOUS
<1>1a. PICK c : c = [Idle EXCEPT !.phase = phase, !.source = s, !.content = row[s].content,
                                 !.id = begun + 1]
  OBVIOUS
<1>2. begun \in Nat /\ row[s].content \in Content
  BY DEF IInv, TypeOK, Carried, Sources, Analyze
<1>2a. phase \in Phase /\ begun + 1 \in Nat
  BY <1>2 DEF Phase
<1>3. /\ c \in Call /\ c.phase \in {"reusing", "starting"} /\ c.source = s /\ c.todo = {}
      /\ c.drop = None /\ c.content = row[s].content
  BY <1>1a, <1>2, <1>2a DEF Idle, Call, Kind
<1>4. Goto(w, c) /\ begun' \in Nat /\ UNCHANGED <<tables, stored>>
  BY <1>1, <1>1a, <1>2 DEF Analyze, Begin
<1>5. Carries(c) /\ CountSound(c)
  BY <1>2, <1>3 DEF Carries, Uploading, CountSound
<1>6. \A t \in Source : CallSound(c, t)
  BY <1>3, NoneIsNoSource DEF CallSound, OwnSound, Uploading
<1> QED BY <1>3, <1>4, <1>5, <1>6, ReadingStep

LEMMA ReuseSound ==
  ASSUME IInv, NEW w \in Worker, Reuse(w)
  PROVE  IInv'
<1>1. call[w].phase = "reusing" /\ Carries(call[w]) /\ UNCHANGED <<tables, stored, begun>>
  BY DEF IInv, Carried, Reuse, At
<1>2. CASE Return(w)
  BY <1>1, <1>2, ReturnStep
<1>3. CASE Enter(w, "starting")
  <2>0. /\ call[w].phase \notin Uploading \cup {"idle"} /\ call[w].content \in Content
        /\ "starting" \in Phase /\ "starting" \notin Uploading \cup {"idle", "dropping"}
    BY <1>1 DEF Phase, Uploading, Carries
  <2>1. PICK c \in Call : /\ c = [call[w] EXCEPT !.phase = "starting"]
                          /\ Carries(c) /\ CountSound(c) /\ c.phase = "starting"
    BY <2>0, EnterReview
  <2>2. \A s : OwnSound(c, s)
    BY <2>1 DEF OwnSound, Uploading
  <2> QED BY <1>1, <1>3, <2>1, <2>2, EnterStep DEF Phase
<1> QED BY <1>2, <1>3 DEF Reuse

(* The state of a source becomes one that is not READY.                    *)
LEMMA SetStateStep ==
  ASSUME IInv, NEW s \in Source, NEW st \in {"ANALYZING", "MAPPING_REQUIRED", "FAILED"},
         SetState(s, st)
  PROVE  /\ row' \in [Source -> Row] /\ status' \in InvestigationStatus
         /\ \A t \in Source \ {s} : row'[t] = row[t]
         /\ Present(s)' <=> Present(s)
         /\ row'[s].content = row[s].content
         /\ row'[s].status \in {st, "unused", "deleted"}
         /\ status' = "DRAFT" <=> status = "DRAFT"
<1>1. row \in [Source -> Row] /\ status \in InvestigationStatus
  BY DEF IInv, TypeOK
<1>2. /\ row' = IF Present(s) THEN [row EXCEPT ![s].status = st] ELSE row
      /\ status' = IF status \in {"SOURCES_UPLOADED", "MAPPING_REQUIRED"}
                   THEN "MAPPING_REQUIRED" ELSE status
  BY DEF SetState
<1>3. \A r \in Row : [r EXCEPT !.status = st] \in Row
  BY DEF Row
<1>4. row' \in [Source -> Row] /\ status' \in InvestigationStatus
  BY <1>1, <1>2, <1>3 DEF InvestigationStatus
<1>5. CASE Present(s)
  <2>1. row'[s] = [row[s] EXCEPT !.status = st] /\ \A t \in Source \ {s} : row'[t] = row[t]
    BY <1>1, <1>2, <1>5
  <2>2. row'[s].status = st /\ row'[s].content = row[s].content
    BY <1>1, <2>1 DEF Row
  <2> QED BY <1>2, <1>4, <1>5, <2>1, <2>2 DEF Present
<1>6. CASE ~ Present(s)
  BY <1>2, <1>4, <1>6 DEF Present
<1> QED BY <1>5, <1>6

LEMMA StartAnalysisSound ==
  ASSUME IInv, NEW w \in Worker, StartAnalysis(w)
  PROVE  IInv'
<1>1. call[w].phase = "starting" /\ Carries(call[w])
  BY DEF IInv, Carried, StartAnalysis, At
<1>2. /\ call[w].phase \notin Uploading \cup {"idle"} /\ call[w].content \in Content
      /\ "profiling" \in Phase /\ "profiling" \notin Uploading \cup {"idle", "dropping"}
  BY <1>1 DEF Phase, Uploading, Carries
<1>3. PICK c \in Call :
        /\ c = [call[w] EXCEPT !.phase = "profiling"]
        /\ Carries(c) /\ c.phase = "profiling" /\ c.source = call[w].source
        /\ c.source \in Source
  BY <1>2, EnterReview
<1>4. PICK s \in Source : s = call[w].source
  BY <1>3
<1>5. SetState(s, "ANALYZING") /\ Goto(w, c) /\ UNCHANGED <<analysis, maps, stored, begun>>
  BY <1>3, <1>4 DEF StartAnalysis, Enter
<1>6. /\ row' \in [Source -> Row] /\ status' \in InvestigationStatus
      /\ \A t \in Source \ {s} : row'[t] = row[t]
      /\ Present(s)' <=> Present(s)
      /\ row'[s].content = row[s].content
      /\ row'[s].status \in {"ANALYZING", "unused", "deleted"}
      /\ status' = "DRAFT" <=> status = "DRAFT"
  BY <1>5, SetStateStep
<1>7. s \notin contended' => SourceSound(s)' /\ OwnSound(c, s)'
  <2> SUFFICES ASSUME s \notin contended' PROVE SourceSound(s)' /\ OwnSound(c, s)'
    OBVIOUS
  <2>1. SourceSound(s)
    BY <1>5, Known
  <2> QED BY <1>3, <1>5, <1>6, <2>1 DEF SourceSound, OwnSound, Ready, Uploading
<1>8. maps' \in [Source -> Maps] /\ analysis' \in [Source -> Kind \cup {None}]
  BY <1>5 DEF IInv, TypeOK
<1> QED BY <1>2, <1>3, <1>4, <1>5, <1>6, <1>7, <1>8, WritingStep

LEMMA SaveAnalysisSound ==
  ASSUME IInv, NEW w \in Worker, SaveAnalysis(w)
  PROVE  IInv'
<1>1. call[w].phase = "profiling" /\ Carries(call[w]) /\ TypeOK
  BY DEF IInv, Carried, SaveAnalysis, At
<1>2. /\ call[w].phase \notin Uploading \cup {"idle"} /\ call[w].content \in Content
      /\ "proposing" \in Phase /\ "proposing" \notin Uploading \cup {"idle", "dropping"}
  BY <1>1 DEF Phase, Uploading, Carries
<1>3. PICK c \in Call :
        /\ c = [call[w] EXCEPT !.phase = "proposing"]
        /\ Carries(c) /\ c.phase = "proposing" /\ c.source = call[w].source
        /\ c.source \in Source
  BY <1>2, EnterReview
<1>4. PICK s \in Source : s = call[w].source
  BY <1>3
<1>5. PICK kind \in Kind : kind = Class[call[w].content]
  BY <1>2, ReviewAssumption DEF Kind
<1>6. /\ analysis' = [analysis EXCEPT ![s] = kind] /\ s \in stored /\ Present(s)
      /\ row' = row /\ maps' = maps /\ status' = status /\ stored' = stored /\ begun' = begun
      /\ Goto(w, c)
  BY <1>3, <1>4, <1>5 DEF SaveAnalysis, Enter
<1>7. /\ row' \in [Source -> Row] /\ maps' \in [Source -> Maps]
      /\ status' \in InvestigationStatus /\ analysis' \in [Source -> Kind \cup {None}]
      /\ analysis'[s] = kind /\ \A t \in Source \ {s} : analysis'[t] = analysis[t]
  BY <1>1, <1>6 DEF TypeOK
<1>8. s \notin contended' => SourceSound(s)' /\ OwnSound(c, s)'
  <2> SUFFICES ASSUME s \notin contended' PROVE SourceSound(s)' /\ OwnSound(c, s)'
    OBVIOUS
  <2>1. ~ Ready(s)
    BY <1>1, <1>4, <1>6, Known DEF CallSound, OwnSound
  <2>2. kind # None
    BY ReviewAssumption DEF Kind
  <2> QED BY <1>3, <1>6, <1>7, <2>1, <2>2 DEF SourceSound, OwnSound, Ready, Present, Uploading
<1>9. Present(s)' <=> Present(s)
  BY <1>6 DEF Present
<1> QED BY <1>2, <1>3, <1>4, <1>6, <1>7, <1>8, <1>9, WritingStep, ZenonT(60)

LEMMA ProposalsType ==
  ASSUME NEW x \in Content
  PROVE  Proposals(x) \in [Column -> Mapping]
  BY ReviewAssumption DEF Proposals, Mapping

LEMMA SaveMappingsSound ==
  ASSUME IInv, NEW w \in Worker, SaveMappings(w)
  PROVE  IInv'
<1>1. call[w].phase = "proposing" /\ Carries(call[w]) /\ TypeOK /\ call[w] \in Call
  BY DEF IInv, TypeOK, Carried, SaveMappings, At
<1>2. /\ call[w].phase \notin Uploading \cup {"idle"} /\ call[w].content \in Content
      /\ "finishing" \in Phase /\ "finishing" \notin Uploading \cup {"idle", "dropping"}
  BY <1>1 DEF Phase, Uploading, Carries
<1>3. PICK c \in Call :
        /\ c = [call[w] EXCEPT !.phase = "finishing"]
        /\ Carries(c) /\ c.phase = "finishing" /\ c.source = call[w].source
        /\ c.source \in Source
  BY <1>2, EnterReview
<1>4. PICK s \in Source : s = call[w].source
  BY <1>3
<1>5. PICK new \in Maps : new = [id |-> call[w].id, of |-> Proposals(call[w].content)]
  BY <1>1, <1>2, ProposalsType DEF Maps, Call
<1>6. /\ maps' = [maps EXCEPT ![s] = new] /\ Goto(w, c)
      /\ row' = row /\ analysis' = analysis /\ status' = status /\ stored' = stored
      /\ begun' = begun
  BY <1>3, <1>4, <1>5 DEF SaveMappings, Enter
<1>7. /\ row' \in [Source -> Row] /\ maps' \in [Source -> Maps]
      /\ status' \in InvestigationStatus /\ analysis' \in [Source -> Kind \cup {None}]
      /\ \A t \in Source \ {s} : maps'[t] = maps[t]
  BY <1>1, <1>6 DEF TypeOK
<1>8. s \notin contended' => SourceSound(s)' /\ OwnSound(c, s)'
  <2> SUFFICES ASSUME s \notin contended' PROVE SourceSound(s)' /\ OwnSound(c, s)'
    OBVIOUS
  <2>1. SourceSound(s) /\ ~ Ready(s) /\ analysis[s] # None
    BY <1>1, <1>4, <1>6, Known DEF CallSound, OwnSound
  <2> QED BY <1>3, <1>6, <2>1 DEF SourceSound, OwnSound, Ready, Present, Uploading
<1>9. Present(s)' <=> Present(s)
  BY <1>6 DEF Present
<1> QED BY <1>2, <1>3, <1>4, <1>6, <1>7, <1>8, <1>9, WritingStep, ZenonT(60)

LEMMA FinishAnalysisSound ==
  ASSUME IInv, NEW w \in Worker, FinishAnalysis(w)
  PROVE  IInv'
<1>1. call[w].phase = "finishing" /\ Carries(call[w])
  BY DEF IInv, Carried, FinishAnalysis, At
<1>2. /\ call[w].phase \notin Uploading \cup {"idle"}
      /\ "concluding" \in Phase /\ "concluding" \notin Uploading \cup {"idle", "dropping"}
  BY <1>1 DEF Phase, Uploading
<1>3. PICK c \in Call :
        /\ c = [call[w] EXCEPT !.phase = "concluding"]
        /\ Carries(c) /\ c.phase = "concluding" /\ c.source = call[w].source
        /\ c.source \in Source
  BY <1>2, EnterReview
<1>4. PICK s \in Source : s = call[w].source
  BY <1>3
<1>5. SetState(s, "MAPPING_REQUIRED") /\ Goto(w, c) /\ UNCHANGED <<analysis, maps, stored, begun>>
  BY <1>3, <1>4 DEF FinishAnalysis, Enter
<1>6. /\ row' \in [Source -> Row] /\ status' \in InvestigationStatus
      /\ \A t \in Source \ {s} : row'[t] = row[t]
      /\ Present(s)' <=> Present(s)
      /\ row'[s].content = row[s].content
      /\ row'[s].status \in {"MAPPING_REQUIRED", "unused", "deleted"}
      /\ status' = "DRAFT" <=> status = "DRAFT"
  BY <1>5, SetStateStep
<1>7. s \notin contended' => SourceSound(s)' /\ OwnSound(c, s)'
  <2> SUFFICES ASSUME s \notin contended' PROVE SourceSound(s)' /\ OwnSound(c, s)'
    OBVIOUS
  <2>1. SourceSound(s) /\ analysis[s] # None
    BY <1>1, <1>4, <1>5, Known DEF CallSound, OwnSound
  <2> QED BY <1>3, <1>5, <1>6, <2>1 DEF SourceSound, OwnSound, Ready, Uploading
<1>8. maps' \in [Source -> Maps] /\ analysis' \in [Source -> Kind \cup {None}]
  BY <1>5 DEF IInv, TypeOK
<1> QED BY <1>2, <1>3, <1>4, <1>5, <1>6, <1>7, <1>8, WritingStep

LEMMA FailAnalysisSound ==
  ASSUME IInv, NEW w \in Worker, FailAnalysis(w)
  PROVE  IInv'
<1>1. call[w].phase = "failing" /\ Carries(call[w])
  BY DEF IInv, Carried, FailAnalysis, At
<1>2. PICK s \in Source : s = call[w].source
  BY <1>1 DEF Carries
<1>3. SetState(s, "FAILED") /\ Goto(w, Idle) /\ UNCHANGED <<analysis, maps, stored, begun>>
  BY <1>2 DEF FailAnalysis, Return
<1>4. /\ row' \in [Source -> Row] /\ status' \in InvestigationStatus
      /\ \A t \in Source \ {s} : row'[t] = row[t]
      /\ Present(s)' <=> Present(s)
      /\ row'[s].content = row[s].content
      /\ row'[s].status \in {"FAILED", "unused", "deleted"}
      /\ status' = "DRAFT" <=> status = "DRAFT"
  BY <1>3, SetStateStep
<1>5. PICK c \in Call : c = Idle /\ Carries(c) /\ c.phase = "idle" /\ c.source = None
  BY IdleCall DEF Idle
<1>6. s \notin contended' => SourceSound(s)' /\ OwnSound(c, s)'
  <2> SUFFICES ASSUME s \notin contended' PROVE SourceSound(s)' /\ OwnSound(c, s)'
    OBVIOUS
  <2>1. SourceSound(s)
    BY <1>3, <1>5, Known
  <2> QED BY <1>3, <1>4, <1>5, <2>1 DEF SourceSound, OwnSound, Ready, Uploading
<1>7. maps' \in [Source -> Maps] /\ analysis' \in [Source -> Kind \cup {None}]
  BY <1>3 DEF IInv, TypeOK
<1>8. c.phase \notin Uploading \cup {"dropping"}
  BY <1>5 DEF Uploading
<1> QED BY <1>2, <1>3, <1>4, <1>5, <1>6, <1>7, <1>8, WritingStep

LEMMA AnswerAnalysisSound ==
  ASSUME IInv, NEW w \in Worker, AnswerAnalysis(w)
  PROVE  IInv'
  BY ReturnStep DEF AnswerAnalysis

(* A call that reads and goes on to a phase for which it knows enough.     *)
LEMMA ReviewEnters ==
  ASSUME IInv, NEW w \in Worker, call[w].phase \notin Uploading \cup {"idle"},
         NEW phase \in Phase, phase \notin Uploading \cup {"idle", "dropping"},
         phase \notin {"choosing", "editing", "reusing", "starting", "profiling", "proposing"},
         Enter(w, phase), UNCHANGED <<tables, stored, begun>>,
         \A s \in Source \ contended', c \in Call :
           /\ SourceSound(s) /\ OwnSound(call[w], s) /\ s = call[w].source
           /\ c.phase = phase /\ c.type = call[w].type
           => OwnSound(c, s)
  PROVE  IInv'
<1>1. PICK c \in Call :
        /\ c = [call[w] EXCEPT !.phase = phase]
        /\ Carries(c) /\ CountSound(c) /\ c.phase = phase
        /\ c.source = call[w].source /\ c.type = call[w].type
  BY EnterReview
<1> QED BY <1>1, EnterStep

LEMMA AnalysisRaisesSound ==
  ASSUME IInv, NEW w \in Worker, AnalysisRaises(w)
  PROVE  IInv'
<1>1. /\ call[w].phase \notin Uploading \cup {"idle"}
      /\ "failing" \in Phase /\ "failing" \notin Uploading \cup {"idle", "dropping"}
  BY DEF AnalysisRaises, Phase, Uploading
<1>2. \A c, s : c.phase = "failing" => OwnSound(c, s)
  BY DEF OwnSound, Uploading
<1> QED BY <1>1, <1>2, ReviewEnters DEF AnalysisRaises

(* A call begins for a source, in a phase for which it knows enough.       *)
LEMMA ReviewBegins ==
  ASSUME IInv, NEW w \in Worker, NEW c \in Call, Begin(w, c), UNCHANGED <<tables, stored>>,
         c.phase \notin Uploading \cup {"idle", "dropping"}, c.source \in Source,
         c.todo = {}, c.drop = None, Carries(c),
         \A s \in Source \ contended' : s = c.source /\ SourceSound(s) => OwnSound(c, s)
  PROVE  IInv'
<1>1. Goto(w, c) /\ begun' \in Nat
  BY DEF Begin, IInv, TypeOK
<1>2. \A s \in Source \ contended' : CallSound(c, s)
  BY <1>1, Known, NoneIsNoSource DEF CallSound
<1>3. CountSound(c)
  BY DEF CountSound, Uploading
<1> QED BY <1>1, <1>2, <1>3, ReadingStep

LEMMA EditMappingSound ==
  ASSUME IInv, NEW w \in Worker, NEW s \in Source, NEW e \in Edit, EditMapping(w, s, e)
  PROVE  IInv'
<1>1. PICK c : c = [Idle EXCEPT !.phase = "choosing", !.source = s, !.edit = e]
  OBVIOUS
<1>2. /\ c \in Call /\ c.phase = "choosing" /\ c.source = s /\ c.edit = e
      /\ c.todo = {} /\ c.drop = None
  BY <1>1 DEF Idle, Call, Phase, Kind
<1>3. Begin(w, c) /\ UNCHANGED <<tables, stored>>
  BY <1>1 DEF EditMapping
<1>4. c.phase \notin Uploading \cup {"idle", "dropping"} /\ Carries(c)
  BY <1>2 DEF Carries, Uploading
<1>5. \A t : OwnSound(c, t)
  BY <1>2 DEF OwnSound, Uploading
<1> QED BY <1>2, <1>3, <1>4, <1>5, ReviewBegins

LEMMA ConfirmBegins ==
  ASSUME IInv, NEW w \in Worker, NEW s \in Source, Confirm(w, s)
  PROVE  IInv'
<1>1. PICK c : c = [Idle EXCEPT !.phase = "covering", !.source = s, !.type = analysis[s]]
  OBVIOUS
<1>2. analysis[s] \in Type
  BY DEF Confirm
<1>3. /\ c \in Call /\ c.phase = "covering" /\ c.source = s /\ c.type = analysis[s]
      /\ c.todo = {} /\ c.drop = None
  BY <1>1, <1>2 DEF Idle, Call, Phase, Kind
<1>4. Begin(w, c) /\ UNCHANGED <<tables, stored>>
  BY <1>1 DEF Confirm
<1>5. c.phase \notin Uploading \cup {"idle", "dropping"} /\ Carries(c)
  BY <1>3 DEF Carries, Uploading
<1>6. OwnSound(c, s)
  BY <1>2, <1>3, ReviewAssumption DEF OwnSound, Uploading
<1> QED BY <1>3, <1>4, <1>5, <1>6, ReviewBegins

LEMMA ClassifySound ==
  ASSUME IInv, NEW w \in Worker, NEW s \in Source, NEW t \in Type, Classify(w, s, t)
  PROVE  IInv'
<1>1. PICK c : c = [Idle EXCEPT !.phase = "typing", !.source = s, !.type = t]
  OBVIOUS
<1>2. /\ c \in Call /\ c.phase = "typing" /\ c.source = s /\ c.type = t
      /\ c.todo = {} /\ c.drop = None
  BY <1>1 DEF Idle, Call, Phase, Kind
<1>3. Begin(w, c) /\ UNCHANGED <<tables, stored>>
  BY <1>1 DEF Classify
<1>4. c.phase \notin Uploading \cup {"idle", "dropping"} /\ Carries(c)
  BY <1>2 DEF Carries, Uploading
<1>5. OwnSound(c, s)
  BY <1>2 DEF OwnSound, Uploading, Classify
<1> QED BY <1>2, <1>3, <1>4, <1>5, ReviewBegins

LEMMA ChooseMappingSound ==
  ASSUME IInv, NEW w \in Worker, ChooseMapping(w)
  PROVE  IInv'
<1> DEFINE s == call[w].source
<1>1. /\ call[w].phase = "choosing" /\ Carries(call[w]) /\ TypeOK /\ call[w] \in Call
      /\ UNCHANGED <<tables, stored, begun>> /\ begun' \in Nat
  BY DEF IInv, TypeOK, Carried, ChooseMapping, At
<1>2. CASE Return(w)
  BY <1>1, <1>2, ReturnStep
<1>3. CASE Editable(s, call[w].edit.col)
           /\ Goto(w, [call[w] EXCEPT !.phase = "editing", !.id = maps[s].id])
  <2>1. PICK c : c = [call[w] EXCEPT !.phase = "editing", !.id = maps[s].id]
    OBVIOUS
  <2>2. s \in Source /\ maps[s].id \in Nat
    BY <1>1 DEF Carries, TypeOK, Maps
  <2>3. /\ c \in Call /\ c.phase = "editing" /\ c.source = s /\ c.edit = call[w].edit
        /\ c.todo = call[w].todo /\ c.drop = call[w].drop
    BY <1>1, <2>1, <2>2 DEF Call, Phase
  <2>4. Goto(w, c)
    BY <1>3, <2>1
  <2>5. Carries(c) /\ CountSound(c)
    BY <1>1, <2>3 DEF Carries, CountSound, Uploading
  <2>6. ASSUME NEW t \in Source \ contended'
        PROVE  CallSound(c, t)
    <3>1. SourceSound(t) /\ CallSound(call[w], t)
      BY <2>3, <2>4, Known
    <3>2. t = s => ~ Ready(t)
      BY <1>3, <3>1 DEF Editable, SourceSound, Reviewed
    <3> QED BY <2>3, <3>1, <3>2 DEF CallSound, OwnSound, Uploading
  <2> QED BY <1>1, <2>3, <2>4, <2>5, <2>6, ReadingStep
<1> QED BY <1>2, <1>3 DEF ChooseMapping

LEMMA CoverSound ==
  ASSUME IInv, NEW w \in Worker, Cover(w)
  PROVE  IInv'
<1>1. /\ call[w].phase = "covering" /\ UNCHANGED <<tables, stored, begun>>
      /\ call[w].phase \notin Uploading \cup {"idle"}
      /\ "checking" \in Phase /\ "checking" \notin Uploading \cup {"idle", "dropping"}
  BY DEF Cover, At, Phase, Uploading
<1>2. CASE Return(w)
  BY <1>1, <1>2, ReturnStep
<1>3. CASE Covers(call[w].source, call[w].type) /\ Enter(w, "checking")
  <2>1. ASSUME NEW s, NEW c, OwnSound(call[w], s), s = call[w].source,
               c.phase = "checking", c.type = call[w].type
        PROVE  OwnSound(c, s)
    BY <1>1, <1>3, <2>1 DEF OwnSound, Uploading
  <2> QED BY <1>1, <1>3, <2>1, ReviewEnters
<1> QED BY <1>2, <1>3 DEF Cover

LEMMA CheckSound ==
  ASSUME IInv, NEW w \in Worker, Check(w)
  PROVE  IInv'
<1>1. /\ call[w].phase = "checking" /\ UNCHANGED <<tables, stored, begun>>
      /\ call[w].phase \notin Uploading \cup {"idle"}
      /\ "confirming" \in Phase /\ "confirming" \notin Uploading \cup {"idle", "dropping"}
  BY DEF Check, At, Phase, Uploading
<1>2. CASE Return(w)
  BY <1>1, <1>2, ReturnStep
<1>3. CASE Confirmable(call[w].source) /\ Enter(w, "confirming")
  <2>1. ASSUME NEW s, NEW c, OwnSound(call[w], s), s = call[w].source,
               c.phase = "confirming", c.type = call[w].type
        PROVE  OwnSound(c, s)
    BY <1>1, <1>3, <2>1 DEF OwnSound, Uploading, Confirmable
  <2> QED BY <1>1, <1>3, <2>1, ReviewEnters
<1> QED BY <1>2, <1>3 DEF Check

LEMMA ListReadySound ==
  ASSUME IInv, NEW w \in Worker, ListReady(w)
  PROVE  IInv'
<1>1. /\ call[w].phase = "reviewing" /\ UNCHANGED <<tables, stored, begun>>
      /\ call[w].phase \notin Uploading \cup {"idle"}
      /\ "promoting" \in Phase /\ "promoting" \notin Uploading \cup {"idle", "dropping"}
  BY DEF ListReady, At, Phase, Uploading
<1>2. CASE Return(w)
  BY <1>1, <1>2, ReturnStep
<1>3. CASE Enter(w, "promoting")
  <2>1. ASSUME NEW s, NEW c, OwnSound(call[w], s), c.phase = "promoting"
        PROVE  OwnSound(c, s)
    BY <1>1, <2>1 DEF OwnSound, Uploading
  <2> QED BY <1>1, <1>3, <2>1, ReviewEnters
<1> QED BY <1>2, <1>3 DEF ListReady

LEMMA AbandonSound ==
  ASSUME IInv, NEW w \in Worker, Abandon(w)
  PROVE  IInv'
  BY ReturnStep DEF Abandon

LEMMA EditedType ==
  ASSUME NEW m \in Maps, NEW e \in Edit
  PROVE  [m EXCEPT !.of[e.col] = [@ EXCEPT !.field = e.field, !.ignored = e.ignored,
                                           !.status = "EDITED"]] \in Maps
<1>1. m = [id |-> m.id, of |-> m.of] /\ m.id \in Nat
  BY DEF Maps
<1> DEFINE new == [m.of[e.col] EXCEPT !.field = e.field, !.ignored = e.ignored,
                                      !.status = "EDITED"]
<1>2. e.field \in Field \cup {None} /\ e.ignored \in BOOLEAN /\ e.col \in Column
  BY DEF Edit
<1>3. CASE m.of \in [{} -> Mapping]
  <2>1. [m.of EXCEPT ![e.col] = new] \in [{} -> Mapping]
    BY <1>3
  <2> QED BY <1>1, <2>1 DEF Maps
<1>4. CASE m.of \in [Column -> Mapping]
  <2>1. m.of[e.col] \in Mapping
    BY <1>2, <1>4
  <2>2. new \in Mapping
    BY <1>2, <2>1 DEF Mapping
  <2>3. [m.of EXCEPT ![e.col] = new] \in [Column -> Mapping]
    BY <1>4, <2>2
  <2> QED BY <1>1, <2>3 DEF Maps
<1> QED BY <1>3, <1>4 DEF Maps

LEMMA WriteMappingSound ==
  ASSUME IInv, NEW w \in Worker, WriteMapping(w)
  PROVE  IInv'
<1>1. call[w].phase = "editing" /\ Carries(call[w]) /\ TypeOK
  BY DEF IInv, Carried, WriteMapping, At
<1>2. PICK s \in Source : s = call[w].source
  BY <1>1 DEF Carries
<1>3. PICK e \in Edit : e = call[w].edit
  BY <1>1 DEF Carries
<1>4. PICK c \in Call : c = Idle /\ Carries(c) /\ c.phase = "idle" /\ c.source = None
  BY IdleCall DEF Idle
<1>5. PICK new : new = [maps[s] EXCEPT !.of[e.col] =
                          [@ EXCEPT !.field = e.field, !.ignored = e.ignored,
                                    !.status = "EDITED"]]
  OBVIOUS
<1>6. maps[s] \in Maps /\ new \in Maps
  BY <1>1, <1>5, EditedType DEF TypeOK
<1>7. /\ Goto(w, c) /\ row' = row /\ analysis' = analysis /\ status' = status
      /\ stored' = stored /\ begun' = begun
  BY <1>4 DEF WriteMapping, Return
<1>8. maps' = [maps EXCEPT ![s] = new] \/ maps' = maps
  BY <1>1, <1>2, <1>3, <1>5 DEF WriteMapping, TypeOK
<1>9. /\ maps' \in [Source -> Maps] /\ row' \in [Source -> Row]
      /\ status' \in InvestigationStatus /\ analysis' \in [Source -> Kind \cup {None}]
      /\ \A t \in Source \ {s} : maps'[t] = maps[t]
  BY <1>1, <1>6, <1>7, <1>8 DEF TypeOK
<1>10. s \notin contended' => SourceSound(s)' /\ OwnSound(c, s)'
  <2> SUFFICES ASSUME s \notin contended' PROVE SourceSound(s)' /\ OwnSound(c, s)'
    OBVIOUS
  <2>1. SourceSound(s) /\ ~ Ready(s)
    BY <1>1, <1>2, <1>7, Known DEF CallSound, OwnSound
  <2> QED BY <1>4, <1>7, <2>1 DEF SourceSound, OwnSound, Ready, Present, Uploading
<1>11. (Present(s)' <=> Present(s)) /\ c.phase \notin Uploading \cup {"dropping"}
  BY <1>4, <1>7 DEF Present, Uploading
<1> QED BY <1>2, <1>4, <1>7, <1>9, <1>10, <1>11, WritingStep

(* Confirmation changes the status of mappings and nothing else of them.   *)
LEMMA ConfirmedMaps ==
  ASSUME NEW m \in Maps,
         NEW new, new = [m EXCEPT !.of = [x \in DOMAIN m.of |-> Confirmed(m.of[x])]]
  PROVE  /\ new \in Maps
         /\ DOMAIN new.of = DOMAIN m.of
         /\ \A x \in DOMAIN m.of : /\ new.of[x].status = "CONFIRMED"
                                   /\ new.of[x].field = m.of[x].field
                                   /\ new.of[x].ignored = m.of[x].ignored
<1>1. m = [id |-> m.id, of |-> m.of] /\ m.id \in Nat
  BY DEF Maps
<1>2. \A x \in DOMAIN m.of : m.of[x] \in Mapping
  BY DEF Maps
<1>3. new.of = [x \in DOMAIN m.of |-> Confirmed(m.of[x])] /\ new.id = m.id
      /\ new = [id |-> new.id, of |-> new.of]
  BY <1>1
<1>4. \A x \in Mapping : /\ Confirmed(x) \in Mapping /\ Confirmed(x).status = "CONFIRMED"
                         /\ Confirmed(x).field = x.field /\ Confirmed(x).ignored = x.ignored
  BY DEF Mapping, Confirmed
<1>5. new.of \in [{} -> Mapping] \cup [Column -> Mapping]
  <2>1. new.of \in [DOMAIN m.of -> Mapping]
    BY <1>2, <1>3, <1>4
  <2>2. DOMAIN m.of = {} \/ DOMAIN m.of = Column
    BY DEF Maps
  <2> QED BY <2>1, <2>2
<1>6. new \in Maps
  BY <1>1, <1>3, <1>5 DEF Maps
<1> QED BY <1>2, <1>3, <1>4, <1>6

LEMMA ConfirmSourceSound ==
  ASSUME IInv, NEW w \in Worker, ConfirmSource(w)
  PROVE  IInv'
<1>1. call[w].phase = "confirming" /\ Carries(call[w]) /\ TypeOK
  BY DEF IInv, Carried, ConfirmSource, At
<1>2. /\ call[w].phase \notin Uploading \cup {"idle"}
      /\ "reviewing" \in Phase /\ "reviewing" \notin Uploading \cup {"idle", "dropping"}
  BY <1>1 DEF Phase, Uploading
<1>3. PICK c \in Call :
        /\ c = [call[w] EXCEPT !.phase = "reviewing"]
        /\ Carries(c) /\ c.phase = "reviewing" /\ c.source = call[w].source
        /\ c.source \in Source
  BY <1>2, EnterReview
<1>4. PICK s \in Source : s = call[w].source
  BY <1>3
<1>5. PICK m \in Maps : m = maps[s]
  BY <1>1 DEF TypeOK
<1>6. PICK new : new = [m EXCEPT !.of = [x \in DOMAIN m.of |-> Confirmed(m.of[x])]]
  OBVIOUS
<1>7. /\ new \in Maps /\ DOMAIN new.of = DOMAIN m.of
      /\ \A x \in DOMAIN m.of : /\ new.of[x].status = "CONFIRMED"
                                /\ new.of[x].field = m.of[x].field
                                /\ new.of[x].ignored = m.of[x].ignored
  BY <1>6, ConfirmedMaps
<1>8. maps' = [maps EXCEPT ![s] = new]
  BY <1>1, <1>4, <1>5, <1>6 DEF ConfirmSource, TypeOK
<1>9. /\ row' = (IF Present(s) THEN [row EXCEPT ![s].status = "READY"] ELSE row)
      /\ status' \in {status, "RELATIONSHIP_REVIEW"}
      /\ analysis' = analysis /\ stored' = stored /\ begun' = begun /\ Goto(w, c)
  BY <1>3, <1>4 DEF ConfirmSource, Enter
<1>10. \A r \in Row : [r EXCEPT !.status = "READY"] \in Row
  BY DEF Row
<1>11. /\ row' \in [Source -> Row] /\ maps' \in [Source -> Maps] /\ maps'[s] = new
       /\ status' \in InvestigationStatus /\ analysis' \in [Source -> Kind \cup {None}]
       /\ \A t \in Source \ {s} : row'[t] = row[t] /\ maps'[t] = maps[t]
  BY <1>1, <1>7, <1>8, <1>9, <1>10 DEF TypeOK, InvestigationStatus
<1>12. (Present(s)' <=> Present(s)) /\ row'[s].content = row[s].content
       /\ row'[s].status \in {row[s].status, "READY"}
  BY <1>1, <1>9 DEF Present, TypeOK, Row
<1>13. s \notin contended' => SourceSound(s) /\ OwnSound(call[w], s)
  BY <1>4, <1>9, Known DEF CallSound
<1>14. s \notin contended' => SourceSound(s)' /\ OwnSound(c, s)'
  <2> SUFFICES ASSUME s \notin contended' PROVE SourceSound(s)' /\ OwnSound(c, s)'
    OBVIOUS
  <2>1. /\ analysis[s] \in Type /\ analysis[s] # None /\ Covers(s, analysis[s])
        /\ DOMAIN m.of # {} /\ s \in stored /\ Present(s)
    BY <1>1, <1>5, <1>13 DEF SourceSound, OwnSound
  <2>2. Mapped(s)' = Mapped(s)
    BY <1>5, <1>7, <1>11 DEF Mapped
  <2>3. Reviewed(s)'
    BY <1>7, <1>9, <1>11, <2>1, <2>2 DEF Reviewed, Covers
  <2>4. SourceSound(s)'
    BY <1>9, <1>12, <2>1, <2>3 DEF SourceSound
  <2> QED BY <1>3, <1>9, <2>1, <2>4 DEF OwnSound, Uploading
<1>15. contended' = {} => (status' = "DRAFT" <=> status = "DRAFT")
  <2> SUFFICES ASSUME contended' = {} PROVE status # "DRAFT"
    BY <1>9
  <2>1. Present(s)
    BY <1>1, <1>13 DEF SourceSound, OwnSound
  <2>2. status = "DRAFT" <=> Sources = {}
    BY <1>9, Known
  <2> QED BY <2>1, <2>2 DEF Sources
<1> QED BY <1>2, <1>3, <1>4, <1>9, <1>11, <1>12, <1>14, <1>15, WritingStep, ZenonT(60)

LEMMA PromoteSound ==
  ASSUME IInv, NEW w \in Worker, Promote(w)
  PROVE  IInv'
<1>1. call[w].phase = "promoting" /\ Carries(call[w]) /\ TypeOK
  BY DEF IInv, Carried, Promote, At
<1>2. PICK s \in Source : s = call[w].source
  BY <1>1 DEF Carries
<1>3. PICK c \in Call : c = Idle /\ Carries(c) /\ c.phase = "idle" /\ c.source = None
  BY IdleCall DEF Idle
<1>4. /\ Goto(w, c) /\ row' = row /\ analysis' = analysis /\ maps' = maps
      /\ status' = "RELATIONSHIP_REVIEW" /\ stored' = stored /\ begun' = begun
  BY <1>3 DEF Promote, Return
<1>5. s \notin contended' => SourceSound(s) /\ analysis[s] # None
  BY <1>1, <1>2, <1>4, Known DEF CallSound, OwnSound
<1>6. s \notin contended' => SourceSound(s)' /\ OwnSound(c, s)'
  BY <1>3, <1>4, <1>5
  DEF SourceSound, OwnSound, Ready, Reviewed, Present, Covers, Mapped, Uploading
<1>7. contended' = {} => (status' = "DRAFT" <=> status = "DRAFT")
  <2> SUFFICES ASSUME contended' = {} PROVE status # "DRAFT"
    BY <1>4
  <2>1. Present(s)
    BY <1>5 DEF SourceSound
  <2>2. status = "DRAFT" <=> Sources = {}
    BY <1>4, Known
  <2> QED BY <2>1, <2>2 DEF Sources
<1>8. /\ maps' \in [Source -> Maps] /\ row' \in [Source -> Row]
      /\ status' \in InvestigationStatus /\ analysis' \in [Source -> Kind \cup {None}]
  BY <1>1, <1>4 DEF TypeOK, InvestigationStatus
<1>9. (Present(s)' <=> Present(s)) /\ c.phase \notin Uploading \cup {"dropping"}
  BY <1>3, <1>4 DEF Present, Uploading
<1> QED BY <1>2, <1>3, <1>4, <1>6, <1>7, <1>8, <1>9, WritingStep

LEMMA SetTypeSound ==
  ASSUME IInv, NEW w \in Worker, SetType(w)
  PROVE  IInv'
<1>1. call[w].phase = "typing"
  BY DEF SetType, At
<1>2. /\ call[w].phase \notin Uploading \cup {"idle"}
      /\ "retyping" \in Phase /\ "retyping" \notin Uploading \cup {"idle", "dropping"}
  BY <1>1 DEF Phase, Uploading
<1>3. PICK c \in Call :
        /\ c = [call[w] EXCEPT !.phase = "retyping"]
        /\ Carries(c) /\ c.phase = "retyping" /\ c.source = call[w].source
        /\ c.source \in Source
  BY <1>2, EnterReview
<1>4. PICK s \in Source : s = call[w].source
  BY <1>3
<1>5. SetState(s, "MAPPING_REQUIRED") /\ Goto(w, c) /\ UNCHANGED <<analysis, maps, stored, begun>>
  BY <1>3, <1>4 DEF SetType, Enter
<1>6. /\ row' \in [Source -> Row] /\ status' \in InvestigationStatus
      /\ \A t \in Source \ {s} : row'[t] = row[t]
      /\ Present(s)' <=> Present(s)
      /\ row'[s].content = row[s].content
      /\ row'[s].status \in {"MAPPING_REQUIRED", "unused", "deleted"}
      /\ status' = "DRAFT" <=> status = "DRAFT"
  BY <1>5, SetStateStep
<1>7. s \notin contended' => SourceSound(s)' /\ OwnSound(c, s)'
  <2> SUFFICES ASSUME s \notin contended' PROVE SourceSound(s)' /\ OwnSound(c, s)'
    OBVIOUS
  <2>1. SourceSound(s) /\ analysis[s] # None
    BY <1>1, <1>4, <1>5, Known DEF CallSound, OwnSound
  <2> QED BY <1>3, <1>5, <1>6, <2>1 DEF SourceSound, OwnSound, Ready, Uploading
<1>8. maps' \in [Source -> Maps] /\ analysis' \in [Source -> Kind \cup {None}]
  BY <1>5 DEF IInv, TypeOK
<1> QED BY <1>2, <1>3, <1>4, <1>5, <1>6, <1>7, <1>8, WritingStep

LEMMA SaveTypeSound ==
  ASSUME IInv, NEW w \in Worker, SaveType(w)
  PROVE  IInv'
<1>1. call[w].phase = "retyping" /\ Carries(call[w]) /\ TypeOK /\ call[w].type \in Kind
  BY DEF IInv, Carried, SaveType, At, TypeOK, Call
<1>2. PICK s \in Source : s = call[w].source
  BY <1>1 DEF Carries
<1>3. PICK c \in Call : c = Idle /\ Carries(c) /\ c.phase = "idle" /\ c.source = None
  BY IdleCall DEF Idle
<1>4. /\ Goto(w, c) /\ row' = row /\ maps' = maps /\ status' = status
      /\ stored' = stored /\ begun' = begun
      /\ analysis' = (IF Present(s) THEN [analysis EXCEPT ![s] = call[w].type] ELSE analysis)
  BY <1>2, <1>3 DEF SaveType, Return
<1>5. /\ maps' \in [Source -> Maps] /\ row' \in [Source -> Row]
      /\ status' \in InvestigationStatus /\ analysis' \in [Source -> Kind \cup {None}]
      /\ \A t \in Source \ {s} : analysis'[t] = analysis[t]
      /\ analysis'[s] \in {call[w].type, analysis[s]}
  BY <1>1, <1>4 DEF TypeOK
<1>6. s \notin contended' => SourceSound(s)' /\ OwnSound(c, s)'
  <2> SUFFICES ASSUME s \notin contended' PROVE SourceSound(s)' /\ OwnSound(c, s)'
    OBVIOUS
  <2>1. SourceSound(s) /\ ~ Ready(s) /\ analysis[s] # None
    BY <1>1, <1>2, <1>4, Known DEF CallSound, OwnSound
  <2>2. call[w].type # None
    BY <1>1, ReviewAssumption DEF Kind
  <2> QED BY <1>3, <1>4, <1>5, <2>1, <2>2
       DEF SourceSound, OwnSound, Ready, Present, Uploading
<1>7. (Present(s)' <=> Present(s)) /\ c.phase \notin Uploading \cup {"dropping"}
  BY <1>3, <1>4 DEF Present, Uploading
<1> QED BY <1>2, <1>3, <1>4, <1>5, <1>6, <1>7, WritingStep

-----------------------------------------------------------------------------
LEMMA InitSound == Init => IInv
<1> SUFFICES ASSUME Init PROVE IInv
  OBVIOUS
<1>1. Unused \in Row /\ NoMaps \in Maps /\ Idle \in Call
  BY IdleCall DEF Unused, Row, NoMaps, Maps
<1>2. TypeOK
  BY <1>1 DEF Init, TypeOK, InvestigationStatus
<1>3. Sources = {}
  BY DEF Init, Sources, Present, Unused
<1>4. \A w \in Worker : call[w] = Idle
  BY DEF Init
<1>5. Carried /\ OneSourcePerContent
  BY <1>3, <1>4, IdleCall DEF Carried, OneSourcePerContent
<1>6. Exclusive
  BY <1>4, IdleCall DEF Exclusive
<1>7. \A s \in Source : SourceSound(s)
  BY DEF Init, SourceSound, Ready, Unused
<1>8. \A w \in Worker, s \in Source : CallSound(call[w], s)
  BY <1>4, IdleCall, UntouchedSound
<1>9. SourcesSound
  BY <1>7, <1>8 DEF SourcesSound
<1>10. \A w \in Worker : CountSound(call[w])
  BY <1>4 DEF CountSound, Idle
<1>11. CountsSound
  BY <1>3, <1>10 DEF CountsSound, Init
<1> QED BY <1>2, <1>5, <1>6, <1>9, <1>11 DEF IInv

LEMMA NextSound == IInv /\ [Next]_vars => IInv'
<1> SUFFICES ASSUME IInv, [Next]_vars PROVE IInv'
  OBVIOUS
<1>1. CASE UNCHANGED vars
  <2>1. /\ row' = row /\ stored' = stored /\ analysis' = analysis /\ maps' = maps
        /\ status' = status /\ begun' = begun /\ call' = call /\ contended' = contended
    BY <1>1 DEF vars
  <2>2. TypeOK'
    BY <2>1 DEF IInv, TypeOK
  <2>3. Sources' = Sources
    BY <2>1 DEF Sources, Present
  <2>4. Carried' /\ OneSourcePerContent'
    BY <2>1, <2>3 DEF IInv, Carried, Carries, Uploading, OneSourcePerContent
  <2>5. Exclusive'
    BY <2>1 DEF IInv, Exclusive, Touched, Uploading
  <2>6. SourcesSound'
    BY <2>1
    DEF IInv, SourcesSound, SourceSound, CallSound, OwnSound, Fresh, Ready, Reviewed, Covers,
        Mapped, Present, Uploading
  <2>7. CountsSound'
    BY <2>1, <2>3 DEF IInv, CountsSound, CountSound
  <2> QED BY <2>2, <2>4, <2>5, <2>6, <2>7 DEF IInv
<1>2. ASSUME NEW w \in Worker, NEW s \in Source,
             \/ \E n \in Name, x \in Content : Upload(w, s, n, x)
             \/ Delete(w, s) \/ Analyze(w, s) \/ Confirm(w, s)
             \/ \E e \in Edit : EditMapping(w, s, e)
             \/ \E t \in Type : Classify(w, s, t)
      PROVE  IInv'
  BY <1>2, UploadSound, DeleteSound, AnalyzeSound, ConfirmBegins, EditMappingSound, ClassifySound
<1>3. ASSUME NEW w \in Worker, UploadStep(w)
      PROVE  IInv'
  BY <1>3, MatchNameSound, CompareSound, DiscardSound, FindContentSound, PickUnreadySound,
     RemoveUnreadySound, ClearedSound, InsertSound, AnswerUploadSound, UploadRaisesSound
  DEF UploadStep
<1>4. ASSUME NEW w \in Worker, DeleteStep(w)
      PROVE  IInv'
  BY <1>4, CountOthersSound, DropSourceSound DEF DeleteStep
<1>5. ASSUME NEW w \in Worker, AnalyzeStep(w)
      PROVE  IInv'
  BY <1>5, ReuseSound, StartAnalysisSound, SaveAnalysisSound, SaveMappingsSound,
     FinishAnalysisSound, AnswerAnalysisSound, AnalysisRaisesSound, FailAnalysisSound
  DEF AnalyzeStep
<1>6. ASSUME NEW w \in Worker, ReviewStep(w)
      PROVE  IInv'
  BY <1>6, ChooseMappingSound, WriteMappingSound, CoverSound, CheckSound, ConfirmSourceSound,
     ListReadySound, PromoteSound, SetTypeSound, SaveTypeSound
  DEF ReviewStep
<1> QED BY <1>1, <1>2, <1>3, <1>4, <1>5, <1>6, AbandonSound DEF Next

LEMMA Inductive == Spec => []IInv
  BY InitSound, NextSound, PTL DEF Spec

(* Every reachable state is well typed.                                    *)
THEOREM TypeCorrect == Spec => []TypeOK
<1>1. IInv => TypeOK
  BY DEF IInv
<1> QED BY <1>1, Inductive, PTL

(* However many uploads of the same bytes race, under whatever names and   *)
(* ending wherever, no two sources of the investigation have the same      *)
(* content.                                                                *)
THEOREM UniqueContent == Spec => []OneSourcePerContent
<1>1. IInv => OneSourcePerContent
  BY DEF IInv
<1> QED BY <1>1, Inductive, PTL

(* A source that no two calls worked on at once is READY only while its    *)
(* mappings are confirmed and cover the type of its analysis.              *)
THEOREM ReadySourceIsReviewed == Spec => []ReadyIsReviewed
<1>1. IInv => ReadyIsReviewed
  BY DEF IInv, SourcesSound, SourceSound, ReadyIsReviewed
<1> QED BY <1>1, Inductive, PTL

(* Such a source has its file on disk once it is analyzed, whatever        *)
(* uploads were refused, replaced or found to be duplicates.               *)
THEOREM AnalyzedSourceHasFile == Spec => []AnalyzedHasFile
<1>1. IInv => AnalyzedHasFile
  BY DEF IInv, SourcesSound, SourceSound, AnalyzedHasFile
<1> QED BY <1>1, Inductive, PTL

(* While the set of sources has one writer at a time and no source two,    *)
(* the investigation is a DRAFT exactly while it has no source.            *)
THEOREM DraftIsEmpty == Spec => []DraftIffEmpty
<1>1. IInv => DraftIffEmpty
  BY DEF IInv, CountsSound, DraftIffEmpty
<1> QED BY <1>1, Inductive, PTL

-----------------------------------------------------------------------------
(* Only a Drop deletes a READY source.                                     *)
LEMMA OnlyDropDeletes ==
  ASSUME IInv, [Next]_vars, NEW s \in Source, Ready(s), row'[s] = Deleted
  PROVE  \E w \in Worker :
           \/ At(w, "dropping") /\ call[w].source = s
           \/ At(w, "replacing") /\ call[w].drop = s /\ Goto(w, [call[w] EXCEPT
                !.phase = "clearing", !.drop = None, !.last = FALSE])
<1>1. row \in [Source -> Row] /\ row[s].status = "READY" /\ row'[s].status = "deleted"
  BY DEF IInv, TypeOK, Ready, Deleted
<1>2. row' # row
  BY <1>1
<1>3. ASSUME NEW r \in Source, NEW st \in {"ANALYZING", "MAPPING_REQUIRED", "FAILED"},
             SetState(r, st)
      PROVE  FALSE
  BY <1>1, <1>3 DEF SetState, IInv, TypeOK, Row
<1>4. ASSUME NEW w \in Worker, Insert(w) PROVE FALSE
  <2>1. CASE row' = row
    BY <1>2, <2>1
  <2>2. CASE row' = [row EXCEPT ![call[w].source] =
                       [status |-> "UPLOADED", name |-> call[w].name,
                        content |-> call[w].content]]
    BY <1>1, <2>2
  <2> QED BY <1>4, <2>1, <2>2 DEF Insert, tables
<1>5. ASSUME NEW w \in Worker, ConfirmSource(w) PROVE FALSE
  <2>1. CASE row' = row
    BY <1>2, <2>1
  <2>2. CASE row' = [row EXCEPT ![call[w].source].status = "READY"]
    BY <1>1, <2>2 DEF Row
  <2> QED BY <1>5, <2>1, <2>2 DEF ConfirmSource
<1>6. \A w \in Worker : call[w].phase # "idle" => call[w].source \in Source
  BY DEF IInv, Carried, Carries
<1>7. ASSUME NEW w \in Worker,
             StartAnalysis(w) \/ FinishAnalysis(w) \/ FailAnalysis(w) \/ SetType(w)
      PROVE FALSE
  BY <1>3, <1>6, <1>7 DEF StartAnalysis, FinishAnalysis, FailAnalysis, SetType, At
<1>8. ASSUME NEW w \in Worker, DropSource(w)
      PROVE  At(w, "dropping") /\ call[w].source = s
  BY <1>1, <1>2, <1>8 DEF DropSource, Drop, tables
<1>9. ASSUME NEW w \in Worker, RemoveUnready(w)
      PROVE  /\ At(w, "replacing") /\ call[w].drop = s
             /\ Goto(w, [call[w] EXCEPT !.phase = "clearing", !.drop = None, !.last = FALSE])
  BY <1>1, <1>2, <1>9 DEF RemoveUnready, Drop, tables
<1>10. ASSUME NEW w \in Worker
       PROVE  /\ \A t \in Source :
                   /\ \A n \in Name, x \in Content : Upload(w, t, n, x) => row' = row
                   /\ Delete(w, t) => row' = row
                   /\ Analyze(w, t) => row' = row
                   /\ Confirm(w, t) => row' = row
                   /\ \A e \in Edit : EditMapping(w, t, e) => row' = row
                   /\ \A k \in Type : Classify(w, t, k) => row' = row
              /\ Abandon(w) => row' = row
  BY DEF Upload, Delete, Analyze, Confirm, EditMapping, Classify, Abandon, tables
<1>11. ASSUME NEW w \in Worker, UploadStep(w)
       PROVE  Insert(w) \/ RemoveUnready(w)
  BY <1>2, <1>11
  DEF UploadStep, MatchName, Compare, Discard, FindContent, PickUnready, Cleared, AnswerUpload,
      UploadRaises, tables
<1>12. ASSUME NEW w \in Worker, DeleteStep(w)
       PROVE  DropSource(w)
  BY <1>2, <1>12 DEF DeleteStep, CountOthers, tables
<1>13. ASSUME NEW w \in Worker, AnalyzeStep(w)
       PROVE  StartAnalysis(w) \/ FinishAnalysis(w) \/ FailAnalysis(w)
  BY <1>2, <1>13
  DEF AnalyzeStep, Reuse, SaveAnalysis, SaveMappings, AnswerAnalysis, AnalysisRaises, tables
<1>14. ASSUME NEW w \in Worker, ReviewStep(w)
       PROVE  ConfirmSource(w) \/ SetType(w)
  BY <1>2, <1>14
  DEF ReviewStep, ChooseMapping, WriteMapping, Cover, Check, ListReady, Promote, SaveType, tables
<1> QED BY <1>2, <1>4, <1>5, <1>7, <1>8, <1>9, <1>10, <1>11, <1>12, <1>13, <1>14
     DEF Next, vars, tables

(* A READY source that no two calls worked on at once is never replaced:   *)
(* only delete_source removes it.                                          *)
THEOREM ReadySourceIsKept == Spec => ReadyIsKept
<1> DEFINE Kept == \A s \in Source \ contended' :
                     Ready(s) /\ row'[s] = Deleted
                       => \E w \in Worker : At(w, "dropping") /\ call[w].source = s
<1>1. IInv /\ [Next]_vars => Kept
  <2> SUFFICES ASSUME IInv, [Next]_vars, NEW s \in Source \ contended', Ready(s), row'[s] = Deleted
               PROVE  \E w \in Worker : At(w, "dropping") /\ call[w].source = s
    OBVIOUS
  <2>1. PICK w \in Worker :
          \/ At(w, "dropping") /\ call[w].source = s
          \/ At(w, "replacing") /\ call[w].drop = s /\ Goto(w, [call[w] EXCEPT
               !.phase = "clearing", !.drop = None, !.last = FALSE])
    BY OnlyDropDeletes
  <2>2. ASSUME call[w].drop = s, Goto(w, [call[w] EXCEPT
                 !.phase = "clearing", !.drop = None, !.last = FALSE])
        PROVE  FALSE
    <3> DEFINE c == [call[w] EXCEPT !.phase = "clearing", !.drop = None, !.last = FALSE]
    <3>1. call[w] \in Call
      BY DEF IInv, TypeOK
    <3>2. c \in Call
      BY <3>1 DEF Call, Phase
    <3>3. Goto(w, c)
      BY <2>2
    <3> HIDE DEF c
    <3>4. CallSound(call[w], s)
      BY <3>2, <3>3, Known
    <3> QED BY <2>2, <3>4 DEF CallSound
  <2> QED BY <2>1, <2>2
<1>2. Kept => [Kept]_vars
  OBVIOUS
<1> QED BY <1>1, Inductive, PTL DEF Spec, ReadyIsKept
=============================================================================
