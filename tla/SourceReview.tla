---------------------------- MODULE SourceReview ----------------------------
(***************************************************************************)
(* The sources of one financial investigation: upload, replacement and     *)
(* deletion (FinancialInvestigationService) and analysis, mapping edits,   *)
(* confirmation and classification (SourceAnalysisService).                *)
(*                                                                         *)
(* Neither service has a lock. A worker is a request of any process; each  *)
(* of its steps is one transaction of the repository, or one statement     *)
(* where a transaction reads what it later writes over, so that requests   *)
(* interleave between any two, and a request may end after any of them.    *)
(*                                                                         *)
(* The idempotency ledger decides whether a call runs at all: a call that  *)
(* meets a known key is answered or refused without touching what is       *)
(* modelled here. The calls below are those whose reservation was won.     *)
(* The detected type of a source, which is shown and never read, is left   *)
(* out; the type that counts is the one of its analysis.                   *)
(***************************************************************************)
EXTENDS Naturals, FiniteSets

CONSTANTS
  Worker, Source,    \* concurrent requests; source_file_ids, each used once
  Name, Content,     \* normalized file names; file contents, by their sha256
  Type, Field,       \* supported source types; canonical fields
  Column,            \* the columns of a file
  Class,             \* Class[c]: the type the offline provider finds, or Unknown
  Required,          \* REQUIRED_FIELDS[t]
  Allowed,           \* CANONICAL_ALIASES[t].values()
  Proposed,          \* Proposed[c][col]: the field the provider proposes
  Unknown, None,     \* SourceType.UNKNOWN; no value
  MaxCalls           \* bound: calls begun

ASSUME ReviewAssumption ==
  /\ Class \in [Content -> Type \cup {Unknown}]
  /\ Required \in [Type -> SUBSET Field]
  /\ Allowed \in [Type -> SUBSET Field]
  /\ Proposed \in [Content -> [Column -> Field \cup {None}]]
  /\ Unknown \notin Type
  /\ None \notin Source \cup Field \cup Column \cup Name \cup Content \cup Type \cup {Unknown}
  /\ "table" \notin Source
  /\ MaxCalls \in Nat

VARIABLES
  row,         \* source_files, by source
  stored,      \* sources whose uploaded file is on disk
  analysis,    \* source_analyses.source_type, by source
  maps,        \* source_mappings, by source
  status,      \* financial_investigations.status
  begun,       \* calls begun so far
  call,        \* what each worker is doing
  contended    \* history: what two calls worked on at the same time

tables == <<row, analysis, maps, status>>
vars == <<row, stored, analysis, maps, status, begun, call, contended>>

Kind == Type \cup {Unknown}

Row == [status : {"unused", "deleted", "UPLOADED", "ANALYZING", "MAPPING_REQUIRED",
                  "READY", "FAILED"},
        name : Name \cup {None}, content : Content \cup {None}]
Unused  == [status |-> "unused",  name |-> None, content |-> None]
Deleted == [status |-> "deleted", name |-> None, content |-> None]

Mapping == [field : Field \cup {None}, ignored : BOOLEAN, required : BOOLEAN,
            status : {"PROPOSED", "EDITED", "CONFIRMED"}]
Maps == [id : Nat, of : [{} -> Mapping] \cup [Column -> Mapping]]
NoMaps == [id |-> 0, of |-> [c \in {} |-> None]]

InvestigationStatus == {"DRAFT", "SOURCES_UPLOADED", "MAPPING_REQUIRED",
                        "RELATIONSHIP_REVIEW"}

Edit == [col : Column, field : Field \cup {None}, ignored : BOOLEAN]

Phase == {"idle",
          "matching", "comparing", "hashing", "clearing", "replacing", "inserting",
          "answering", "refusing", "discarding",
          "counting", "dropping",
          "reusing", "starting", "profiling", "proposing", "finishing", "concluding", "failing",
          "choosing", "editing",
          "covering", "checking", "confirming", "reviewing", "promoting",
          "typing", "retyping"}

Call == [phase : Phase, source : Source \cup {None}, name : Name \cup {None},
         content : Content \cup {None}, type : Kind, edit : Edit \cup {None},
         id : Nat, keep : Source \cup {None}, drop : Source \cup {None},
         todo : SUBSET Source, last : BOOLEAN]
Idle == [phase |-> "idle", source |-> None, name |-> None, content |-> None,
         type |-> Unknown, edit |-> None, id |-> 0, keep |-> None, drop |-> None,
         todo |-> {}, last |-> FALSE]

TypeOK ==
  /\ row \in [Source -> Row]
  /\ stored \subseteq Source
  /\ analysis \in [Source -> Kind \cup {None}]
  /\ maps \in [Source -> Maps]
  /\ status \in InvestigationStatus
  /\ begun \in Nat
  /\ call \in [Worker -> Call]
  /\ contended \subseteq Source \cup {"table"}

Init ==
  /\ row = [s \in Source |-> Unused]
  /\ stored = {}
  /\ analysis = [s \in Source |-> None]
  /\ maps = [s \in Source |-> NoMaps]
  /\ status = "DRAFT"
  /\ begun = 0
  /\ call = [w \in Worker |-> Idle]
  /\ contended = {}

-----------------------------------------------------------------------------
Present(s) == row[s].status \notin {"unused", "deleted"}
Sources    == {s \in Source : Present(s)}
Ready(s)   == row[s].status = "READY"

Uploading == {"matching", "comparing", "hashing", "clearing", "replacing", "inserting",
              "answering", "refusing", "discarding"}

(* What a call works on: uploads and deletions on the set of sources too.  *)
Touched(c) ==
  (({c.source, c.keep, c.drop} \cup c.todo) \ {None})
    \cup (IF c.phase \in Uploading \cup {"counting", "dropping"} THEN {"table"} ELSE {})

(* Worker w goes on as c.                                                  *)
Goto(w, c) ==
  /\ call' = [call EXCEPT ![w] = c]
  /\ contended' = contended \cup
       {x \in Touched(c) : \E v \in Worker \ {w} : x \in Touched(call[v])}
Enter(w, phase) == Goto(w, [call[w] EXCEPT !.phase = phase])
Return(w) == Goto(w, Idle)
Begin(w, c) ==
  /\ call[w].phase = "idle"
  /\ begun < MaxCalls
  /\ begun' = begun + 1
  /\ Goto(w, c)

At(w, phase) == call[w].phase = phase

(* The fields a source's mappings provide.                                 *)
Mapped(s) ==
  {maps[s].of[c].field : c \in {d \in DOMAIN maps[s].of : ~ maps[s].of[d].ignored}} \ {None}

(* update_source_analysis_state; it updates no source that is gone, but    *)
(* the status of the investigation all the same.                           *)
SetState(s, st) ==
  /\ row' = IF Present(s) THEN [row EXCEPT ![s].status = st] ELSE row
  /\ status' = IF status \in {"SOURCES_UPLOADED", "MAPPING_REQUIRED"}
               THEN "MAPPING_REQUIRED" ELSE status

(* Mutant: the status is left alone.                                       *)
DropKeepsStatus(s, last) ==
  /\ row' = [row EXCEPT ![s] = Deleted]
  /\ analysis' = [analysis EXCEPT ![s] = None]
  /\ maps' = [maps EXCEPT ![s] = NoMaps]
  /\ status' = status
  /\ stored' \in {stored, stored \ {s}}

(* delete_source_file commits; analysis and mappings go by cascade. last:  *)
(* no other source was counted. The caller then removes the file, unless   *)
(* it ends before or the file system refuses.                              *)
Drop(s, last) ==
  /\ row' = [row EXCEPT ![s] = Deleted]
  /\ analysis' = [analysis EXCEPT ![s] = None]
  /\ maps' = [maps EXCEPT ![s] = NoMaps]
  /\ status' = IF last THEN "DRAFT" ELSE status
  /\ stored' \in {stored, stored \ {s}}

-----------------------------------------------------------------------------
(* upload_source and add_source. The file is stored under the new id.      *)
Upload(w, s, n, c) ==
  /\ row[s] = Unused
  /\ s \notin stored
  /\ \A v \in Worker : call[v].source # s
  /\ stored' = stored \cup {s}
  /\ Begin(w, [Idle EXCEPT !.phase = "matching", !.source = s, !.name = n, !.content = c])
  /\ UNCHANGED tables

(* _find_sources_by_filename                                               *)
MatchName(w) ==
  LET same == {s \in Sources : row[s].name = call[w].name}
      unready == {s \in same : ~ Ready(s)}
  IN
  /\ At(w, "matching")
  /\ \/ \E k \in same \ unready :
          Goto(w, [call[w] EXCEPT !.phase = "comparing", !.keep = k, !.todo = unready])
     \/ /\ same = unready
        /\ Goto(w, [call[w] EXCEPT !.phase = "hashing", !.todo = unready])
  /\ UNCHANGED <<tables, stored, begun>>

(* A successful source has the name. Its row carries the hash as           *)
(* content_sha256, the code compares sha256: they never agree, and the     *)
(* upload is refused unless the source is gone.                            *)
Compare(w) ==
  /\ At(w, "comparing")
  /\ Enter(w, IF Present(call[w].keep) THEN "refusing" ELSE "clearing")
  /\ UNCHANGED <<tables, stored, begun>>

(* Mutant: the file that goes is the one of the source in the answer.      *)
DiscardKept(w) ==
  /\ call[w].phase \in {"refusing", "discarding"}
  /\ stored' = stored \ {call[w].keep}
  /\ Return(w)
  /\ UNCHANGED <<tables, begun>>

(* upload_source removes the file of an upload that is refused or found to *)
(* be a duplicate.                                                         *)
Discard(w) ==
  /\ call[w].phase \in {"refusing", "discarding"}
  /\ stored' = stored \ {call[w].source}
  /\ Return(w)
  /\ UNCHANGED <<tables, begun>>

(* Mutant: a twin is replaced, READY or not.                               *)
FindContentReplaces(w) ==
  LET twins == {s \in Sources : row[s].content = call[w].content} IN
  /\ At(w, "hashing")
  /\ Goto(w, [call[w] EXCEPT !.phase = "clearing", !.todo = @ \cup twins])
  /\ UNCHANGED <<tables, stored, begun>>

(* _find_existing_source                                                   *)
FindContent(w) ==
  LET twins == {s \in Sources : row[s].content = call[w].content} IN
  /\ At(w, "hashing")
  /\ \/ \E s \in twins :
          Goto(w, IF Ready(s)
                  THEN [call[w] EXCEPT !.phase = "clearing", !.keep = s]
                  ELSE [call[w] EXCEPT !.phase = "clearing", !.todo = @ \cup {s}])
     \/ twins = {} /\ Enter(w, "clearing")
  /\ UNCHANGED <<tables, stored, begun>>

(* _remove_unready_sources goes by the statuses it was given.              *)
PickUnready(w) ==
  /\ At(w, "clearing")
  /\ \E s \in call[w].todo \ {call[w].keep} :
       Goto(w, [call[w] EXCEPT !.phase = "replacing", !.drop = s, !.todo = @ \ {s},
                               !.last = (Sources \subseteq {s})])
  /\ UNCHANGED <<tables, stored, begun>>

RemoveUnready(w) ==
  /\ At(w, "replacing")
  /\ IF Present(call[w].drop)
     THEN Drop(call[w].drop, call[w].last)
     ELSE UNCHANGED <<tables, stored>>
  /\ Goto(w, [call[w] EXCEPT !.phase = "clearing", !.drop = None, !.last = FALSE])
  /\ UNCHANGED begun

(* All are removed: the upload is a duplicate of keep, or goes on.         *)
Cleared(w) ==
  /\ At(w, "clearing")
  /\ call[w].todo \ {call[w].keep} = {}
  /\ Enter(w, IF call[w].keep # None THEN "discarding" ELSE "inserting")
  /\ UNCHANGED <<tables, stored, begun>>

(* Mutant: the content is not looked up again under the lock.              *)
InsertUnchecked(w) ==
  LET s == call[w].source IN
  /\ At(w, "inserting")
  /\ row' = [row EXCEPT ![s] = [status |-> "UPLOADED", name |-> call[w].name,
                                content |-> call[w].content]]
  /\ status' = IF status = "DRAFT" THEN "SOURCES_UPLOADED" ELSE status
  /\ Enter(w, "answering")
  /\ UNCHANGED <<analysis, maps, stored, begun>>

(* add_source_file, under the lock of the investigation.                   *)
Insert(w) ==
  LET s == call[w].source IN
  /\ At(w, "inserting")
  /\ IF \E x \in Sources : row[x].content = call[w].content
     THEN Enter(w, "discarding") /\ UNCHANGED tables
     ELSE /\ row' = [row EXCEPT ![s] = [status |-> "UPLOADED", name |-> call[w].name,
                                        content |-> call[w].content]]
          /\ status' = IF status = "DRAFT" THEN "SOURCES_UPLOADED" ELSE status
          /\ Enter(w, "answering")
          /\ UNCHANGED <<analysis, maps>>
  /\ UNCHANGED <<stored, begun>>

(* complete_idempotency, the audit event and the response.                 *)
AnswerUpload(w) ==
  /\ At(w, "answering")
  /\ Return(w)
  /\ UNCHANGED <<tables, stored, begun>>

(* Any exception makes upload_source remove the file it stored.            *)
UploadRaises(w) ==
  /\ call[w].phase \in Uploading
  /\ stored' = stored \ {call[w].source}
  /\ Return(w)
  /\ UNCHANGED <<tables, begun>>

-----------------------------------------------------------------------------
(* delete_source: the transaction counts the other sources, then commits.  *)
Delete(w, s) ==
  /\ Present(s)
  /\ Begin(w, [Idle EXCEPT !.phase = "counting", !.source = s])
  /\ UNCHANGED <<tables, stored>>

CountOthers(w) ==
  /\ At(w, "counting")
  /\ Goto(w, [call[w] EXCEPT !.phase = "dropping",
                             !.last = (Sources \subseteq {call[w].source})])
  /\ UNCHANGED <<tables, stored, begun>>

DropSource(w) ==
  LET s == call[w].source IN
  /\ At(w, "dropping")
  /\ IF Present(s)
     THEN Drop(s, call[w].last)
     ELSE UNCHANGED <<tables, stored>>
  /\ Return(w)
  /\ UNCHANGED begun

-----------------------------------------------------------------------------
(* analyze. The status of the source is read before the reservation and    *)
(* not again: a READY source with an analysis is answered from it.         *)
Analyze(w, s) ==
  /\ Present(s)
  /\ Begin(w, [Idle EXCEPT !.phase = IF Ready(s) THEN "reusing" ELSE "starting",
                          !.source = s, !.content = row[s].content,
                           !.id = begun + 1])
  /\ UNCHANGED <<tables, stored>>

Reuse(w) ==
  /\ At(w, "reusing")
  /\ IF analysis[call[w].source] # None THEN Return(w) ELSE Enter(w, "starting")
  /\ UNCHANGED <<tables, stored, begun>>

StartAnalysis(w) ==
  /\ At(w, "starting")
  /\ SetState(call[w].source, "ANALYZING")
  /\ Enter(w, "profiling")
  /\ UNCHANGED <<analysis, maps, stored, begun>>

(* The file is read, classified and mapped; save_source_analysis, which    *)
(* saves nothing for a source that is gone.                                *)
SaveAnalysis(w) ==
  LET s == call[w].source IN
  /\ At(w, "profiling")
  /\ s \in stored /\ Present(s)
  /\ analysis' = [analysis EXCEPT ![s] = Class[call[w].content]]
  /\ Enter(w, "proposing")
  /\ UNCHANGED <<row, maps, status, stored, begun>>

(* _mapping_records: what is not allowed for the type is ignored.          *)
Proposals(c) ==
  LET t == Class[c]
      Canonical(col) == IF t \in Type /\ Proposed[c][col] \in Allowed[t]
                        THEN Proposed[c][col] ELSE None
  IN [col \in Column |->
        [field |-> Canonical(col), ignored |-> Canonical(col) = None,
         required |-> t \in Type /\ Canonical(col) \in Required[t],
         status |-> "PROPOSED"]]

SaveMappings(w) ==
  LET s == call[w].source IN
  /\ At(w, "proposing")
  /\ Present(s)
  /\ maps' = [maps EXCEPT ![s] = [id |-> call[w].id, of |-> Proposals(call[w].content)]]
  /\ Enter(w, "finishing")
  /\ UNCHANGED <<row, analysis, status, stored, begun>>

FinishAnalysis(w) ==
  /\ At(w, "finishing")
  /\ SetState(call[w].source, "MAPPING_REQUIRED")
  /\ Enter(w, "concluding")
  /\ UNCHANGED <<analysis, maps, stored, begun>>

(* The audit event, complete_idempotency and the response.                 *)
AnswerAnalysis(w) ==
  /\ At(w, "concluding")
  /\ Return(w)
  /\ UNCHANGED <<tables, stored, begun>>

(* An exception, up to the response: an unreadable file, a source that is  *)
(* gone, the database.                                                     *)
AnalysisRaises(w) ==
  /\ call[w].phase \in {"starting", "profiling", "proposing", "finishing", "concluding"}
  /\ Enter(w, "failing")
  /\ UNCHANGED <<tables, stored, begun>>

FailAnalysis(w) ==
  /\ At(w, "failing")
  /\ SetState(call[w].source, "FAILED")
  /\ Return(w)
  /\ UNCHANGED <<analysis, maps, stored, begun>>

-----------------------------------------------------------------------------
(* update_mapping: the analysis is read, then the mapping is looked up and *)
(* checked, then it is written.                                            *)
EditMapping(w, s, e) ==
  /\ analysis[s] # None
  /\ e.field # None => analysis[s] \in Type /\ e.field \in Allowed[analysis[s]]
  /\ Begin(w, [Idle EXCEPT !.phase = "choosing", !.source = s, !.edit = e])
  /\ UNCHANGED <<tables, stored>>

Editable(s, col) ==
  /\ col \in DOMAIN maps[s].of
  /\ maps[s].of[col].status # "CONFIRMED"

ChooseMapping(w) ==
  LET s == call[w].source IN
  /\ At(w, "choosing")
  /\ IF Editable(s, call[w].edit.col)
     THEN Goto(w, [call[w] EXCEPT !.phase = "editing", !.id = maps[s].id])
     ELSE Return(w)
  /\ UNCHANGED <<tables, stored, begun>>

(* update_source_mapping finds the mapping by its id, whatever its status. *)
WriteMapping(w) ==
  LET s == call[w].source
      e == call[w].edit
  IN
  /\ At(w, "editing")
  /\ maps' = IF maps[s].id = call[w].id
             THEN [maps EXCEPT ![s].of[e.col] = [@ EXCEPT !.field = e.field,
                                                          !.ignored = e.ignored,
                                                          !.status = "EDITED"]]
             ELSE maps
  /\ Return(w)
  /\ UNCHANGED <<row, analysis, status, stored, begun>>

-----------------------------------------------------------------------------
(* confirm_mappings: the type is read, then the mappings; their fields     *)
(* must cover what the type requires.                                      *)
Confirm(w, s) ==
  /\ analysis[s] \in Type
  /\ Begin(w, [Idle EXCEPT !.phase = "covering", !.source = s, !.type = analysis[s]])
  /\ UNCHANGED <<tables, stored>>

Covers(s, t) == Required[t] \subseteq Mapped(s)

Cover(w) ==
  /\ At(w, "covering")
  /\ IF Covers(call[w].source, call[w].type) THEN Enter(w, "checking") ELSE Return(w)
  /\ UNCHANGED <<tables, stored, begun>>

(* confirm_source_mappings lists the mappings in a transaction of its own. *)
(* It goes by the flag required, which the analysis set for its type.      *)
Confirmable(s) ==
  /\ DOMAIN maps[s].of # {}
  /\ \A c \in DOMAIN maps[s].of :
       maps[s].of[c].required => ~ maps[s].of[c].ignored /\ maps[s].of[c].field # None

Check(w) ==
  /\ At(w, "checking")
  /\ IF Confirmable(call[w].source) THEN Enter(w, "confirming") ELSE Return(w)
  /\ UNCHANGED <<tables, stored, begun>>

(* Mutant: the mappings get the status of the source.                      *)
ConfirmedAsReady(m) == [m EXCEPT !.status = "READY"]

Confirmed(m) == [m EXCEPT !.status = "CONFIRMED"]

(* ... and then confirms whatever mappings the source has.                 *)
ConfirmSource(w) ==
  LET s == call[w].source IN
  /\ At(w, "confirming")
  /\ maps' = [maps EXCEPT ![s].of =
                [c \in DOMAIN @ |-> Confirmed(@[c])]]
  /\ row' = IF Present(s) THEN [row EXCEPT ![s].status = "READY"] ELSE row
  /\ status' = IF \A x \in Sources : Ready(x) \/ x = s
               THEN "RELATIONSHIP_REVIEW" ELSE status
  /\ Enter(w, "reviewing")
  /\ UNCHANGED <<analysis, stored, begun>>

(* confirm_mappings lists the sources again and sets the status again.     *)
ListReady(w) ==
  /\ At(w, "reviewing")
  /\ IF Sources # {} /\ \A x \in Sources : Ready(x)
     THEN Enter(w, "promoting") ELSE Return(w)
  /\ UNCHANGED <<tables, stored, begun>>

Promote(w) ==
  /\ At(w, "promoting")
  /\ status' = "RELATIONSHIP_REVIEW"
  /\ Return(w)
  /\ UNCHANGED <<row, analysis, maps, stored, begun>>

-----------------------------------------------------------------------------
(* update_classification: the state of the source, then its analysis.      *)
Classify(w, s, t) ==
  /\ analysis[s] # None
  /\ Begin(w, [Idle EXCEPT !.phase = "typing", !.source = s, !.type = t])
  /\ UNCHANGED <<tables, stored>>

(* Mutant: the source keeps its status.                                    *)
SetTypeKeepsStatus(w) ==
  LET s == call[w].source IN
  /\ At(w, "typing")
  /\ SetState(s, row[s].status)
  /\ Enter(w, "retyping")
  /\ UNCHANGED <<analysis, maps, stored, begun>>

SetType(w) ==
  /\ At(w, "typing")
  /\ SetState(call[w].source, "MAPPING_REQUIRED")
  /\ Enter(w, "retyping")
  /\ UNCHANGED <<analysis, maps, stored, begun>>

SaveType(w) ==
  LET s == call[w].source IN
  /\ At(w, "retyping")
  /\ analysis' = IF Present(s) THEN [analysis EXCEPT ![s] = call[w].type] ELSE analysis
  /\ Return(w)
  /\ UNCHANGED <<row, maps, status, stored, begun>>

-----------------------------------------------------------------------------
(* A call ends early: its process dies, or it raises and what is left to   *)
(* do is to release its key.                                               *)
Abandon(w) ==
  /\ ~ At(w, "idle")
  /\ Return(w)
  /\ UNCHANGED <<tables, stored, begun>>

UploadStep(w) ==
  \/ MatchName(w) \/ Compare(w) \/ Discard(w) \/ FindContent(w) \/ PickUnready(w)
  \/ RemoveUnready(w) \/ Cleared(w) \/ Insert(w) \/ AnswerUpload(w) \/ UploadRaises(w)
DeleteStep(w) == CountOthers(w) \/ DropSource(w)
AnalyzeStep(w) ==
  \/ Reuse(w) \/ StartAnalysis(w) \/ SaveAnalysis(w) \/ SaveMappings(w)
  \/ FinishAnalysis(w) \/ AnswerAnalysis(w) \/ AnalysisRaises(w) \/ FailAnalysis(w)
ReviewStep(w) ==
  \/ ChooseMapping(w) \/ WriteMapping(w)
  \/ Cover(w) \/ Check(w) \/ ConfirmSource(w) \/ ListReady(w) \/ Promote(w)
  \/ SetType(w) \/ SaveType(w)

Next ==
  \E w \in Worker :
    \/ \E s \in Source :
         \/ \E n \in Name, c \in Content : Upload(w, s, n, c)
         \/ Delete(w, s) \/ Analyze(w, s) \/ Confirm(w, s)
         \/ \E e \in Edit : EditMapping(w, s, e)
         \/ \E t \in Type : Classify(w, s, t)
    \/ UploadStep(w) \/ DeleteStep(w) \/ AnalyzeStep(w) \/ ReviewStep(w) \/ Abandon(w)

Spec == Init /\ [][Next]_vars

-----------------------------------------------------------------------------
(* The bytes of a file are attached to an investigation once, however many *)
(* uploads of them race, under whatever names, and whatever they replace.  *)
OneSourcePerContent ==
  \A x, y \in Sources : row[x].content = row[y].content => x = y

(* Confirmed, and every field that the type of the analysis requires is    *)
(* provided by a column that is not ignored.                               *)
Reviewed(s) ==
  /\ analysis[s] \in Type
  /\ DOMAIN maps[s].of # {}
  /\ \A c \in DOMAIN maps[s].of : maps[s].of[c].status = "CONFIRMED"
  /\ Covers(s, analysis[s])

(* docs/data_api.md:58, "READY only after required mappings are explicitly *)
(* confirmed": a source that no two calls worked on at the same time is    *)
(* READY only while the mappings it has are confirmed and cover its type,  *)
(* after any sequence of analyses, edits, confirmations, classifications   *)
(* and calls that died or failed half way.                                 *)
ReadyIsReviewed ==
  \A s \in Source \ contended : Ready(s) => Reviewed(s)

(* Under the same condition the file of a source that got through its      *)
(* analysis is on disk, where normalization reads it again: no upload that *)
(* was refused, replaced or a duplicate removed another source's file.     *)
AnalyzedHasFile ==
  \A s \in Source \ contended :
    row[s].status \in {"MAPPING_REQUIRED", "READY"} => s \in stored

(* Under the same condition an upload never removes a READY source: it is  *)
(* gone only by delete_source.                                             *)
ReadyIsKept ==
  [][\A s \in Source \ contended' :
       Ready(s) /\ row'[s] = Deleted
         => \E w \in Worker : At(w, "dropping") /\ call[w].source = s]_vars

(* While no two calls worked on the set of sources, or on one source, at   *)
(* the same time, the investigation is a DRAFT exactly while it is empty.  *)
DraftIffEmpty ==
  contended = {} => (status = "DRAFT" <=> Sources = {})

-----------------------------------------------------------------------------
(* What the documents say and the code does not do.                        *)

(* docs/data_api.md:46, "An already successful source is a locked logical  *)
(* source: re-uploading its bytes, even with a new filename or idempotency *)
(* key, is a no-op and the response marks it with deduplicated": an upload *)
(* is not refused for a source of the same content.                        *)
LockedSourceIsDeduplicated ==
  \A w \in Worker :
    At(w, "refusing") /\ Present(call[w].keep)
      => row[call[w].keep].content # call[w].content

(* NormalizationService.normalize passes its checks of the sources.        *)
Normalizable ==
  /\ Sources # {}
  /\ \A s \in Sources :
       /\ analysis[s] \in Type
       /\ \A c \in DOMAIN maps[s].of : maps[s].of[c].status = "CONFIRMED"

(* docs/data_api.md:93, "Normalization is blocked until every source has   *)
(* confirmed required mappings": while no call is under way, normalize     *)
(* accepts only sources that have every field their type requires.         *)
NormalizationIsBlocked ==
  (\A w \in Worker : At(w, "idle")) /\ Normalizable => \A s \in Sources : Covers(s, analysis[s])

(* source_analysis/service.py:249, "Confirmed mappings cannot be edited;   *)
(* re-analyze the source to create a new proposal": a column whose mapping *)
(* is confirmed provides the same field until a new analysis.              *)
ConfirmedIsNotEdited ==
  [][\A s \in Source : maps'[s].id = maps[s].id =>
       \A c \in DOMAIN maps[s].of :
         LET m == maps[s].of[c] n == maps'[s].of[c] IN
         m.status = "CONFIRMED" => n.field = m.field /\ n.ignored = m.ignored]_vars
=============================================================================
