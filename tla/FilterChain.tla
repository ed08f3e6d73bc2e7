---------------------------- MODULE FilterChain ----------------------------
(***************************************************************************)
(* The filter stage: executeFilters (internal/runtime/pipeline.go) hands   *)
(* the batch from filter to filter; condition and loop call filters of     *)
(* their own for one record or one array item at a time                    *)
(* (internal/modules/filter).  The calls of Process that are under way     *)
(* form a stack, and an error travels down it.                             *)
(*                                                                         *)
(* What filters compute is left out: a record may fail in any filter, and  *)
(* what is followed is who is told: the error markers of the record        *)
(* (_errors), their tally, and the records dropped.  The configuration is  *)
(* chosen as it is met, one filter at a time.                              *)
(***************************************************************************)
EXTENDS Batch, FiniteSets

CONSTANTS Filters,     \* filters to consider
          MaxFilters,  \* bound: filters of the pipeline
          MaxLoad,     \* bound: records times filters
          MaxNested,   \* bound: filters of a branch or of a loop
          MaxDepth,    \* bound: filters within filters, the outer one counted
          MaxItems,    \* bound: items of an array a loop runs over
          Aliases      \* item names of loops

(* What the constructors make.  alias: itemName of a loop, which the other  *)
(* kinds do not have; set, remove and drop have no onError either, and an  *)
(* error of theirs fails the batch.                                        *)
OnErrors == {"fail", "skip", "log"}

Mappings   == [kind : {"mapping"},   onError : OnErrors, alias : Aliases]
Calls      == [kind : {"call"},      onError : OnErrors, alias : Aliases]
Scripts    == [kind : {"script"},    onError : OnErrors, alias : Aliases]
Conditions == [kind : {"condition"}, onError : OnErrors, alias : Aliases]
Loops      == [kind : {"loop"},      onError : OnErrors, alias : Aliases]
Removes    == [kind : {"remove"},    onError : {"fail"}, alias : Aliases]
Others     == [kind : {"set", "drop"}, onError : {"fail"}, alias : Aliases]

ASSUME FilterChainAssumption ==
    /\ \A f \in Filters : \E made \in {Mappings, Calls, Scripts, Conditions, Loops,
                                       Removes, Others} : f \in made
    /\ {MaxFilters, MaxLoad, MaxNested, MaxDepth, MaxItems} \subseteq Nat
    /\ MaxDepth # 0

VARIABLES stage,    \* filters run so far
          stack,    \* the calls of Process under way, the innermost last
          raised,   \* a Process has just returned an error
          marks,    \* error markers each record carries
          stale,    \* history: records a filter failed on
          carried,  \* history: records whose source sent a _errors of its own
          tally,    \* MarkerTally: markers written
          aliases,  \* _metadata.loop of the record: loops whose item is in scope
          used      \* history: what the filters met so far are free to do

chainVars == <<stage, stack, raised, marks, stale, carried, tally, aliases, used>>

(* The map a loop builds around an item and hands to its filters.  What    *)
(* they write beside the item, a marker included, dies with it.            *)
Scope == 0

(* One call of Process.  at: before a record, before an item of its array, *)
(* or in the nested filters, with `nested' handed from one to the next.    *)
Frame == [filter : Filters, todo : Seq(Ids \cup {Scope}), out : Seq(Ids \cup {Scope}),
          at : {"record", "item", "nested"}, nested : Seq(Ids \cup {Scope}),
          ran : 0 .. MaxNested, items : 0 .. MaxItems]

FilterTypeOK ==
    /\ stage \in 0 .. MaxFilters
    /\ stack \in Seq(Frame) /\ Len(stack) <= MaxDepth
    /\ raised \in BOOLEAN
    /\ marks \in [Ids -> Nat]
    /\ stale \subseteq Ids /\ carried \subseteq Ids
    /\ tally \in 0 .. MaxTroubles
    /\ aliases \subseteq Aliases
    /\ used \subseteq {"remove", "hide"}

FilterInit ==
    /\ stage = 0 /\ stack = <<>> /\ raised = FALSE
    /\ marks = [r \in Ids |-> 0] /\ stale = {} /\ carried = {} /\ tally = 0
    /\ aliases = {} /\ used = {}

top    == Last(stack)
record == Head(top.todo)

Within(at, kinds) == ~raised /\ stack # <<>> /\ top.at = at /\ top.filter.kind \in kinds
AtRecord(kinds)   == Within("record", kinds) /\ top.todo # <<>>

SetTop(frame) == stack' = [stack EXCEPT ![Len(stack)] = frame]

-----------------------------------------------------------------------------
(* What becomes of the record a filter is at.                              *)

Result(rs) == SetTop([top EXCEPT !.todo = Tail(@), !.out = @ \o rs, !.at = "record",
                                 !.nested = <<>>, !.ran = 0, !.items = 0])
Keep == Result(<<record>>) /\ UNCHANGED raised
Drop == Result(<<>>) /\ UNCHANGED raised

(* Process returns an error: its caller is next.                           *)
Raise == stack' = Front(stack) /\ raised' = TRUE

(* AnnotateRecord appends a marker to the _errors of the record.           *)
AnnotateRecord(r) ==
    marks' = IF r = Scope THEN marks ELSE [marks EXCEPT ![r] = @ + 1]

Stale(r) == stale' = stale \cup ({r} \ {Scope})

(* Fault: the marker counted by its writer and again by the filter.        *)
TallyMarker_Twice == tally' = tally + 2

(* MarkerTally.Record. *)
TallyMarker == tally' = tally + 1

(* ValidateRecordTarget keeps every filter off _errors but remove, which   *)
(* may target it, and script, whose object is its own.                     *)
MayClear(f) == f.kind \in {"remove", "script"}

ClearMarkers(r) ==
    marks' = IF r \in Ids /\ MayClear(top.filter) THEN [marks EXCEPT ![r] = 0] ELSE marks

(* Fault: log drops the record it has marked.                              *)
HandleRecordError_LogDrops ==
    CASE top.filter.onError = "fail" -> Raise /\ UNCHANGED <<marks, tally>>
      [] top.filter.onError = "skip" -> Drop /\ UNCHANGED <<marks, tally>>
      [] OTHER -> Drop /\ AnnotateRecord(record) /\ TallyMarker

(* Fault: the marked copy is not the record that goes on.                  *)
HandleRecordError_Unmarked ==
    CASE top.filter.onError = "fail" -> Raise /\ UNCHANGED <<marks, tally>>
      [] top.filter.onError = "skip" -> Drop /\ UNCHANGED <<marks, tally>>
      [] OTHER -> Keep /\ UNCHANGED marks /\ TallyMarker

(* HandleRecordError, which mapping and the calls use: what is kept is     *)
(* marked, what is marked is tallied.                                      *)
HandleRecordError ==
    CASE top.filter.onError = "fail" -> Raise /\ UNCHANGED <<marks, tally>>
      [] top.filter.onError = "skip" -> Drop /\ UNCHANGED <<marks, tally>>
      [] OTHER -> Keep /\ AnnotateRecord(record) /\ TallyMarker

(* script and loop have a switch of their own, without marker or tally.    *)
KeepUnmarked ==
    CASE top.filter.onError = "fail" -> Raise
      [] top.filter.onError = "skip" -> Drop
      [] OTHER -> Keep

-----------------------------------------------------------------------------
(* A Process begins and ends.                                              *)

NewFrame(f, batch) ==
    [filter |-> f, todo |-> IF f.kind = "drop" THEN <<>> ELSE batch, out |-> <<>>,
     at |-> "record", nested |-> <<>>, ran |-> 0, items |-> 0]

(* set, remove, drop and script look at ctx before anything else.          *)
ChecksContextFirst(f) == f.kind \in {"set", "remove", "drop", "script"}

(* Filters that may take a record out of the batch.                        *)
MayRemove(f) ==
    \/ f.kind = "drop"
    \/ f.onError = "skip" /\ f.kind \notin {"set", "remove"}
    \/ f.onError = "log" /\ f.kind = "condition"

(* Filters that may keep a failed record without a word, or clear markers. *)
Silent(f) == MayClear(f) \/ (f.kind \in {"condition", "loop"} /\ f.onError # "fail")

Freedom(f) == (IF MayRemove(f) THEN {"remove"} ELSE {})
                \cup (IF Silent(f) THEN {"hide"} ELSE {})

(* newScriptRun: the top level of the script throws, and the whole batch   *)
(* fails whatever onError says.                                            *)
ScriptDoesNotLoad(f) == f.kind = "script" /\ Trouble

Enter(f, batch, callers) ==
    /\ used' = IF ToSet(batch) \subseteq {Scope} THEN used ELSE used \cup Freedom(f)
    /\ \/ /\ ~(cancelled /\ ChecksContextFirst(f))
          /\ stack' = Append(callers, NewFrame(f, batch))
          /\ UNCHANGED <<raised, troubles>>
       \/ /\ cancelled /\ ChecksContextFirst(f)
          /\ stack' = callers /\ raised' = TRUE /\ UNCHANGED troubles
       \/ ScriptDoesNotLoad(f) /\ stack' = callers /\ raised' = TRUE
    /\ UNCHANGED <<records, marks, stale, carried, tally, aliases>>

(* executeFilters: the next filter of the pipeline.                        *)
StartFilter(f) ==
    /\ ~raised /\ stack = <<>>
    /\ stage < MaxFilters /\ (stage + 1) * Len(records) <= MaxLoad
    /\ stage' = stage + 1
    /\ Enter(f, records, stack)

(* runNestedModules and runNested: the next filter of a branch or a loop,  *)
(* which hold any filter, themselves included.                             *)
StartNested(f) ==
    /\ Within("nested", {"condition", "loop"})
    /\ top.nested # <<>> /\ top.ran < MaxNested /\ Len(stack) < MaxDepth
    /\ Enter(f, top.nested, [stack EXCEPT ![Len(stack)].ran = @ + 1])
    /\ UNCHANGED stage

(* Process returns its result.                                             *)
Return ==
    /\ ~raised /\ stack # <<>> /\ top.at = "record" /\ top.todo = <<>>
    /\ LET callers == Front(stack)
       IN  IF callers = <<>>
           THEN stack' = <<>> /\ records' = top.out
           ELSE /\ stack' = [callers EXCEPT ![Len(callers)].nested = top.out]
                /\ UNCHANGED records
    /\ UNCHANGED <<stage, raised, marks, stale, carried, tally, aliases, used, troubles>>

-----------------------------------------------------------------------------
(* The filters that hold no others.  All of them edit the record in place. *)

(* processRecord of mapping: a source field is missing, a transformation   *)
(* fails, a target cannot be written. The mappings already applied stay.   *)
MappingFails == Trouble /\ Stale(record)

MapRecord ==
    /\ AtRecord({"mapping"})
    /\ \/ Keep /\ UNCHANGED <<marks, stale, tally, troubles>>
       \/ MappingFails /\ HandleRecordError
    /\ UNCHANGED <<records, stage, carried, aliases, used>>

(* The calls fail in many ways (CallFilter), and look at ctx first.        *)
CallRecord ==
    /\ AtRecord({"call"}) /\ ~cancelled
    /\ \/ Keep /\ UNCHANGED <<marks, stale, tally, troubles>>
       \/ Trouble /\ HandleRecordError /\ Stale(record)
    /\ UNCHANGED <<records, stage, carried, aliases, used>>

(* An error of set fails the batch.                                        *)
SetRecord ==
    /\ AtRecord({"set"})
    /\ \/ Keep /\ UNCHANGED <<stale, troubles>>
       \/ Trouble /\ Raise /\ Stale(record)
    /\ UNCHANGED <<records, stage, marks, carried, tally, aliases, used>>

(* remove, of a field or of _errors.                                       *)
RemoveRecord ==
    /\ AtRecord({"remove"})
    /\ Keep
    /\ UNCHANGED marks \/ ClearMarkers(record)
    /\ UNCHANGED <<records, stage, stale, carried, tally, aliases, used, troubles>>

(* transform returns another object, with the markers or without.          *)
Transforms == Keep /\ UNCHANGED <<stale, troubles>> /\ (UNCHANGED marks \/ ClearMarkers(record))

(* It throws, or what it returns is no object.                             *)
TransformFails == Trouble /\ KeepUnmarked /\ Stale(record) /\ UNCHANGED marks

ScriptRecord ==
    /\ AtRecord({"script"}) /\ ~cancelled
    /\ Transforms \/ TransformFails
    /\ UNCHANGED <<records, stage, carried, tally, aliases, used>>

(* call, script and loop look at ctx before each record, and do not ask    *)
(* onError then.                                                           *)
FilterStopsAtContext ==
    /\ AtRecord({"call", "script", "loop"}) /\ cancelled
    /\ Raise
    /\ UNCHANGED <<records, stage, marks, stale, carried, tally, aliases, used, troubles>>

-----------------------------------------------------------------------------
(* condition                                                               *)

(* handleError and what Process does with it: a record whose expression    *)
(* cannot be evaluated is dropped by skip and by log alike.                *)
EvaluationFails == Trouble /\ (IF top.filter.onError = "fail" THEN Raise ELSE Drop)

(* The branch its value selects; an empty one keeps the record.            *)
EnterBranch ==
    /\ SetTop([top EXCEPT !.at = "nested", !.nested = <<record>>])
    /\ UNCHANGED <<raised, troubles>>

ConditionRecord ==
    /\ AtRecord({"condition"})
    /\ EnterBranch \/ EvaluationFails
    /\ UNCHANGED <<records, stage, marks, stale, carried, tally, aliases, used>>

(* The branch has no filter left, or no record.                            *)
ConditionDone ==
    /\ Within("nested", {"condition"})
    /\ Result(top.nested)
    /\ UNCHANGED <<records, stage, raised, marks, stale, carried, tally, aliases, used, troubles>>

(* A nested filter failed: skip and log go on with the next filter of the  *)
(* branch and the record as the failed one left it.                        *)
ConditionCatches ==
    /\ raised /\ stack # <<>> /\ top.filter.kind = "condition"
    /\ \/ top.filter.onError = "fail" /\ Raise
       \/ top.filter.onError # "fail" /\ raised' = FALSE /\ UNCHANGED stack
    /\ UNCHANGED <<records, stage, marks, stale, carried, tally, aliases, used, troubles>>

-----------------------------------------------------------------------------
(* loop                                                                    *)

(* Fault: the clean-up written after the loop, not deferred.               *)
LoopFails_LeavesScope(registered) ==
    /\ UNCHANGED aliases
    /\ KeepUnmarked
    /\ Stale(record)

(* processRecord returns an error; its deferred clean-up takes the alias   *)
(* out of scope, if it was this call that put it there.                    *)
LoopFails(registered) ==
    /\ aliases' = aliases \ registered
    /\ KeepUnmarked
    /\ Stale(record)

(* ensureScopeMap and the clash of item names.                             *)
InScope(alias) == alias \in aliases

(* No array: nothing to do. Not an array, or an item name some loop around *)
(* this one has: an error. Else the alias enters the record's _metadata.   *)
LoopRecord ==
    /\ AtRecord({"loop"}) /\ ~cancelled
    /\ \/ Keep /\ UNCHANGED <<stale, aliases, troubles>>
       \/ Trouble /\ LoopFails({})
       \/ InScope(top.filter.alias) /\ LoopFails({}) /\ UNCHANGED troubles
       \/ /\ ~InScope(top.filter.alias)
          /\ aliases' = aliases \cup {top.filter.alias}
          /\ \E n \in 0 .. MaxItems :
                SetTop([top EXCEPT !.at = "item", !.items = n])
          /\ UNCHANGED <<raised, stale, troubles>>
    /\ UNCHANGED <<records, stage, marks, carried, tally, used>>

(* ctx is looked at before every item, but its error is one of the record. *)
LoopItem ==
    /\ Within("item", {"loop"}) /\ top.items > 0
    /\ IF cancelled
       THEN LoopFails({top.filter.alias})
       ELSE /\ SetTop([top EXCEPT !.at = "nested", !.nested = <<Scope>>, !.ran = 0,
                                  !.items = @ - 1])
            /\ UNCHANGED <<raised, stale, aliases>>
    /\ UNCHANGED <<records, stage, marks, carried, tally, used, troubles>>

(* jsonEqualSnapshot: a filter touched _metadata.loop.                     *)
ScopeTouched == Trouble /\ LoopFails({top.filter.alias})

(* An item that had no fields has some now, which no loop allows.          *)
ItemBecameObject == Trouble /\ LoopFails({top.filter.alias})

(* The item is replaced, or left out when a filter dropped it.             *)
LoopItemDone ==
    /\ Within("nested", {"loop"})
    /\ \/ /\ SetTop([top EXCEPT !.at = "item", !.nested = <<>>, !.ran = 0])
          /\ UNCHANGED <<raised, stale, aliases, troubles>>
       \/ ScopeTouched
       \/ top.nested # <<>> /\ ItemBecameObject
    /\ UNCHANGED <<records, stage, marks, carried, tally, used>>

(* The new array is written back, the alias leaves the scope.              *)
LoopDone ==
    /\ Within("item", {"loop"}) /\ top.items = 0
    /\ \/ Keep /\ aliases' = aliases \ {top.filter.alias} /\ UNCHANGED <<stale, troubles>>
       \/ Trouble /\ LoopFails({top.filter.alias})
    /\ UNCHANGED <<records, stage, marks, carried, tally, used>>

LoopCatches ==
    /\ raised /\ stack # <<>> /\ top.filter.kind = "loop"
    /\ \/ /\ top.filter.onError = "fail" /\ Raise
       \/ /\ top.filter.onError # "fail" /\ raised' = FALSE
          /\ Result(IF top.filter.onError = "log" THEN <<record>> ELSE <<>>)
    /\ aliases' = aliases \ {top.filter.alias}
    /\ Stale(record)
    /\ UNCHANGED <<records, stage, marks, carried, tally, used, troubles>>

FilterStep ==
    /\ \/ \E f \in Filters : StartFilter(f) \/ StartNested(f)
       \/ Return \/ FilterStopsAtContext
       \/ MapRecord \/ CallRecord \/ SetRecord \/ RemoveRecord \/ ScriptRecord
       \/ ConditionRecord \/ ConditionDone \/ ConditionCatches
       \/ LoopRecord \/ LoopItem \/ LoopItemDone \/ LoopDone \/ LoopCatches
    /\ UNCHANGED cancelled

-----------------------------------------------------------------------------
(* What the stage promises.                                                *)

BetweenFilters == stack = <<>> /\ ~raised

(* The stage is over: its histories and the markers play no further part.  *)
Forget ==
    /\ marks' = [r \in Ids |-> 0]
    /\ stage' = 0 /\ tally' = 0
    /\ stale' = {} /\ carried' = {} /\ used' = {}
    /\ UNCHANGED <<stack, raised, aliases>>

(* Records leave the batch through a drop, through skip, or through a      *)
(* condition that cannot be evaluated and is told to log; nothing else     *)
(* loses, reorders or repeats one.                                         *)
OnlySkipOrDropRemoves(batch) ==
    BetweenFilters =>
        /\ \A i, j \in DOMAIN records : i < j => records[i] < records[j]
        /\ "remove" \notin used => records = batch

(* A record that failed in a filter and goes on carries the trace of it,   *)
(* whatever ran before or after, unless a filter of the kinds above was    *)
(* there. A record carries markers only if it failed, or its source sent   *)
(* them; and no marker escapes the tally of the result.                    *)
FailuresAreMarked ==
    BetweenFilters =>
        /\ \A r \in ToSet(records) :
              /\ r \in stale /\ "hide" \notin used => marks[r] > 0
              /\ marks[r] > 0 => r \in stale \cup carried
        /\ tally >= Cardinality({r \in Ids \ carried : marks[r] > 0})

(* _metadata.loop holds the items in scope and nothing else: a loop puts   *)
(* its alias there and takes it away on every way out.                     *)
LoopScopeIsExact ==
    aliases = {stack[i].filter.alias :
                 i \in {j \in DOMAIN stack : /\ stack[j].filter.kind = "loop"
                                             /\ stack[j].at # "record"}}
=============================================================================
