------------------------------- MODULE Studio -------------------------------
(***************************************************************************)
(* The desktop studio: one page (static/index.html) and the server behind  *)
(* it (openflow_ui/app.py).                                                *)
(*                                                                         *)
(* A click starts a fetch and the page goes on; fetches overlap.  The      *)
(* server gives each a thread of its own, and the threads share the dict   *)
(* active_dfs without a lock.  A thread goes from one access of the dict   *)
(* to the next.  The page's handlers run one at a time, in the order in    *)
(* which the replies come in.                                              *)
(*                                                                         *)
(* A frame is told by the preset its rows stem from, by the fetch whose    *)
(* thread computed it (Generated: the preset itself), and by whether the   *)
(* code succeeded: the frame of a failed transform is empty.               *)
(***************************************************************************)
EXTENDS Naturals, FiniteSets

CONSTANTS
    Preset,         \* the presets of generate_dataset
    FirstPreset,    \* the one the page starts with
    Stage,          \* the stages of promoteMedallion
    MaxFetches      \* bound: the fetches of a session, the first load included

ASSUME StudioAssumption ==
    /\ FirstPreset \in Preset
    /\ {"", "output"} \cap Stage = {}
    /\ MaxFetches \in Nat \ {0}

VARIABLES
    frames,         \* active_dfs: <<preset, suffix>> -> frame
    request,        \* per fetch, what was asked, and what was answered by then
    pc,             \* per fetch, its next step
    work,           \* per fetch, the frame in its thread, then in its reply
    currentPreset,
    activeRows,     \* the frame shown in the table
    status,         \* what the page says of the last transform
    calm            \* no preset was chosen over a fetch, no load has failed

vars == <<frames, request, pc, work, currentPreset, activeRows, status, calm>>

Fetch == 1 .. MaxFetches
Generated == 0

Suffix == {"", "output"} \cup Stage
Frame == [of : Preset, by : Fetch \cup {Generated}, ok : BOOLEAN]
NoFrame == [of |-> "none", by |-> Generated, ok |-> FALSE]

Dataset(p) == [of |-> p, by |-> Generated, ok |-> TRUE]

Put(d, k, v) == [x \in DOMAIN d \cup {k} |-> IF x = k THEN v ELSE d[x]]

Get(name) == IF name \in DOMAIN frames THEN frames[name] ELSE NoFrame

Op(f) == request[f].op
Of(f) == request[f].preset

Ended == {"answered", "failed"}
Outstanding == {f \in Fetch : pc[f] \notin {"unsent"} \cup Ended}
Answered == {f \in Fetch : pc[f] = "answered"}

NoRequest == [op |-> "none", preset |-> "none", stage |-> "", after |-> {}]

\* The script ends with loadPreset of the first preset.
Init ==
    /\ frames = [name \in {} |-> NoFrame]
    /\ request = [f \in Fetch |->
                    IF f = 1 THEN [NoRequest EXCEPT !.op = "load", !.preset = FirstPreset]
                             ELSE NoRequest]
    /\ pc = [f \in Fetch |-> IF f = 1 THEN "load" ELSE "unsent"]
    /\ work = [f \in Fetch |-> NoFrame]
    /\ currentPreset = FirstPreset
    /\ activeRows = NoFrame
    /\ status = "READY"
    /\ calm = TRUE

-----------------------------------------------------------------------------
(* Clicks *)

NextFetch(f) == pc[f] = "unsent" /\ \A g \in Fetch : g < f => pc[g] # "unsent"

Send(f, op, preset, stage, start) ==
    /\ NextFetch(f)
    /\ request' = [request EXCEPT ![f] =
                     [op |-> op, preset |-> preset, stage |-> stage, after |-> Answered]]
    /\ pc' = [pc EXCEPT ![f] = start]

\* Deviation: the page changes its preset only when the rows have come.
LoadPresetLater(f) ==
    \E p \in Preset \ {currentPreset} :
        /\ Send(f, "load", p, "", "load")
        /\ calm' = (calm /\ \A g \in Outstanding : Op(g) = "plot")
        /\ UNCHANGED <<frames, work, currentPreset, activeRows, status>>

\* The select element reports changes only.
LoadPreset(f) ==
    \E p \in Preset \ {currentPreset} :
        /\ Send(f, "load", p, "", "load")
        /\ currentPreset' = p
        /\ calm' = (calm /\ \A g \in Outstanding : Op(g) = "plot")
        /\ UNCHANGED <<frames, work, activeRows, status>>

ExecuteTransformation(f) ==
    /\ Send(f, "transform", currentPreset, "", "check")
    /\ status' = "RUNNING"
    /\ UNCHANGED <<frames, work, currentPreset, activeRows, calm>>

RenderPlot(f) ==
    /\ Send(f, "plot", currentPreset, "", "fallback")
    /\ UNCHANGED <<frames, work, currentPreset, activeRows, status, calm>>

PromoteMedallion(f) ==
    \E s \in Stage :
        /\ Send(f, "promote", currentPreset, s, "get")
        /\ UNCHANGED <<frames, work, currentPreset, activeRows, status, calm>>

Click(f) ==
    LoadPreset(f) \/ ExecuteTransformation(f) \/ RenderPlot(f) \/ PromoteMedallion(f)

-----------------------------------------------------------------------------
(* Threads of the server *)

Page == <<currentPreset, activeRows, status, calm>>

Goto(f, label) ==
    /\ pc' = [pc EXCEPT ![f] = label]
    /\ UNCHANGED <<request, Page>>

Hold(f, frame) == work' = [work EXCEPT ![f] = frame]

Base(f) == <<Of(f), "">>
Output(f) == <<Of(f), "output">>

LoadDataset(f) ==
    /\ pc[f] = "load"
    /\ frames' = Put(frames, Base(f), Dataset(Of(f)))
    /\ Hold(f, Dataset(Of(f)))
    /\ Goto(f, "replied")

\* if preset not in self.active_dfs
CheckDataset(f) ==
    /\ pc[f] = "check"
    /\ Goto(f, IF Base(f) \in DOMAIN frames THEN "take" ELSE "fill")
    /\ UNCHANGED <<frames, work>>

\* A missing preset is generated and stored, in three of the handlers.
FillDataset(f) ==
    /\ pc[f] = "fill"
    /\ frames' = Put(frames, Base(f), Dataset(Of(f)))
    /\ Hold(f, Dataset(Of(f)))
    /\ Goto(f, CASE Op(f) = "transform" -> "take"
                 [] Op(f) = "plot"      -> "draw"
                 [] Op(f) = "promote"   -> "stage")

TakeDataset(f) ==
    /\ pc[f] = "take"
    /\ Hold(f, frames[Base(f)])
    /\ Goto(f, "execute")
    /\ UNCHANGED frames

\* Deviation: the output goes under the preset the page shows now.
StoreOutputUnderLatest(f) ==
    /\ pc[f] = "execute"
    /\ \E ok \in BOOLEAN :
        LET out == [of |-> work[f].of, by |-> f, ok |-> ok]
        IN  /\ Hold(f, out)
            /\ frames' = Put(frames, <<currentPreset, "output">>, out)
    /\ Goto(f, "replied")

\* The executor turns an Exception into a result without rows, which is stored
\* like any other.
StoreOutput(f) ==
    /\ pc[f] = "execute"
    /\ \E ok \in BOOLEAN :
        LET out == [of |-> work[f].of, by |-> f, ok |-> ok]
        IN  /\ Hold(f, out)
            /\ frames' = Put(frames, Output(f), out)
    /\ Goto(f, "replied")

\* What escapes the executor, and records no frame can be made of, end the
\* thread: nothing is stored, and there is no reply.
AbandonExecution(f) ==
    /\ pc[f] = "execute"
    /\ Goto(f, "lost")
    /\ UNCHANGED <<frames, work>>

\* The argument of the outer get() is evaluated first.
GetFallback(f) ==
    /\ pc[f] = "fallback"
    /\ Hold(f, Get(Base(f)))
    /\ Goto(f, "prefer")
    /\ UNCHANGED frames

\* Deviation: the output is looked at only when the preset is missing.
PreferDataset(f) ==
    /\ pc[f] = "prefer"
    /\ LET df == IF work[f] # NoFrame THEN work[f] ELSE Get(Output(f))
       IN  Hold(f, df) /\ Goto(f, IF df = NoFrame THEN "fill" ELSE "draw")
    /\ UNCHANGED frames

\* Deviation: nobody looks whether there is a frame at all.
PreferUnchecked(f) ==
    /\ pc[f] = "prefer"
    /\ Hold(f, IF Output(f) \in DOMAIN frames THEN frames[Output(f)] ELSE work[f])
    /\ Goto(f, "draw")
    /\ UNCHANGED frames

PreferOutput(f) ==
    /\ pc[f] = "prefer"
    /\ LET df == IF Output(f) \in DOMAIN frames THEN frames[Output(f)] ELSE work[f]
       IN  Hold(f, df) /\ Goto(f, IF df = NoFrame THEN "fill" ELSE "draw")
    /\ UNCHANGED frames

\* An exception of the plotting code is caught nowhere, and there is no reply;
\* of an empty frame nothing is drawn.
Draw(f) ==
    /\ pc[f] = "draw"
    /\ \/ Goto(f, "replied")
       \/ work[f].ok /\ Goto(f, "lost")
    /\ UNCHANGED <<frames, work>>

GetDataset(f) ==
    /\ pc[f] = "get"
    /\ Hold(f, Get(Base(f)))
    /\ Goto(f, IF Base(f) \in DOMAIN frames THEN "stage" ELSE "fill")
    /\ UNCHANGED frames

StoreStage(f) ==
    /\ pc[f] = "stage"
    /\ LET out == [of |-> work[f].of, by |-> f, ok |-> TRUE]
       IN  Hold(f, out) /\ frames' = Put(frames, <<Of(f), request[f].stage>>, out)
    /\ Goto(f, "replied")

Serve(f) ==
    \/ LoadDataset(f)
    \/ CheckDataset(f)
    \/ FillDataset(f)
    \/ TakeDataset(f)
    \/ StoreOutput(f)
    \/ AbandonExecution(f)
    \/ GetFallback(f)
    \/ PreferOutput(f)
    \/ Draw(f)
    \/ GetDataset(f)
    \/ StoreStage(f)

\* A reply the page cannot use: the connection broke, or a NaN among the rows
\* makes the body no JSON.
LoseReply(f) ==
    /\ pc[f] = "replied"
    /\ Goto(f, "lost")
    /\ UNCHANGED <<frames, work>>

-----------------------------------------------------------------------------
(* Handlers of the page *)

End(f, label) ==
    /\ pc' = [pc EXCEPT ![f] = label]
    /\ UNCHANGED <<frames, request, work, currentPreset>>

\* After the awaits of loadPreset and of promoteMedallion.
ShowRows(f) ==
    /\ pc[f] = "replied"
    /\ Op(f) \in {"load", "promote"}
    /\ activeRows' = work[f]
    /\ End(f, "answered")
    /\ UNCHANGED <<status, calm>>

ShowResult(f) ==
    /\ pc[f] = "replied"
    /\ Op(f) = "transform"
    /\ IF work[f].ok
       THEN activeRows' = work[f] /\ status' = "SUCCEEDED"
       ELSE UNCHANGED activeRows /\ status' = "FAILED"
    /\ End(f, "answered")
    /\ UNCHANGED calm

ShowPlot(f) ==
    /\ pc[f] = "replied"
    /\ Op(f) = "plot"
    /\ End(f, "answered")
    /\ UNCHANGED <<activeRows, status, calm>>

\* Deviation: only the footer tells of a fetch that failed.
FailUnseen(f) ==
    /\ pc[f] = "lost"
    /\ calm' = (calm /\ Op(f) # "load")
    /\ End(f, "failed")
    /\ UNCHANGED <<activeRows, status>>

\* The catch blocks; only the one of executeTransformation sets the status.
Fail(f) ==
    /\ pc[f] = "lost"
    /\ status' = IF Op(f) = "transform" THEN "ERROR" ELSE status
    /\ calm' = (calm /\ Op(f) # "load")
    /\ End(f, "failed")
    /\ UNCHANGED activeRows

Handle(f) == ShowRows(f) \/ ShowResult(f) \/ ShowPlot(f) \/ Fail(f)

Next == \E f \in Fetch : Click(f) \/ Serve(f) \/ LoseReply(f) \/ Handle(f)

Spec == Init /\ [][Next]_vars

\* Each fetch has a thread, and the page's event loop passes over no reply.
\* Nobody has to click.
FairSpec == Spec /\ \A f \in Fetch : WF_vars(Serve(f) \/ Handle(f))

-----------------------------------------------------------------------------
(***************************************************************************)
(* Properties                                                              *)
(***************************************************************************)

Labels ==
    {"unsent", "load", "check", "fill", "take", "execute", "fallback", "prefer",
     "draw", "get", "stage", "replied", "lost", "answered", "failed"}

\* The variables keep their types, and a thread that works on a dataset or
\* replies holds one.
StudioTypeOK ==
    /\ DOMAIN frames \subseteq Preset \X Suffix
    /\ \A name \in DOMAIN frames : frames[name] \in Frame
    /\ pc \in [Fetch -> Labels]
    /\ work \in [Fetch -> Frame \cup {NoFrame}]
    /\ \A f \in Fetch : pc[f] \in {"execute", "draw", "stage", "replied"} => work[f] # NoFrame
    /\ \A f \in Fetch : request[f].after \subseteq Fetch
    /\ currentPreset \in Preset
    /\ activeRows \in Frame \cup {NoFrame}
    /\ status \in {"READY", "RUNNING", "SUCCEEDED", "FAILED", "ERROR"}
    /\ calm \in BOOLEAN

\* Frames do not cross from one preset to another: what is stored under a
\* preset's names, and what a fetch for it replies, stems from it, however the
\* threads' checks, fills and stores interleave.
FramesFiled ==
    /\ \A name \in DOMAIN frames : frames[name].of = name[1]
    /\ \A f \in Fetch : pc[f] \in {"replied", "answered"} => work[f].of = Of(f)

TransformsOf(p) == {t \in Fetch : Op(t) = "transform" /\ Of(t) = p}

\* A plot shows what was executed: once the page has been answered a transform
\* of its preset, a plot it then asks for is drawn from the output of that
\* transform or of one that was not over when that one was asked for; it never
\* falls back to the preset, not even when the preset is loaded in between.
PlotIsFresh ==
    \A f \in Fetch :
        Op(f) = "plot" /\ pc[f] \in {"replied", "answered"} =>
            \A t \in TransformsOf(Of(f)) \cap request[f].after :
                work[f].by \in TransformsOf(Of(f)) \ request[t].after

\* On a page whose presets are only chosen at rest, and none of whose loads has
\* failed, the table belongs to the preset the page names, but for the time
\* its load takes; the transforms and promotions may overlap as they like.
CalmPage ==
    calm /\ (\A f \in Outstanding : Op(f) # "load") => activeRows.of = currentPreset

\* The page does not say "RUNNING" for ever: every transform ends in a
\* success, a failure or an error that the status shows.
StatusSettles == (status = "RUNNING") ~> (status # "RUNNING")

=============================================================================
