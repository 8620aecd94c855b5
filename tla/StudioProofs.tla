---------------------------- MODULE StudioProofs ----------------------------
(***************************************************************************)
(* Proofs about Studio, for any presets, stages and number of fetches: the *)
(* safety properties of the server's threads and of the page.              *)
(***************************************************************************)
EXTENDS Studio, TLAPS

-----------------------------------------------------------------------------
(* The invariant *)

Ops == {"none", "load", "transform", "plot", "promote"}

\* Where the thread of a fetch may be depends on what was asked.
Places(op) ==
    CASE op = "none"      -> {"unsent"}
      [] op = "load"      -> {"load", "replied", "lost"} \cup Ended
      [] op = "transform" -> {"check", "fill", "take", "execute", "replied", "lost"} \cup Ended
      [] op = "plot"      -> {"fallback", "prefer", "fill", "draw", "replied", "lost"} \cup Ended
      [] op = "promote"   -> {"get", "fill", "stage", "replied", "lost"} \cup Ended

Requests == [op : Ops, preset : Preset \cup {"none"},
             stage : Stage \cup {""}, after : SUBSET Fetch]

RequestsOK ==
    /\ request \in [Fetch -> Requests]
    /\ \A f \in Fetch : pc[f] \in Places(Op(f))
    /\ \A f \in Fetch : Op(f) # "none" => Of(f) \in Preset
    /\ \A f \in Fetch : Op(f) = "promote" => request[f].stage \in Stage

\* Frames and what the threads hold are of the preset they are filed or asked
\* under, and a thread that has something to read or send has it.
Held ==
    /\ \A name \in DOMAIN frames : frames[name] # NoFrame /\ frames[name].of = name[1]
    /\ \A f \in Fetch : work[f] = NoFrame \/ work[f].of = Of(f)
    /\ \A f \in Fetch : pc[f] = "unsent" => work[f] = NoFrame
    /\ \A f \in Fetch : pc[f] = "answered" => work[f] # NoFrame
    /\ \A f \in Fetch : pc[f] = "take" => Base(f) \in DOMAIN frames

\* What a page had been answered stays answered; the output of a transform
\* that has replied is its own or one that was stored later; and a plot asked
\* for after it holds such an output.
Fresh ==
    /\ \A f \in Fetch : request[f].after \subseteq Answered
    /\ \A t \in Fetch : Op(t) = "transform" /\ pc[t] \in {"replied", "answered"} =>
         /\ Output(t) \in DOMAIN frames
         /\ frames[Output(t)].by \in TransformsOf(Of(t)) \ request[t].after
    /\ \A f \in Fetch : Op(f) = "plot" =>
         \A t \in TransformsOf(Of(f)) \cap request[f].after :
           /\ pc[f] # "fill"
           /\ pc[f] \in {"draw", "replied", "lost"} \cup Ended =>
                work[f].by \in TransformsOf(Of(f)) \ request[t].after

\* On a calm page whatever is on its way, but for plots, is of its preset.
Calm ==
    calm =>
        /\ \A f \in Outstanding : Op(f) # "plot" => Of(f) = currentPreset
        /\ (\A f \in Outstanding : Op(f) # "load") => activeRows.of = currentPreset

StudioInv == StudioTypeOK /\ RequestsOK /\ Held /\ Fresh /\ Calm

-----------------------------------------------------------------------------
(* Data *)

LEMMA FrameFacts ==
    ASSUME NEW p \in Preset
    PROVE  /\ Dataset(p) \in Frame
           /\ Dataset(p) # NoFrame
           /\ Dataset(p).of = p
BY DEF Dataset, Frame, NoFrame, Generated

\* What a transform or a promotion computes.
LEMMA OutFacts ==
    ASSUME NEW f \in Fetch, NEW p \in Preset, NEW ok \in BOOLEAN
    PROVE  LET out == [of |-> p, by |-> f, ok |-> ok]
           IN  out \in Frame /\ out # NoFrame /\ out.of = p /\ out.by = f
BY DEF Frame, NoFrame, Generated, Fetch

-----------------------------------------------------------------------------
(* The shapes of the steps *)

LEMMA EndPlaces ==
    ASSUME NEW op \in Ops \ {"none"}
    PROVE  {"replied", "lost"} \cup Ended \subseteq Places(op)
BY DEF Ops, Places, Ended

\* What was asked is told by where its thread is.
LEMMA PlaceFacts ==
    ASSUME RequestsOK, NEW f \in Fetch
    PROVE  /\ Op(f) \in Ops
           /\ pc[f] = "unsent" <=> Op(f) = "none"
           /\ pc[f] = "load" => Op(f) = "load"
           /\ pc[f] \in {"check", "take", "execute"} => Op(f) = "transform"
           /\ pc[f] \in {"fallback", "prefer", "draw"} => Op(f) = "plot"
           /\ pc[f] \in {"get", "stage"} => Op(f) = "promote"
           /\ pc[f] = "fill" => Op(f) \in {"transform", "plot", "promote"}
           /\ pc[f] # "unsent" => Of(f) \in Preset
<1>1. Op(f) \in Ops
  BY DEF RequestsOK, Requests, Op
<1>2. pc[f] \in Places(Op(f)) /\ (Op(f) # "none" => Of(f) \in Preset)
  BY DEF RequestsOK
<1> QED BY <1>1, <1>2 DEF Places, Ops, Ended

Statuses == {"READY", "RUNNING", "SUCCEEDED", "FAILED", "ERROR"}

\* A click sends one fetch, which starts at a place its operation has.
LEMMA SendFacts ==
    ASSUME StudioTypeOK, RequestsOK, NEW f \in Fetch,
           NEW op \in Ops \ {"none"}, NEW preset \in Preset, NEW stage, stage \in Stage \cup {""},
           NEW start \in Places(op) \cap {"load", "check", "fallback", "get"},
           Send(f, op, preset, stage, start)
    PROVE  /\ pc[f] = "unsent" /\ Op(f) = "none"
           /\ pc' \in [Fetch -> Labels] /\ pc'[f] = start
           /\ request' \in [Fetch -> Requests]
           /\ Op(f)' = op /\ Of(f)' = preset
           /\ request'[f].stage = stage /\ request'[f].after = Answered
           /\ \A g \in Fetch \ {f} : request'[g] = request[g] /\ pc'[g] = pc[g]
<1> DEFINE r == [op |-> op, preset |-> preset, stage |-> stage, after |-> Answered]
<1>1. pc[f] = "unsent" /\ Op(f) = "none"
  BY PlaceFacts DEF Send, NextFetch
<1>2. start \in Labels /\ pc \in [Fetch -> Labels]
  BY DEF StudioTypeOK, Labels
<1>3. r \in Requests
  BY DEF Requests, Answered
<1>4. r.op = op /\ r.preset = preset /\ r.stage = stage /\ r.after = Answered
  OBVIOUS
<1>5. request \in [Fetch -> Requests]
  BY DEF RequestsOK
<1>6. request' = [request EXCEPT ![f] = r] /\ pc' = [pc EXCEPT ![f] = start]
  BY DEF Send
<1> HIDE DEF r
<1> QED
  BY <1>1, <1>2, <1>3, <1>4, <1>5, <1>6 DEF Op, Of

\* A click sends one fetch, for the preset the page then names.
LEMMA ClickFacts ==
    ASSUME StudioTypeOK, RequestsOK, NEW f \in Fetch, Click(f)
    PROVE  /\ pc[f] = "unsent" /\ Op(f) = "none"
           /\ pc' \in [Fetch -> Labels]
           /\ pc'[f] \in {"load", "check", "fallback", "get"}
           /\ pc'[f] \in Places(Op(f)')
           /\ request' \in [Fetch -> Requests]
           /\ Op(f)' \in Ops \ {"none"} /\ Of(f)' = currentPreset'
           /\ request'[f].after = Answered
           /\ Op(f)' = "promote" => request'[f].stage \in Stage
           /\ \A g \in Fetch \ {f} : request'[g] = request[g] /\ pc'[g] = pc[g]
           /\ UNCHANGED <<frames, work, activeRows>>
           /\ currentPreset' \in Preset /\ status' \in Statuses /\ calm' \in BOOLEAN
           /\ Op(f)' # "load" => UNCHANGED <<currentPreset, calm>>
           /\ Op(f)' = "load" /\ calm' => calm /\ \A g \in Outstanding : Op(g) = "plot"
<1>0. currentPreset \in Preset /\ status \in Statuses /\ calm \in BOOLEAN
  BY DEF StudioTypeOK, Statuses
<1>1. CASE LoadPreset(f)
  <2>1. PICK p \in Preset \ {currentPreset} :
          /\ Send(f, "load", p, "", "load")
          /\ currentPreset' = p
          /\ calm' = (calm /\ \A g \in Outstanding : Op(g) = "plot")
          /\ UNCHANGED <<frames, work, activeRows, status>>
    BY <1>1 DEF LoadPreset
  <2>2. /\ "load" \in Ops \ {"none"} /\ "" \in Stage \cup {""}
        /\ "load" \in Places("load") \cap {"load", "check", "fallback", "get"}
    BY DEF Ops, Places
  <2>3. /\ pc[f] = "unsent" /\ Op(f) = "none"
        /\ pc' \in [Fetch -> Labels] /\ pc'[f] = "load"
        /\ request' \in [Fetch -> Requests]
        /\ Op(f)' = "load" /\ Of(f)' = p
        /\ request'[f].stage = "" /\ request'[f].after = Answered
        /\ \A g \in Fetch \ {f} : request'[g] = request[g] /\ pc'[g] = pc[g]
    BY <2>1, <2>2, SendFacts
  <2> QED BY <1>0, <2>1, <2>2, <2>3
<1>2. CASE ExecuteTransformation(f)
  <2>1. /\ "transform" \in Ops \ {"none"} /\ "" \in Stage \cup {""}
        /\ "check" \in Places("transform") \cap {"load", "check", "fallback", "get"}
    BY DEF Ops, Places
  <2>2. /\ pc[f] = "unsent" /\ Op(f) = "none"
        /\ pc' \in [Fetch -> Labels] /\ pc'[f] = "check"
        /\ request' \in [Fetch -> Requests]
        /\ Op(f)' = "transform" /\ Of(f)' = currentPreset
        /\ request'[f].stage = "" /\ request'[f].after = Answered
        /\ \A g \in Fetch \ {f} : request'[g] = request[g] /\ pc'[g] = pc[g]
    BY <1>0, <1>2, <2>1, SendFacts DEF ExecuteTransformation
  <2> QED BY <1>0, <1>2, <2>1, <2>2 DEF ExecuteTransformation, Statuses
<1>3. CASE RenderPlot(f)
  <2>1. /\ "plot" \in Ops \ {"none"} /\ "" \in Stage \cup {""}
        /\ "fallback" \in Places("plot") \cap {"load", "check", "fallback", "get"}
    BY DEF Ops, Places
  <2>2. /\ pc[f] = "unsent" /\ Op(f) = "none"
        /\ pc' \in [Fetch -> Labels] /\ pc'[f] = "fallback"
        /\ request' \in [Fetch -> Requests]
        /\ Op(f)' = "plot" /\ Of(f)' = currentPreset
        /\ request'[f].stage = "" /\ request'[f].after = Answered
        /\ \A g \in Fetch \ {f} : request'[g] = request[g] /\ pc'[g] = pc[g]
    BY <1>0, <1>3, <2>1, SendFacts DEF RenderPlot
  <2> QED BY <1>0, <1>3, <2>1, <2>2 DEF RenderPlot
<1>4. CASE PromoteMedallion(f)
  <2>1. /\ "promote" \in Ops \ {"none"} /\ "" \in Stage \cup {""}
        /\ "get" \in Places("promote") \cap {"load", "check", "fallback", "get"}
    BY DEF Ops, Places
  <2>2. PICK s \in Stage \cup {""} : s \in Stage /\ Send(f, "promote", currentPreset, s, "get")
    BY <1>4 DEF PromoteMedallion
  <2>3. /\ pc[f] = "unsent" /\ Op(f) = "none"
        /\ pc' \in [Fetch -> Labels] /\ pc'[f] = "get"
        /\ request' \in [Fetch -> Requests]
        /\ Op(f)' = "promote" /\ Of(f)' = currentPreset
        /\ request'[f].stage = s /\ request'[f].after = Answered
        /\ \A g \in Fetch \ {f} : request'[g] = request[g] /\ pc'[g] = pc[g]
    BY <1>0, <2>1, <2>2, SendFacts
  <2> QED BY <1>0, <1>4, <2>1, <2>2, <2>3 DEF PromoteMedallion
<1> QED BY <1>1, <1>2, <1>3, <1>4 DEF Click

\* A thread, or a connection that breaks, leaves the page and the other
\* threads alone.
LEMMA ServeFacts ==
    ASSUME StudioTypeOK, RequestsOK, NEW f \in Fetch, Serve(f) \/ LoseReply(f)
    PROVE  /\ UNCHANGED <<request, currentPreset, activeRows, status, calm>>
           /\ pc[f] \notin {"unsent"} \cup Ended /\ pc'[f] \notin {"unsent"} \cup Ended
           /\ pc' \in [Fetch -> Labels]
           /\ \A g \in Fetch \ {f} : pc'[g] = pc[g] /\ work'[g] = work[g]
<1> USE DEF StudioTypeOK, Labels, Ended, Goto, Page, Hold
<1>1. CASE LoadDataset(f)    BY <1>1 DEF LoadDataset
<1>2. CASE CheckDataset(f)   BY <1>2 DEF CheckDataset
<1>3. CASE FillDataset(f)    BY <1>3, PlaceFacts DEF FillDataset
<1>4. CASE TakeDataset(f)    BY <1>4 DEF TakeDataset
<1>5. CASE StoreOutput(f)    BY <1>5 DEF StoreOutput
<1>6. CASE GetFallback(f)    BY <1>6 DEF GetFallback
<1>7. CASE PreferOutput(f)   BY <1>7 DEF PreferOutput
<1>8. CASE Draw(f)           BY <1>8 DEF Draw
<1>9. CASE GetDataset(f)     BY <1>9 DEF GetDataset
<1>10. CASE StoreStage(f)    BY <1>10 DEF StoreStage
<1>11. CASE LoseReply(f)     BY <1>11 DEF LoseReply
<1>12. CASE AbandonExecution(f) BY <1>12 DEF AbandonExecution
<1> QED BY <1>1, <1>2, <1>3, <1>4, <1>5, <1>6, <1>7, <1>8, <1>9, <1>10, <1>11, <1>12 DEF Serve

\* A handler ends its fetch; it may show what the reply brought.
LEMMA HandleFacts ==
    ASSUME StudioTypeOK, NEW f \in Fetch, Handle(f)
    PROVE  /\ UNCHANGED <<frames, request, work, currentPreset>>
           /\ pc' \in [Fetch -> Labels]
           /\ \/ pc[f] = "replied" /\ pc'[f] = "answered"
              \/ pc[f] = "lost" /\ pc'[f] = "failed"
           /\ \A g \in Fetch \ {f} : pc'[g] = pc[g]
           /\ activeRows' = activeRows \/ (pc[f] = "replied" /\ activeRows' = work[f])
           /\ status' \in Statuses /\ calm' \in BOOLEAN /\ (calm' => calm)
           /\ Op(f) = "load" /\ calm' => activeRows' = work[f] /\ pc[f] = "replied"
           /\ Op(f) = "plot" => UNCHANGED activeRows
<1> USE DEF StudioTypeOK, Labels, Statuses, End
<1>1. CASE ShowRows(f)    BY <1>1 DEF ShowRows
<1>2. CASE ShowResult(f)  BY <1>2 DEF ShowResult
<1>3. CASE ShowPlot(f)    BY <1>3 DEF ShowPlot
<1>4. CASE Fail(f)        BY <1>4 DEF Fail
<1> QED BY <1>1, <1>2, <1>3, <1>4 DEF Handle

-----------------------------------------------------------------------------
(* Each part of the invariant is preserved *)

\* What a thread's step does to the frame it holds and to the dict.
LEMMA ThreadFacts ==
    ASSUME StudioInv, NEW f \in Fetch, Serve(f) \/ LoseReply(f)
    PROVE  /\ work' \in [Fetch -> Frame \cup {NoFrame}]
           /\ work'[f] = NoFrame \/ work'[f].of = Of(f)
           /\ pc'[f] \in {"execute", "draw", "stage", "replied", "lost"} => work'[f] # NoFrame
           /\ pc'[f] = "take" => Base(f) \in DOMAIN frames'
           /\ DOMAIN frames \subseteq DOMAIN frames'
           /\ DOMAIN frames' \subseteq Preset \X Suffix
           /\ \A name \in DOMAIN frames' :
                frames'[name] \in Frame /\ frames'[name] # NoFrame /\ frames'[name].of = name[1]
<1> DEFINE Filed == \A name \in DOMAIN frames :
                      frames[name] \in Frame /\ frames[name] # NoFrame /\ frames[name].of = name[1]
<1>a. /\ Of(f) \in Preset
      /\ Dataset(Of(f)) \in Frame /\ Dataset(Of(f)) # NoFrame /\ Dataset(Of(f)).of = Of(f)
  BY ServeFacts, PlaceFacts, FrameFacts DEF StudioInv
<1>b. /\ DOMAIN frames \subseteq Preset \X Suffix
      /\ Filed
      /\ work \in [Fetch -> Frame \cup {NoFrame}]
      /\ work[f] = NoFrame \/ work[f].of = Of(f)
      /\ pc[f] \in {"execute", "draw", "stage", "replied"} => work[f] # NoFrame
      /\ pc[f] = "take" => Base(f) \in DOMAIN frames
      /\ pc \in [Fetch -> Labels]
  BY DEF StudioInv, StudioTypeOK, Held
<1>c. /\ Base(f) \in Preset \X Suffix /\ Base(f)[1] = Of(f)
      /\ Output(f) \in Preset \X Suffix /\ Output(f)[1] = Of(f)
  BY <1>a DEF Base, Output, Suffix
<1>d. ASSUME NEW s \in Stage PROVE <<Of(f), s>> \in Preset \X Suffix /\ <<Of(f), s>>[1] = Of(f)
  BY <1>a DEF Suffix
<1>e. ASSUME NEW k \in Preset \X Suffix, NEW v \in Frame, v # NoFrame, v.of = k[1],
             frames' = Put(frames, k, v)
      PROVE  /\ k \in DOMAIN frames'
             /\ DOMAIN frames \subseteq DOMAIN frames'
             /\ DOMAIN frames' \subseteq Preset \X Suffix
             /\ \A name \in DOMAIN frames' :
                  frames'[name] \in Frame /\ frames'[name] # NoFrame /\ frames'[name].of = name[1]
  <2>1. DOMAIN frames' = DOMAIN frames \cup {k} /\ frames'[k] = v
    BY <1>e DEF Put
  <2>2. \A name \in DOMAIN frames \ {k} : frames'[name] = frames[name]
    BY <1>e DEF Put
  <2> QED BY <1>b, <1>e, <2>1, <2>2
<1>f. ASSUME NEW name PROVE /\ Get(name) \in Frame \cup {NoFrame}
                            /\ Get(name) # NoFrame => Get(name).of = name[1]
                            /\ name \in DOMAIN frames => Get(name) # NoFrame
  BY <1>b DEF Get
<1> USE DEF Goto, Hold
<1>1. CASE LoadDataset(f)
  BY <1>a, <1>b, <1>c, <1>e, <1>1 DEF LoadDataset
<1>2. CASE CheckDataset(f)
  BY <1>a, <1>b, <1>2 DEF CheckDataset
<1>3. CASE FillDataset(f)
  BY <1>a, <1>b, <1>c, <1>e, <1>3 DEF FillDataset
<1>4. CASE TakeDataset(f)
  BY <1>a, <1>b, <1>c, <1>4 DEF TakeDataset
<1>5. CASE StoreOutput(f)
  <2>1. PICK ok \in BOOLEAN :
          LET out == [of |-> work[f].of, by |-> f, ok |-> ok]
          IN  Hold(f, out) /\ frames' = Put(frames, Output(f), out)
    BY <1>5 DEF StoreOutput
  <2> DEFINE out == [of |-> work[f].of, by |-> f, ok |-> ok]
  <2>2. out \in Frame /\ out # NoFrame /\ out.of = Of(f)
    BY <1>a, <1>b, <1>5, OutFacts DEF StoreOutput
  <2>3. work' = [work EXCEPT ![f] = out] /\ frames' = Put(frames, Output(f), out)
    BY <2>1
  <2> HIDE DEF out
  <2> QED BY <1>b, <1>c, <1>e, <1>5, <2>2, <2>3 DEF StoreOutput
<1>6. CASE GetFallback(f)
  BY <1>a, <1>b, <1>c, <1>f, <1>6 DEF GetFallback
<1>7. CASE PreferOutput(f)
  BY <1>a, <1>b, <1>c, <1>7 DEF PreferOutput
<1>8. CASE Draw(f)
  BY <1>a, <1>b, <1>8 DEF Draw
<1>9. CASE GetDataset(f)
  BY <1>a, <1>b, <1>c, <1>f, <1>9 DEF GetDataset
<1>10. CASE StoreStage(f)
  <2> DEFINE out == [of |-> work[f].of, by |-> f, ok |-> TRUE]
  <2>1. out \in Frame /\ out # NoFrame /\ out.of = Of(f)
    BY <1>a, <1>b, <1>10 DEF StoreStage, Frame, NoFrame, Generated, Fetch
  <2>2. request[f].stage \in Stage
    BY <1>10, PlaceFacts DEF StoreStage, StudioInv, RequestsOK
  <2>3. work' = [work EXCEPT ![f] = out] /\ frames' = Put(frames, <<Of(f), request[f].stage>>, out)
    BY <1>10 DEF StoreStage
  <2> HIDE DEF out
  <2> QED BY <1>b, <1>d, <1>e, <1>10, <2>1, <2>2, <2>3 DEF StoreStage
<1>11. CASE LoseReply(f)
  BY <1>a, <1>b, <1>11 DEF LoseReply
<1>12. CASE AbandonExecution(f)
  BY <1>a, <1>b, <1>12 DEF AbandonExecution
<1> QED BY <1>1, <1>2, <1>3, <1>4, <1>5, <1>6, <1>7, <1>8, <1>9, <1>10, <1>11, <1>12 DEF Serve

\* The steps of one fetch keep the types,
LEMMA TypeStep ==
    ASSUME StudioInv, NEW f \in Fetch, Click(f) \/ Serve(f) \/ LoseReply(f) \/ Handle(f)
    PROVE  StudioTypeOK'
<1> USE DEF StudioInv, StudioTypeOK, Statuses
<1>1. CASE Click(f)
  BY <1>1, ClickFacts DEF Answered
<1>2. CASE Serve(f) \/ LoseReply(f)
  BY <1>2, ServeFacts, ThreadFacts
<1>3. CASE Handle(f)
  BY <1>3, HandleFacts
<1> QED BY <1>1, <1>2, <1>3

\* what was asked and where its thread may be,
LEMMA RequestsStep ==
    ASSUME StudioInv, NEW f \in Fetch, Click(f) \/ Serve(f) \/ LoseReply(f) \/ Handle(f)
    PROVE  RequestsOK'
<1> USE DEF StudioInv
<1>1. CASE Click(f)
  BY <1>1, ClickFacts DEF RequestsOK, StudioTypeOK, Op, Of
<1>2. CASE Serve(f) \/ LoseReply(f)
  <2>1. pc'[f] \in Places(Op(f))
    <3>0. pc \in [Fetch -> Labels] /\ Op(f) \in Ops \ {"none"}
      BY <1>2, ServeFacts, PlaceFacts DEF StudioTypeOK
    <3> HIDE DEF StudioInv
    <3> USE DEF Goto, Places
    <3>1. CASE LoadDataset(f)
      BY <3>0, <3>1, PlaceFacts, EndPlaces DEF LoadDataset, StudioInv
    <3>2. CASE CheckDataset(f)
      BY <3>0, <3>2, PlaceFacts, EndPlaces DEF CheckDataset, StudioInv
    <3>3. CASE FillDataset(f)
      BY <3>0, <3>3, PlaceFacts, EndPlaces DEF FillDataset, StudioInv
    <3>4. CASE TakeDataset(f)
      BY <3>0, <3>4, PlaceFacts, EndPlaces DEF TakeDataset, StudioInv
    <3>5. CASE StoreOutput(f)
      BY <3>0, <3>5, PlaceFacts, EndPlaces DEF StoreOutput, StudioInv
    <3>6. CASE GetFallback(f)
      BY <3>0, <3>6, PlaceFacts, EndPlaces DEF GetFallback, StudioInv
    <3>7. CASE PreferOutput(f)
      BY <3>0, <3>7, PlaceFacts, EndPlaces DEF PreferOutput, StudioInv
    <3>8. CASE Draw(f)
      BY <3>0, <3>8, PlaceFacts, EndPlaces DEF Draw, StudioInv
    <3>9. CASE GetDataset(f)
      BY <3>0, <3>9, PlaceFacts, EndPlaces DEF GetDataset, StudioInv
    <3>10. CASE StoreStage(f)
      BY <3>0, <3>10, PlaceFacts, EndPlaces DEF StoreStage, StudioInv
    <3>11. CASE LoseReply(f)
      BY <3>0, <3>11, PlaceFacts, EndPlaces DEF LoseReply, StudioInv
    <3>12. CASE AbandonExecution(f)
      BY <3>0, <3>12, PlaceFacts, EndPlaces DEF AbandonExecution, StudioInv
    <3> QED BY <1>2, <3>1, <3>2, <3>3, <3>4, <3>5, <3>6, <3>7, <3>8, <3>9, <3>10, <3>11, <3>12 DEF Serve
  <2> QED BY <1>2, <2>1, ServeFacts DEF RequestsOK, Op, Of
<1>3. CASE Handle(f)
  <2>1. pc'[f] \in Places(Op(f))
    BY <1>3, HandleFacts, PlaceFacts, EndPlaces DEF Ended
  <2> QED BY <1>3, <2>1, HandleFacts DEF RequestsOK, Op, Of
<1> QED BY <1>1, <1>2, <1>3

\* that frames stay with their preset,
LEMMA HeldStep ==
    ASSUME StudioInv, NEW f \in Fetch, Click(f) \/ Serve(f) \/ LoseReply(f) \/ Handle(f)
    PROVE  Held'
<1> USE DEF StudioInv
<1>1. CASE Click(f)
  <2>1. \A g \in Fetch \ {f} : Of(g)' = Of(g) /\ Base(g)' = Base(g)
    BY <1>1, ClickFacts DEF Base, Of
  <2>2. work[f] = NoFrame /\ pc'[f] \notin {"unsent", "answered", "take"}
    BY <1>1, ClickFacts DEF Held
  <2>3. \A g \in Fetch \ {f} : pc'[g] = pc[g]
    BY <1>1, ClickFacts
  <2>4. UNCHANGED <<frames, work>>
    BY <1>1, ClickFacts
  <2> QED BY <2>1, <2>2, <2>3, <2>4 DEF Held, NoFrame, Generated
<1>2. CASE Serve(f) \/ LoseReply(f)
  <2>1. \A g \in Fetch : Of(g)' = Of(g) /\ Base(g)' = Base(g)
    BY <1>2, ServeFacts DEF Base, Of
  <2>2. /\ pc'[f] \notin {"unsent", "answered"}
        /\ \A g \in Fetch \ {f} : pc'[g] = pc[g] /\ work'[g] = work[g]
    BY <1>2, ServeFacts DEF Ended
  <2>3. /\ \A name \in DOMAIN frames' : frames'[name] # NoFrame /\ frames'[name].of = name[1]
        /\ DOMAIN frames \subseteq DOMAIN frames'
        /\ work'[f] = NoFrame \/ work'[f].of = Of(f)
        /\ pc'[f] = "take" => Base(f) \in DOMAIN frames'
    BY <1>2, ThreadFacts
  <2> QED BY <2>1, <2>2, <2>3 DEF Held, NoFrame, Generated
<1>3. CASE Handle(f)
  BY <1>3, HandleFacts DEF Held, StudioTypeOK, Base, Of
<1> QED BY <1>1, <1>2, <1>3

\* what is on its way to a calm page,
LEMMA CalmStep ==
    ASSUME StudioInv, NEW f \in Fetch, Click(f) \/ Serve(f) \/ LoseReply(f) \/ Handle(f)
    PROVE  Calm'
<1> USE DEF StudioInv
<1>1. CASE Click(f)
  <2>1. Outstanding' = Outstanding \cup {f}
    BY <1>1, ClickFacts DEF Outstanding, Ended
  <2>2. \A g \in Outstanding : g # f /\ Op(g)' = Op(g) /\ Of(g)' = Of(g)
    BY <1>1, ClickFacts DEF Outstanding, Ended, Op, Of
  <2> QED BY <1>1, <2>1, <2>2, ClickFacts DEF Calm
<1>2. CASE Serve(f) \/ LoseReply(f)
  <2>1. Outstanding' = Outstanding
    BY <1>2, ServeFacts DEF Outstanding
  <2> QED BY <1>2, <2>1, ServeFacts DEF Calm, Op, Of
<1>3. CASE Handle(f)
  <2>1. Outstanding' = Outstanding \ {f} /\ f \in Outstanding
    BY <1>3, HandleFacts DEF Outstanding, Ended
  <2>2. \A g \in Fetch : Op(g)' = Op(g) /\ Of(g)' = Of(g)
    BY <1>3, HandleFacts DEF Op, Of
  <2>3. pc[f] = "replied" => work[f].of = Of(f)
    BY DEF Held, StudioTypeOK
  <2>4. Outstanding \subseteq Fetch
    BY DEF Outstanding
  <2> QED BY <1>3, <2>1, <2>2, <2>3, <2>4, HandleFacts DEF Calm
<1> QED BY <1>1, <1>2, <1>3

\* The outputs in the dict change by the threads of transforms only.
LEMMA OutputFacts ==
    ASSUME StudioInv, NEW f \in Fetch, Serve(f) \/ LoseReply(f)
    PROVE  /\ \A p \in Preset : <<p, "output">> \in DOMAIN frames =>
                /\ <<p, "output">> \in DOMAIN frames'
                /\ \/ frames'[<<p, "output">>] = frames[<<p, "output">>]
                   \/ /\ pc[f] = "execute" /\ Of(f) = p
                      /\ frames'[<<p, "output">>].by = f
           /\ pc[f] = "execute" /\ pc'[f] = "replied" =>
                Output(f) \in DOMAIN frames' /\ frames'[Output(f)].by = f
<1>a. ASSUME NEW k, NEW v, frames' = Put(frames, k, v)
      PROVE  /\ k \in DOMAIN frames' /\ frames'[k] = v
             /\ \A name \in DOMAIN frames \ {k} :
                  name \in DOMAIN frames' /\ frames'[name] = frames[name]
  BY <1>a DEF Put
<1>b. ASSUME NEW s, s # "output", NEW v, frames' = Put(frames, <<Of(f), s>>, v)
      PROVE  \A p \in Preset : <<p, "output">> \in DOMAIN frames =>
                /\ <<p, "output">> \in DOMAIN frames'
                /\ frames'[<<p, "output">>] = frames[<<p, "output">>]
  <2>1. \A p \in Preset : <<p, "output">> # <<Of(f), s>>
    BY <1>b
  <2> QED BY <1>a, <1>b, <2>1
<1>1. CASE LoadDataset(f)
  BY <1>1, <1>b DEF LoadDataset, Base
<1>2. CASE FillDataset(f)
  BY <1>2, <1>b DEF FillDataset, Base
<1>3. CASE StoreOutput(f)
  <2>1. PICK ok \in BOOLEAN :
          frames' = Put(frames, Output(f), [of |-> work[f].of, by |-> f, ok |-> ok])
    BY <1>3 DEF StoreOutput
  <2> DEFINE out == [of |-> work[f].of, by |-> f, ok |-> ok]
  <2>2. out.by = f
    OBVIOUS
  <2>3. frames' = Put(frames, Output(f), out)
    BY <2>1
  <2> HIDE DEF out
  <2>4. \A p \in Preset : <<p, "output">> = Output(f) => p = Of(f)
    BY DEF Output
  <2> QED BY <1>3, <1>a, <2>2, <2>3, <2>4 DEF StoreOutput
<1>4. CASE StoreStage(f)
  <2>1. request[f].stage # "output"
    BY <1>4, PlaceFacts, StudioAssumption DEF StoreStage, StudioInv, RequestsOK
  <2> QED BY <1>4, <1>b, <2>1 DEF StoreStage
<1>5. CASE UNCHANGED frames /\ ~(pc[f] = "execute" /\ pc'[f] = "replied")
  BY <1>5
<1>6. CASE AbandonExecution(f)
  BY <1>6, ServeFacts DEF AbandonExecution, Goto, StudioInv, StudioTypeOK
<1> QED BY <1>1, <1>2, <1>3, <1>4, <1>5, <1>6 DEF Serve, CheckDataset, TakeDataset, GetFallback,
        PreferOutput, Draw, GetDataset, LoseReply

\* and that no output is older than a transform known to have replied.
LEMMA FreshStep ==
    ASSUME StudioInv, NEW f \in Fetch, Click(f) \/ Serve(f) \/ LoseReply(f) \/ Handle(f)
    PROVE  Fresh'
<1> DEFINE Over == {"replied", "lost"} \cup Ended
           Came == {"replied", "answered"}
           Current(t, frame) == frame.by \in TransformsOf(Of(t)) \ request[t].after
<1>a. \A g \in Fetch : request[g].after \subseteq Answered
  BY DEF StudioInv, Fresh
<1>b. ASSUME NEW t \in Fetch, Op(t) = "transform", pc[t] \in Came
      PROVE  Output(t) \in DOMAIN frames /\ Current(t, frames[Output(t)])
  BY <1>b DEF StudioInv, Fresh
<1>c. ASSUME NEW g \in Fetch, Op(g) = "plot", NEW t \in TransformsOf(Of(g)) \cap request[g].after
      PROVE  /\ pc[g] # "fill"
             /\ pc[g] \in {"draw"} \cup Over => Current(t, work[g])
  <2>1. t \in TransformsOf(Of(t)) /\ Of(t) = Of(g)
    BY <1>c DEF TransformsOf
  <2> QED BY <1>c, <2>1 DEF StudioInv, Fresh
<1>1. CASE Click(f)
  <2>1. Answered' = Answered /\ f \notin Answered
    BY <1>1, ClickFacts DEF StudioInv, Answered
  <2>2. \A g \in Fetch \ {f} :
          /\ Op(g)' = Op(g) /\ Of(g)' = Of(g) /\ Output(g)' = Output(g)
          /\ request'[g] = request[g] /\ pc'[g] = pc[g]
    BY <1>1, ClickFacts DEF StudioInv, Op, Of, Output
  <2>3. /\ pc'[f] \notin {"draw", "fill"} \cup Over
        /\ pc'[f] \notin Came
        /\ request'[f].after = Answered
        /\ UNCHANGED <<frames, work>>
        /\ Op(f) = "none"
    BY <1>1, ClickFacts DEF StudioInv, Ended
  <2>4. \A p : /\ TransformsOf(p) \subseteq TransformsOf(p)'
               /\ TransformsOf(p)' \subseteq TransformsOf(p) \cup {f}
    BY <2>2, <2>3 DEF TransformsOf
  <2>5. \A g \in Fetch : request'[g].after \subseteq Answered'
    BY <1>a, <2>1, <2>2, <2>3
  <2>6. \A t \in Fetch : Op(t)' = "transform" /\ pc'[t] \in Came =>
          /\ Output(t)' \in DOMAIN frames'
          /\ frames'[Output(t)'].by \in TransformsOf(Of(t))' \ request'[t].after
    BY <1>b, <2>2, <2>3, <2>4
  <2>7. ASSUME NEW g \in Fetch, Op(g)' = "plot",
               NEW t \in TransformsOf(Of(g))' \cap request'[g].after
        PROVE  /\ pc'[g] # "fill"
               /\ pc'[g] \in {"draw"} \cup Over =>
                    work'[g].by \in TransformsOf(Of(g))' \ request'[t].after
    <3>1. CASE g = f
      BY <2>3, <3>1
    <3>2. CASE g # f
      <4>1. t \in TransformsOf(Of(g)) \cap request[g].after /\ t # f
        BY <1>a, <2>1, <2>2, <2>4, <2>7, <3>2
      <4>2. t \in Fetch
        BY <4>1 DEF TransformsOf
      <4> QED BY <1>c, <2>2, <2>3, <2>4, <2>7, <3>2, <4>1, <4>2 DEF TransformsOf
    <3> QED BY <3>1, <3>2
  <2> QED BY <2>5, <2>6, <2>7 DEF Fresh
<1>2. CASE ~ Click(f)
  <2>0. Serve(f) \/ LoseReply(f) \/ Handle(f)
    BY <1>2
  <2>1. request' = request
    BY <2>0, ServeFacts, HandleFacts DEF StudioInv
  <2>2. /\ \A g : Op(g)' = Op(g) /\ Of(g)' = Of(g) /\ Output(g)' = Output(g)
        /\ \A p : TransformsOf(p)' = TransformsOf(p)
    BY <2>1 DEF Op, Of, Output, TransformsOf
  <2>3. \A g \in Fetch \ {f} : pc'[g] = pc[g] /\ work'[g] = work[g]
    BY <2>0, ServeFacts, HandleFacts DEF StudioInv
  <2>4. Answered \subseteq Answered'
    BY <2>0, <2>3, ServeFacts, HandleFacts DEF StudioInv, Answered, Ended
  <2>5. ASSUME NEW t \in Fetch, Op(t) = "transform", pc[t] \in Came
        PROVE  Output(t) \in DOMAIN frames' /\ Current(t, frames'[Output(t)])
    <3>1. CASE Handle(f)
      BY <1>b, <2>5, <3>1, HandleFacts DEF StudioInv
    <3>2. CASE Serve(f) \/ LoseReply(f)
      <4>1. Of(t) \in Preset /\ f \in Fetch
        BY <2>5, PlaceFacts DEF StudioInv, Ended
      <4>2. pc[f] = "execute" => f \notin request[t].after /\ Op(f) = "transform"
        BY <1>a, PlaceFacts DEF Answered, StudioInv
      <4>3. Output(t) \in DOMAIN frames /\ Current(t, frames[Output(t)])
        BY <1>b, <2>5
      <4>4. /\ Output(t) \in DOMAIN frames'
            /\ \/ frames'[Output(t)] = frames[Output(t)]
               \/ pc[f] = "execute" /\ Of(f) = Of(t) /\ frames'[Output(t)].by = f
        BY <3>2, <4>1, <4>3, OutputFacts DEF Output
      <4>5. CASE frames'[Output(t)] = frames[Output(t)]
        BY <4>3, <4>4, <4>5
      <4>6. CASE pc[f] = "execute" /\ Of(f) = Of(t) /\ frames'[Output(t)].by = f
        BY <4>2, <4>4, <4>6 DEF TransformsOf
      <4> QED BY <4>4, <4>5, <4>6
    <3> QED BY <2>0, <3>1, <3>2
  <2>6. ASSUME NEW t \in Fetch, Op(t) = "transform", pc'[t] \in Came
        PROVE  Output(t) \in DOMAIN frames' /\ Current(t, frames'[Output(t)])
    <3>1. CASE pc[t] \in Came
      BY <2>5, <2>6, <3>1
    <3>2. CASE pc[t] \notin Came
      <4>1. t = f /\ pc[f] = "execute" /\ pc'[f] = "replied" /\ (Serve(f) \/ LoseReply(f))
        BY <2>0, <2>3, <2>6, <3>2, PlaceFacts, HandleFacts DEF StudioInv, StudioTypeOK, Serve,
           LoadDataset, CheckDataset, FillDataset, TakeDataset, StoreOutput, AbandonExecution, GetFallback,
           PreferOutput, Draw, GetDataset, StoreStage, LoseReply, Goto, Ended
      <4>2. f \notin request[f].after
        BY <1>a, <4>1 DEF Answered
      <4> QED BY <2>6, <4>1, <4>2, OutputFacts DEF TransformsOf
    <3> QED BY <3>1, <3>2
  <2>7. ASSUME NEW g \in Fetch, Op(g) = "plot", NEW t \in TransformsOf(Of(g)) \cap request[g].after
        PROVE  /\ pc'[g] # "fill"
               /\ pc'[g] \in {"draw"} \cup Over => Current(t, work'[g])
    <3>1. CASE g # f
      BY <1>c, <2>3, <2>7, <3>1
    <3>2. CASE g = f /\ Handle(f)
      BY <1>c, <2>7, <3>2, HandleFacts DEF StudioInv, Ended
    <3>3. CASE g = f /\ (Serve(f) \/ LoseReply(f))
      <4>0. Op(f) = "plot" /\ pc \in [Fetch -> Labels] /\ work \in [Fetch -> Frame \cup {NoFrame}]
        BY <2>7, <3>3 DEF StudioInv, StudioTypeOK
      <4>1. Of(t) = Of(f) /\ Output(t) = Output(f) /\ Op(t) = "transform" /\ pc[t] = "answered"
        BY <1>a, <2>7, <3>3 DEF TransformsOf, Answered, Output
      <4>2. Output(f) \in DOMAIN frames /\ Current(t, frames[Output(f)])
        BY <1>b, <2>7, <4>1 DEF Ended, TransformsOf
      <4>3. CASE pc[f] = "prefer"
        <5>1. PreferOutput(f)
          BY <3>3, <4>3 DEF Serve, LoadDataset, CheckDataset, FillDataset, TakeDataset,
             StoreOutput, AbandonExecution, GetFallback, Draw, GetDataset, StoreStage, LoseReply
        <5>2. frames[Output(f)] # NoFrame
          BY <4>2 DEF StudioInv, Held
        <5>3. work'[f] = frames[Output(f)] /\ pc'[f] = "draw"
          BY <4>0, <4>2, <5>1, <5>2 DEF PreferOutput, Goto, Hold
        <5> QED BY <3>3, <4>2, <5>3
      <4>4. CASE pc[f] = "fallback"
        <5>1. pc'[f] = "prefer"
          BY <3>3, <4>0, <4>4 DEF Serve, LoadDataset, CheckDataset, FillDataset, TakeDataset,
             StoreOutput, AbandonExecution, GetFallback, PreferOutput, Draw, GetDataset, StoreStage, LoseReply, Goto
        <5> QED BY <3>3, <5>1 DEF Ended
      <4>5. CASE pc[f] \in {"draw", "replied"}
        <5>1. work'[f] = work[f] /\ pc'[f] \in Over
          BY <3>3, <4>0, <4>5 DEF Serve, LoadDataset, CheckDataset, FillDataset, TakeDataset,
             StoreOutput, AbandonExecution, GetFallback, PreferOutput, Draw, GetDataset, StoreStage, LoseReply, Goto
        <5> QED BY <1>c, <2>7, <3>3, <4>5, <5>1 DEF Ended
      <4>6. pc[f] # "fill"
        BY <1>c, <2>7, <3>3
      <4>7. pc[f] \in {"fallback", "prefer", "draw", "replied"}
        BY <3>3, <4>0, <4>6, PlaceFacts DEF StudioInv, Serve, LoadDataset, CheckDataset,
           FillDataset, TakeDataset, StoreOutput, AbandonExecution, GetFallback, PreferOutput, Draw, GetDataset,
           StoreStage, LoseReply
      <4> QED BY <4>3, <4>4, <4>5, <4>7
    <3> QED BY <2>0, <3>1, <3>2, <3>3
  <2>8. \A g \in Fetch : request'[g].after \subseteq Answered'
    BY <1>a, <2>1, <2>4
  <2>9. \A t \in Fetch : Op(t)' = "transform" /\ pc'[t] \in Came =>
          /\ Output(t)' \in DOMAIN frames'
          /\ frames'[Output(t)'].by \in TransformsOf(Of(t))' \ request'[t].after
    <3>1. \A t : TransformsOf(Of(t))' = TransformsOf(Of(t))
      BY <2>1 DEF TransformsOf, Op, Of
    <3> QED BY <2>1, <2>2, <2>6, <3>1
  <2>10. \A g \in Fetch : Op(g)' = "plot" =>
           \A t \in TransformsOf(Of(g))' \cap request'[g].after :
             /\ pc'[g] # "fill"
             /\ pc'[g] \in {"draw"} \cup Over =>
                  work'[g].by \in TransformsOf(Of(g))' \ request'[t].after
    <3>1. \A t : TransformsOf(Of(t))' = TransformsOf(Of(t))
      BY <2>1 DEF TransformsOf, Op, Of
    <3>2. \A p : \A t \in TransformsOf(p) : Of(t) = p
      BY DEF TransformsOf
    <3> QED BY <2>1, <2>2, <2>7, <3>1, <3>2
  <2> QED BY <2>8, <2>9, <2>10 DEF Fresh
<1> QED BY <1>1, <1>2

-----------------------------------------------------------------------------
(* The invariant holds *)

LEMMA InitInv == Init => StudioInv
<1> SUFFICES ASSUME Init PROVE StudioInv
  OBVIOUS
<1>0. /\ 1 \in Fetch /\ FirstPreset \in Preset
      /\ frames = [name \in {} |-> NoFrame] /\ DOMAIN frames = {}
      /\ pc = [f \in Fetch |-> IF f = 1 THEN "load" ELSE "unsent"]
      /\ work = [f \in Fetch |-> NoFrame]
      /\ currentPreset = FirstPreset /\ activeRows = NoFrame /\ status = "READY" /\ calm = TRUE
  <2>0. MaxFetches \in Nat \ {0}
    BY StudioAssumption
  <2>1. 1 \in Fetch
    BY <2>0 DEF Fetch
  <2>2. FirstPreset \in Preset
    BY StudioAssumption
  <2> QED BY <2>1, <2>2 DEF Init
<1>1. /\ request \in [Fetch -> Requests]
      /\ Op(1) = "load" /\ Of(1) = FirstPreset
      /\ \A f \in Fetch : request[f].after = {} /\ (f # 1 => Op(f) = "none")
  BY <1>0 DEF Init, Requests, NoRequest, Ops, Op, Of
<1>2. StudioTypeOK
  BY <1>0, <1>1 DEF StudioTypeOK, Labels
<1>3. RequestsOK
  BY <1>0, <1>1 DEF RequestsOK, Places
<1>4. Held
  BY <1>0 DEF Held
<1>5. Fresh
  BY <1>0, <1>1 DEF Fresh, Ended
<1>6. Calm
  BY <1>0, <1>1 DEF Calm, Outstanding, Ended
<1> QED BY <1>2, <1>3, <1>4, <1>5, <1>6 DEF StudioInv

\* Every step keeps the invariant.
LEMMA NextInv == StudioInv /\ [Next]_vars => StudioInv'
<1> SUFFICES ASSUME StudioInv, [Next]_vars PROVE StudioInv'
  OBVIOUS
<1>1. CASE Next
  BY <1>1, TypeStep, RequestsStep, HeldStep, FreshStep, CalmStep DEF Next, StudioInv
<1>2. CASE UNCHANGED vars
  BY <1>2 DEF vars, StudioInv, StudioTypeOK, RequestsOK, Held, Fresh, Calm, Op, Of, Base,
     Output, TransformsOf, Answered, Outstanding
<1> QED BY <1>1, <1>2

\* The invariant holds in every state of a session.
LEMMA Invariance == Spec => []StudioInv
BY InitInv, NextInv, PTL DEF Spec

-----------------------------------------------------------------------------
(* The theorems *)

\* The type invariant: the dict holds frames under the names of presets, and a
\* thread that executes, draws, stores or replies has a frame to do it with.
THEOREM StudioTypeCorrect == Spec => []StudioTypeOK
BY Invariance, PTL DEF StudioInv

\* Frames do not cross from one preset to another, however the accesses of the
\* threads to the dict interleave.
THEOREM FramesStayFiled == Spec => []FramesFiled
<1>1. StudioInv => FramesFiled
  BY DEF StudioInv, FramesFiled, Held, StudioTypeOK
<1> QED BY <1>1, Invariance, PTL

\* A plot shows what was executed before it was asked for, or something later,
\* whatever other fetches store in between.
THEOREM PlotsAreFresh == Spec => []PlotIsFresh
<1>1. StudioInv => PlotIsFresh
  BY DEF StudioInv, PlotIsFresh, Fresh, Ended
<1> QED BY <1>1, Invariance, PTL

\* On a page whose presets are chosen at rest and whose loads all succeed, the
\* table belongs to the preset the page names.
THEOREM PageIsCalm == Spec => []CalmPage
<1>1. StudioInv => CalmPage
  BY DEF StudioInv, CalmPage, Calm
<1> QED BY <1>1, Invariance, PTL

=============================================================================
