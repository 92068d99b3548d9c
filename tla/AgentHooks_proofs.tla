------------------------ MODULE AgentHooks_proofs ---------------------------
(***************************************************************************)
(* What the hooks and the plug-in do for an agent, and the prompt scanner  *)
(* that they call: each for any value of its constants.                    *)
(***************************************************************************)
EXTENDS PromptScanner, AgentHooks, OpenClaw, SequenceTheorems, TLAPS

Busy == {"load", "wait", "locked", "loading", "get", "classify", "inside"}

ScanRecord == [at : Busy \cup {"idle", "done"}, by : Scanners \cup {NoOne}, hit : BOOLEAN,
         expect : {"pass", "warn", "deny"}, model : {"benign", "below", "above"},
         pair : Nat, answer : {"none", "raised", "pass", "warn", "deny"},
         excuse : SUBSET {"blank", "not downloaded", "cleared", "two scanners"}]

ScannerType ==
    /\ disk \in {"absent", "partial", "whole"}
    /\ cached \in Nat /\ loads \in Nat /\ clears \in Nat
    /\ loader \in Threads \cup {NoOne}
    /\ inferring \in [Scanners -> Threads \cup {NoOne}]
    /\ scan \in [Threads -> ScanRecord]

\* The cache is filled by the one thread that holds the lock.
Loading(t) ==
    /\ scan[t].at \in {"locked", "loading"} => loader = t
    /\ scan[t].at = "loading" => cached = 0

Counted == loads = clears + (IF cached # 0 THEN 1 ELSE 0)

\* The threads inside one scanner's inference lock.
Inside(t) ==
    /\ scan[t].at \in Busy => scan[t].by \in Scanners
    /\ scan[t].at = "inside" => inferring[scan[t].by] = t

\* The verdict that both layers will give, known from the start.
Both(s) == Verdict({"rule_engine", "ml_classifier"},
                   (IF s.hit THEN {"rule_engine"} ELSE {})
                   \cup (IF s.model = "above" THEN {"ml_classifier"} ELSE {}))

\* What a scan under way will answer, or what it may fail of.
Kept(t) ==
    /\ scan[t].at \in Busy => scan[t].expect = Both(scan[t])
    /\ scan[t].at \in Busy /\ disk # "whole" => "not downloaded" \in scan[t].excuse
    /\ scan[t].at = "get" => cached # 0 \/ "cleared" \in scan[t].excuse
    /\ scan[t].at = "done" => \/ scan[t].answer = scan[t].expect
                              \/ scan[t].answer = "raised" /\ scan[t].excuse # {}

ScannerInv ==
    /\ ScannerType /\ Counted
    /\ \A t \in Threads : Loading(t) /\ Inside(t) /\ Kept(t)
-----------------------------------------------------------------------------
LEMMA VerdictType == \A ran, detected : Verdict(ran, detected) \in {"pass", "warn", "deny"}
  BY DEF Verdict

\* The three configurations.
LEMMA ConfigCases ==
  ASSUME NEW config \in Config
  PROVE  \/ Len(config.layers) = 1 /\ Tail(config.layers) = <<>> /\ config.fastFail
         \/ Len(config.layers) = 2 /\ Tail(config.layers) # <<>> /\ config.fastFail \in BOOLEAN
<1> DEFINE L == {"rule_engine", "ml_classifier"}
           one == <<"rule_engine">>
           two == <<"rule_engine", "ml_classifier">>
<1>1. /\ one \in Seq(L) /\ Len(one) = 1 /\ one # <<>>
      /\ two \in Seq(L) /\ Len(two) = 2 /\ two # <<>>
  OBVIOUS
<1> HIDE DEF L, one, two
<1>2. \/ config = [layers |-> one, fastFail |-> TRUE]
      \/ config = [layers |-> two, fastFail |-> FALSE]
      \/ config = [layers |-> two, fastFail |-> TRUE]
  BY DEF Config, one, two
<1>3. Tail(one) \in Seq(L) /\ Len(Tail(one)) = 0
      /\ Tail(two) \in Seq(L) /\ Len(Tail(two)) = 1
  BY <1>1, HeadTailProperties
<1>4. Tail(one) = <<>>
  BY <1>3, EmptySeq
<1>5. Tail(two) # <<>>
  <2> DEFINE tl == Tail(two)
  <2>1. Len(tl) = 1
    BY <1>3
  <2> HIDE DEF tl
  <2>2. tl # <<>>
    BY <2>1
  <2> QED
    BY <2>2 DEF tl
<1>6. CASE config = [layers |-> one, fastFail |-> TRUE]
  BY <1>1, <1>4, <1>6
<1>7. CASE config = [layers |-> two, fastFail |-> FALSE]
  BY <1>1, <1>5, <1>7
<1>8. CASE config = [layers |-> two, fastFail |-> TRUE]
  BY <1>1, <1>5, <1>8
<1> QED
  BY <1>2, <1>6, <1>7, <1>8

\* What a scan that needs no classifier answers is what is promised, and so
\* is what both layers give together.
LEMMA PromiseKept ==
  ASSUME NEW text \in Texts, NEW config \in Config,
         NEW hit, hit = DetectRules(Preprocess(text))
  PROVE  /\ hit \in BOOLEAN
         /\ Promised(text, config) \in {"pass", "warn", "deny"}
         /\ (Tail(config.layers) = <<>> \/ (config.fastFail /\ hit)) =>
               Promised(text, config) =
                  Verdict({"rule_engine"}, IF hit THEN {"rule_engine"} ELSE {})
         /\ ~(Tail(config.layers) = <<>> \/ (config.fastFail /\ hit)) =>
               Promised(text, config) = Both([hit |-> hit, model |-> text.model])
<1>1. text \in Text
  BY ScannerAssumption
<1>2. hit = (text.plain \/ text.encoded) /\ hit \in BOOLEAN
  BY <1>1 DEF DetectRules, Preprocess, Text
<1>3. text.model \in {"benign", "below", "above"}
  BY <1>1 DEF Text
<1>4. Promised(text, config) \in {"pass", "warn", "deny"}
  BY DEF Promised
<1>5. ASSUME Tail(config.layers) = <<>> \/ (config.fastFail /\ hit)
      PROVE  Promised(text, config) =
                Verdict({"rule_engine"}, IF hit THEN {"rule_engine"} ELSE {})
  <2>1. ~(Len(config.layers) = 2 /\ ~(hit /\ config.fastFail))
    BY <1>5, ConfigCases
  <2> QED
    BY <2>1, <1>2 DEF Promised, Verdict
<1>6. ASSUME ~(Tail(config.layers) = <<>> \/ (config.fastFail /\ hit))
      PROVE  Promised(text, config) = Both([hit |-> hit, model |-> text.model])
  <2>1. Len(config.layers) = 2 /\ ~(hit /\ config.fastFail)
    BY <1>6, ConfigCases
  <2> QED
    BY <2>1, <1>2, <1>3 DEF Promised, Verdict, Both
<1> QED
  BY <1>2, <1>4, <1>5, <1>6

LEMMA InitScanner == ScannerInit => ScannerInv
<1> SUFFICES ASSUME ScannerInit PROVE ScannerInv
  OBVIOUS
<1>1. Resting \in ScanRecord /\ Resting.at = "idle" /\ Resting.at \notin Busy
  BY DEF Resting, ScanRecord, Busy
<1>2. scan = [t \in Threads |-> Resting] /\ inferring = [p \in Scanners |-> NoOne]
      /\ disk = "absent" /\ cached = 0 /\ loader = NoOne /\ loads = 0 /\ clears = 0
  BY DEF ScannerInit
<1>3. ScannerType /\ Counted
  BY <1>1, <1>2 DEF ScannerType, Counted
<1>4. ASSUME NEW t \in Threads PROVE Loading(t) /\ Inside(t) /\ Kept(t)
  <2>1. scan[t].at = "idle" /\ scan[t].at \notin Busy
    BY <1>1, <1>2
  <2> QED
    BY <2>1 DEF Loading, Inside, Kept
<1> QED
  BY <1>3, <1>4 DEF ScannerInv
-----------------------------------------------------------------------------
(* The steps.                                                              *)

LEMMA StartKeeps ==
  ASSUME ScannerInv, NEW t \in Threads, StartScan(t)
  PROVE  ScannerInv'
<1>1. PICK p \in Scanners, text \in Texts, config \in Config :
          LET hit == DetectRules(Preprocess(text))
              rest == Tail(config.layers)
              begun == [Resting EXCEPT !.at = "load", !.by = p, !.hit = hit, !.model = text.model,
                           !.expect = Promised(text, config),
                           !.excuse = IF disk = "whole" THEN {} ELSE {"not downloaded"}]
          IN  scan' = [scan EXCEPT ![t] =
                  CASE text.blank -> [Resting EXCEPT !.at = "done", !.answer = "raised",
                                                  !.excuse = {"blank"}]
                    [] ~text.blank /\ (rest = <<>> \/ (config.fastFail /\ hit)) ->
                          [begun EXCEPT !.at = "done", !.model = "benign",
                              !.answer = Verdict({"rule_engine"},
                                                 IF hit THEN {"rule_engine"} ELSE {})]
                    [] OTHER -> begun]
  BY DEF StartScan
<1> DEFINE hit == DetectRules(Preprocess(text))
           easy == Tail(config.layers) = <<>> \/ (config.fastFail /\ hit)
           begun == [Resting EXCEPT !.at = "load", !.by = p, !.hit = hit, !.model = text.model,
                           !.expect = Promised(text, config),
                           !.excuse = IF disk = "whole" THEN {} ELSE {"not downloaded"}]
           new == CASE text.blank -> [Resting EXCEPT !.at = "done", !.answer = "raised",
                                                  !.excuse = {"blank"}]
                    [] ~text.blank /\ easy ->
                          [begun EXCEPT !.at = "done", !.model = "benign",
                              !.answer = Verdict({"rule_engine"},
                                                 IF hit THEN {"rule_engine"} ELSE {})]
                    [] OTHER -> begun
<1>2. scan' = [scan EXCEPT ![t] = new]
  BY <1>1
<1>3. UNCHANGED <<disk, cached, loader, inferring, loads, clears>>
  BY DEF StartScan, sharedVars
<1>4. /\ text.model \in {"benign", "below", "above"} /\ text.blank \in BOOLEAN
  BY ScannerAssumption DEF Text
<1>5. /\ hit \in BOOLEAN /\ Promised(text, config) \in {"pass", "warn", "deny"}
      /\ easy => Promised(text, config) =
                    Verdict({"rule_engine"}, IF hit THEN {"rule_engine"} ELSE {})
      /\ ~easy => Promised(text, config) = Both([hit |-> hit, model |-> text.model])
  BY PromiseKept
<1> HIDE DEF hit
<1>6. begun \in ScanRecord
  BY <1>4, <1>5 DEF Resting, ScanRecord, Busy
<1>7. /\ new \in ScanRecord
      /\ new.at \in {"done", "load"} /\ (new.at = "load" => new = begun)
      /\ new.at = "done" => \/ new.answer = new.expect
                            \/ new.answer = "raised" /\ new.excuse # {}
  <2>1. CASE text.blank
    BY <2>1 DEF Resting, ScanRecord, Busy
  <2>2. CASE ~text.blank /\ easy
    <3>1. new = [begun EXCEPT !.at = "done", !.model = "benign",
                    !.answer = Verdict({"rule_engine"},
                                       IF hit THEN {"rule_engine"} ELSE {})]
      BY <2>2
    <3>2. begun.expect = Promised(text, config)
      BY DEF Resting
    <3> HIDE DEF begun, new
    <3>3. new.at = "done" /\ new.expect = Promised(text, config)
          /\ new.answer = Verdict({"rule_engine"}, IF hit THEN {"rule_engine"} ELSE {})
      BY <1>6, <3>1, <3>2 DEF ScanRecord
    <3>4. Verdict({"rule_engine"}, IF hit THEN {"rule_engine"} ELSE {}) \in {"pass", "warn", "deny"}
      BY VerdictType
    <3>5. new \in ScanRecord
      BY <1>6, <3>1, <3>4 DEF ScanRecord, Busy
    <3> QED
      BY <2>2, <1>5, <3>3, <3>5
  <2>3. CASE ~text.blank /\ ~easy
    BY <2>3, <1>6 DEF Resting
  <2> QED
    BY <1>4, <2>1, <2>2, <2>3
<1>8. new.at = "load" =>
        /\ new.by \in Scanners /\ new.expect = Both(new)
        /\ disk # "whole" => "not downloaded" \in new.excuse
  <2>1. new.at = "load" => ~easy
    BY DEF Resting
  <2>2. begun.hit = hit /\ begun.model = text.model /\ begun.expect = Promised(text, config)
        /\ begun.by = p /\ (disk # "whole" => "not downloaded" \in begun.excuse)
    BY DEF Resting
  <2> QED
    BY <1>5, <1>7, <2>1, <2>2 DEF Both
<1> HIDE DEF new
<1>9. ScannerType'
  BY <1>2, <1>3, <1>7 DEF ScannerInv, ScannerType
<1>10. ASSUME NEW u \in Threads PROVE (Loading(u) /\ Inside(u) /\ Kept(u))'
  <2>1. CASE u = t
    BY <2>1, <1>2, <1>3, <1>7, <1>8 DEF ScannerInv, ScannerType, Loading, Inside, Kept, Busy
  <2>2. CASE u # t
    BY <2>2, <1>2, <1>3 DEF ScannerInv, ScannerType, Loading, Inside, Kept
  <2> QED
    BY <2>1, <2>2
<1> QED
  BY <1>3, <1>9, <1>10 DEF ScannerInv, Counted

\* A thread goes on and nothing else is changed but who holds a lock.
LEMMA LoadStepsKeep ==
  ASSUME ScannerInv, NEW t \in Threads, LookUp(t) \/ Lock(t) \/ Recheck(t)
  PROVE  ScannerInv'
<1> USE DEF Goto
<1>1. UNCHANGED <<disk, cached, inferring, loads, clears>>
  BY DEF LookUp, Lock, Recheck, sharedVars
<1>2. scan \in [Threads -> ScanRecord] /\ scan[t] \in ScanRecord
      /\ scan[t].at \in {"load", "wait", "locked"}
  BY DEF ScannerInv, ScannerType, LookUp, Lock, Recheck
<1>3. PICK at \in {"get", "wait", "locked", "loading"} :
        /\ scan' = [scan EXCEPT ![t].at = at]
        /\ at = "get" => cached # 0
        /\ at = "loading" => cached = 0
        /\ at \in {"locked", "loading"} => loader' = t
        /\ loader' = loader \/ (loader = NoOne /\ loader' = t)
  <2>1. CASE LookUp(t)
    BY <2>1 DEF LookUp, sharedVars
  <2>2. CASE Lock(t)
    BY <2>2 DEF Lock
  <2>3. CASE Recheck(t)
    BY <2>3 DEF Recheck, sharedVars, ScannerInv, Loading
  <2> QED
    BY <2>1, <2>2, <2>3
<1> DEFINE new == [scan[t] EXCEPT !.at = at]
<1>4. new \in ScanRecord /\ new.at = at /\ new.by = scan[t].by /\ new.expect = scan[t].expect
      /\ new.excuse = scan[t].excuse /\ Both(new) = Both(scan[t])
  BY <1>2 DEF ScanRecord, Busy, Both
<1>5. scan'[t] = new /\ \A u \in Threads : u # t => scan'[u] = scan[u]
  BY <1>2, <1>3
<1>6. scan' \in [Threads -> ScanRecord]
  BY <1>2, <1>3, <1>4
<1> HIDE DEF new
<1>7. ScannerType'
  BY <1>1, <1>3, <1>6 DEF ScannerInv, ScannerType
<1>8. ASSUME NEW u \in Threads PROVE Loading(u)'
  BY <1>1, <1>3, <1>4, <1>5, ScannerAssumption DEF ScannerInv, Loading
<1>9. ASSUME NEW u \in Threads PROVE Inside(u)'
  <2>1. scan[t].at \in Busy
    BY <1>2 DEF Busy
  <2> QED
    BY <1>1, <1>3, <1>4, <1>5, <2>1 DEF ScannerInv, Inside
<1>10. ASSUME NEW u \in Threads PROVE Kept(u)'
  <2>1. CASE u # t
    BY <2>1, <1>1, <1>5 DEF ScannerInv, Kept, Both
  <2>2. CASE u = t
    <3>1. scan[t].at \in Busy
      BY <1>2 DEF Busy
    <3> QED
      BY <2>2, <1>1, <1>3, <1>4, <1>5, <3>1 DEF ScannerInv, Kept
  <2> QED
    BY <2>1, <2>2
<1> QED
  BY <1>1, <1>7, <1>8, <1>9, <1>10 DEF ScannerInv, Counted

LEMMA GetKeeps ==
  ASSUME ScannerInv, NEW t \in Threads, GetPair(t)
  PROVE  ScannerInv'
<1>1. UNCHANGED <<disk, cached, inferring, loads, clears>>
  BY DEF GetPair
<1>2. scan[t] \in ScanRecord /\ scan[t].at = "get"
  BY DEF GetPair, ScannerInv, ScannerType
<1>3. /\ scan' = [scan EXCEPT ![t] = scan'[t]]
      /\ scan'[t] = IF cached = 0 THEN Ended(t, "raised")
                    ELSE [scan[t] EXCEPT !.at = "classify", !.pair = cached]
  BY DEF GetPair, ScannerInv, ScannerType
<1>4. scan'[t] \in ScanRecord /\ scan'[t].at \in {"done", "classify"} /\ scan'[t].by = scan[t].by
  <2>1. cached \in Nat
    BY DEF ScannerInv, ScannerType
  <2>2. CASE cached = 0
    <3>1. scan'[t] = [scan[t] EXCEPT !.at = "done", !.answer = "raised", !.model = "benign"]
      BY <2>2, <1>3 DEF Ended
    <3> QED
      BY <3>1, <1>2 DEF ScanRecord, Busy
  <2>3. CASE cached # 0
    <3>1. scan'[t] = [scan[t] EXCEPT !.at = "classify", !.pair = cached]
      BY <2>3, <1>3
    <3> QED
      BY <3>1, <2>1, <1>2 DEF ScanRecord, Busy
  <2> QED
    BY <2>2, <2>3
<1>5. ScannerType'
  BY <1>1, <1>3, <1>4 DEF ScannerInv, ScannerType, GetPair
<1>6. ASSUME NEW u \in Threads PROVE Loading(u)'
  <2>1. u # t => (scan'[u].at \in {"locked", "loading"} => loader' = u)
    BY <1>3 DEF ScannerInv, ScannerType, Loading, GetPair
  <2> QED
    BY <1>1, <1>3, <1>4, <2>1 DEF ScannerInv, ScannerType, Loading
<1>7. ASSUME NEW u \in Threads PROVE Inside(u)'
  <2>1. CASE u = t
    BY <2>1, <1>1, <1>2, <1>4 DEF ScannerInv, Inside, Busy
  <2>2. CASE u # t
    <3>1. scan'[u] = scan[u]
      BY <2>2, <1>3 DEF ScannerInv, ScannerType
    <3> QED
      BY <1>1, <3>1 DEF ScannerInv, Inside
  <2> QED
    BY <2>1, <2>2
<1>8. ASSUME NEW u \in Threads PROVE Kept(u)'
  <2>1. CASE u # t
    BY <2>1, <1>1, <1>3 DEF ScannerInv, ScannerType, Kept
  <2>2. CASE u = t /\ cached = 0
    BY <2>2, <1>1, <1>2, <1>3 DEF ScannerInv, Kept, Ended, Busy, ScanRecord
  <2>3. CASE u = t /\ cached # 0
    BY <2>3, <1>1, <1>2, <1>3 DEF ScannerInv, Kept, Both, Busy, ScanRecord
  <2> QED
    BY <2>1, <2>2, <2>3
<1> QED
  BY <1>1, <1>5, <1>6, <1>7, <1>8 DEF ScannerInv, Counted

LEMMA LoadKeeps ==
  ASSUME ScannerInv, NEW t \in Threads, DoLoad(t)
  PROVE  ScannerInv'
<1>1. UNCHANGED <<disk, inferring, clears>> /\ loader' = NoOne
  BY DEF DoLoad
<1>2. scan[t] \in ScanRecord /\ scan[t].at = "loading" /\ loader = t /\ cached = 0
  BY DEF DoLoad, ScannerInv, ScannerType, Loading
<1>3. ASSUME NEW u \in Threads, u # t PROVE scan[u].at \notin {"locked", "loading"}
  BY <1>2, <1>3 DEF ScannerInv, Loading
<1>4. CASE disk = "whole"
  <2>1. /\ loads' = loads + 1 /\ cached' = loads'
        /\ scan' = [scan EXCEPT ![t].at = "classify", ![t].pair = loads']
    BY <1>4 DEF DoLoad
  <2>2. cached' # 0 /\ loads' \in Nat
    BY <2>1 DEF ScannerInv, ScannerType
  <2>3. ScannerType'
    BY <1>1, <1>2, <2>1, <2>2 DEF ScannerInv, ScannerType, ScanRecord, Busy
  <2>4. Counted'
    BY <1>1, <1>2, <2>1, <2>2 DEF ScannerInv, ScannerType, Counted
  <2>5. ASSUME NEW u \in Threads PROVE (Loading(u) /\ Inside(u))'
    BY <1>1, <1>2, <1>3, <2>1 DEF ScannerInv, ScannerType, Loading, Inside, ScanRecord, Busy
  <2>6. ASSUME NEW u \in Threads PROVE Kept(u)'
    BY <1>1, <1>2, <1>4, <2>1, <2>2 DEF ScannerInv, ScannerType, Kept, Both, ScanRecord, Busy
  <2> QED
    BY <2>3, <2>4, <2>5, <2>6 DEF ScannerInv
<1>5. CASE disk # "whole"
  <2>1. scan' = [scan EXCEPT ![t] = Ended(t, "raised")] /\ UNCHANGED <<loads, cached>>
    BY <1>5 DEF DoLoad
  <2>2. ScannerType'
    BY <1>1, <1>2, <2>1 DEF ScannerInv, ScannerType, ScanRecord, Busy, Ended
  <2>3. ASSUME NEW u \in Threads PROVE (Loading(u) /\ Inside(u))'
    BY <1>1, <1>2, <1>3, <2>1 DEF ScannerInv, ScannerType, Loading, Inside, ScanRecord, Busy, Ended
  <2>4. ASSUME NEW u \in Threads PROVE Kept(u)'
    BY <1>1, <1>2, <1>5, <2>1 DEF ScannerInv, ScannerType, Kept, ScanRecord, Busy, Ended
  <2> QED
    BY <1>1, <2>1, <2>2, <2>3, <2>4 DEF ScannerInv, Counted
<1> QED
  BY <1>4, <1>5

LEMMA EnterKeeps ==
  ASSUME ScannerInv, NEW t \in Threads, Enter(t)
  PROVE  ScannerInv'
<1>1. UNCHANGED <<disk, cached, loader, loads, clears>>
  BY DEF Enter
<1>2. scan[t] \in ScanRecord /\ scan[t].at = "classify" /\ scan[t].by \in Scanners
  BY DEF Enter, ScannerInv, ScannerType, Inside, Busy
<1>3. /\ scan' = [scan EXCEPT ![t].at = "inside"]
      /\ inferring' = [inferring EXCEPT ![scan[t].by] = t]
      /\ inferring[scan[t].by] = NoOne
  BY DEF Enter, Goto
<1>4. ScannerType'
  BY <1>1, <1>2, <1>3 DEF ScannerInv, ScannerType, ScanRecord, Busy
<1>5. ASSUME NEW u \in Threads PROVE Loading(u)'
  BY <1>1, <1>3 DEF ScannerInv, ScannerType, Loading, ScanRecord
<1>6. ASSUME NEW u \in Threads PROVE Inside(u)'
  <2>1. CASE u = t
    BY <2>1, <1>2, <1>3 DEF ScannerInv, ScannerType, Inside, ScanRecord
  <2>2. CASE u # t
    <3>1. scan'[u] = scan[u]
      BY <2>2, <1>3 DEF ScannerInv, ScannerType
    <3>2. scan[u].at = "inside" => scan[u].by # scan[t].by
      BY <1>3, ScannerAssumption DEF ScannerInv, Inside
    <3> QED
      BY <1>3, <3>1, <3>2 DEF ScannerInv, ScannerType, Inside, Busy
  <2> QED
    BY <2>1, <2>2
<1>7. ASSUME NEW u \in Threads PROVE Kept(u)'
  BY <1>1, <1>2, <1>3 DEF ScannerInv, ScannerType, Kept, Both, ScanRecord, Busy
<1> QED
  BY <1>1, <1>4, <1>5, <1>6, <1>7 DEF ScannerInv, Counted

\* Only a thread of another scanner can use the tokenizer at the same time.
LEMMA PanicExcused ==
  ASSUME ScannerInv, NEW t \in Threads, scan[t].at = "inside", Together(t) # {}
  PROVE  \E u \in Together(t) : scan[u].by # scan[t].by
<1>1. PICK u \in Together(t) : TRUE
  OBVIOUS
<1>2. u \in Threads /\ u # t /\ scan[u].at = "inside"
  BY DEF Together
<1>3. inferring[scan[t].by] = t /\ inferring[scan[u].by] = u
  BY <1>2 DEF ScannerInv, Inside
<1> QED
  BY <1>1, <1>2, <1>3

LEMMA LeaveKeeps ==
  ASSUME ScannerInv, NEW t \in Threads, Panic(t) \/ Infer(t)
  PROVE  ScannerInv'
<1>1. UNCHANGED <<disk, cached, loader, loads, clears>>
  BY DEF Panic, Infer
<1>2. scan[t] \in ScanRecord /\ scan[t].at = "inside" /\ scan[t].by \in Scanners
      /\ inferring[scan[t].by] = t
  BY DEF Panic, Infer, ScannerInv, ScannerType, Inside, Busy
<1>3. inferring' = [inferring EXCEPT ![scan[t].by] = NoOne]
  BY DEF Panic, Infer
<1>4. /\ scan' = [scan EXCEPT ![t] = scan'[t]]
      /\ scan'[t] \in ScanRecord /\ scan'[t].at = "done"
      /\ \/ scan'[t].answer = scan'[t].expect
         \/ scan'[t].answer = "raised" /\ scan'[t].excuse # {}
  <2>1. CASE Panic(t)
    <3>1. scan' = [scan EXCEPT ![t] =
             [Ended(t, "raised") EXCEPT !.excuse = @ \cup {"two scanners"}]]
      BY <2>1, PanicExcused DEF Panic
    <3> QED
      BY <3>1, <1>2 DEF Ended, ScanRecord, Busy, ScannerInv, ScannerType
  <2>2. CASE Infer(t)
    <3>1. scan' = [scan EXCEPT ![t] = Ended(t, Both(scan[t]))]
      BY <2>2 DEF Infer, Both, HitOf
    <3>2. scan[t].expect = Both(scan[t]) /\ Both(scan[t]) \in {"pass", "warn", "deny"}
      BY <1>2, VerdictType DEF ScannerInv, Kept, Busy, Both
    <3> QED
      BY <3>1, <3>2, <1>2 DEF Ended, ScanRecord, Busy, ScannerInv, ScannerType
  <2> QED
    BY <2>1, <2>2
<1>5. ScannerType'
  BY <1>1, <1>3, <1>4 DEF ScannerInv, ScannerType
<1>6. ASSUME NEW u \in Threads PROVE (Loading(u) /\ Inside(u))'
  <2>1. CASE u = t
    BY <2>1, <1>1, <1>4 DEF Loading, Inside, Busy
  <2>2. CASE u # t
    <3>1. scan'[u] = scan[u]
      BY <2>2, <1>4 DEF ScannerInv, ScannerType
    <3>2. scan[u].at = "inside" => scan[u].by # scan[t].by
      BY <2>2, <1>2 DEF ScannerInv, Inside
    <3> QED
      BY <1>1, <1>3, <3>1, <3>2 DEF ScannerInv, ScannerType, Loading, Inside, Busy
  <2> QED
    BY <2>1, <2>2
<1>7. ASSUME NEW u \in Threads PROVE Kept(u)'
  <2>1. CASE u = t
    BY <2>1, <1>4 DEF Kept, Busy
  <2>2. CASE u # t
    BY <2>2, <1>1, <1>4 DEF ScannerInv, ScannerType, Kept
  <2> QED
    BY <2>1, <2>2
<1> QED
  BY <1>1, <1>5, <1>6, <1>7 DEF ScannerInv, Counted

LEMMA DownloadKeeps == ScannerInv /\ Download => ScannerInv'
<1> SUFFICES ASSUME ScannerInv, Download PROVE ScannerInv'
  OBVIOUS
<1>1. UNCHANGED <<cached, loader, inferring, scan, loads, clears>> /\ disk # "whole"
      /\ disk' \in {"partial", "whole"}
  BY DEF Download
<1>2. ASSUME NEW u \in Threads PROVE Kept(u)'
  BY <1>1 DEF ScannerInv, Kept
<1> QED
  BY <1>1, <1>2 DEF ScannerInv, ScannerType, Counted, Loading, Inside

LEMMA ClearKeeps == ScannerInv /\ Clear => ScannerInv'
<1> SUFFICES ASSUME ScannerInv, Clear PROVE ScannerInv'
  OBVIOUS
<1>1. /\ UNCHANGED <<disk, loader, inferring, loads>>
      /\ clears' = clears + 1 /\ cached' = 0 /\ cached # 0
  BY DEF Clear
<1>2. scan' = [t \in Threads |-> IF scan[t].at \in {"idle", "done"} THEN scan[t]
                                 ELSE [scan[t] EXCEPT !.excuse = @ \cup {"cleared"}]]
  BY DEF Clear, During
<1>3. ScannerType'
  <2>1. ASSUME NEW u \in Threads
        PROVE  scan[u] \in ScanRecord /\ [scan[u] EXCEPT !.excuse = @ \cup {"cleared"}] \in ScanRecord
    <3>1. scan[u] \in ScanRecord
      BY DEF ScannerInv, ScannerType
    <3> QED
      BY <3>1 DEF ScanRecord
  <2>2. scan' \in [Threads -> ScanRecord]
    BY <1>2, <2>1
  <2> QED
    BY <1>1, <2>2 DEF ScannerInv, ScannerType
<1>4. ASSUME NEW u \in Threads
      PROVE  /\ scan'[u].at = scan[u].at /\ scan'[u].by = scan[u].by
             /\ scan'[u].expect = scan[u].expect /\ scan'[u].answer = scan[u].answer
             /\ Both(scan'[u]) = Both(scan[u]) /\ scan[u].excuse \subseteq scan'[u].excuse
             /\ scan[u].at \in Busy => "cleared" \in scan'[u].excuse
  BY <1>2 DEF ScannerInv, ScannerType, ScanRecord, Both, Busy
<1>5. ASSUME NEW u \in Threads PROVE (Loading(u) /\ Inside(u) /\ Kept(u))'
  BY <1>1, <1>4 DEF ScannerInv, Loading, Inside, Kept, Busy
<1>6. Counted'
  BY <1>1 DEF ScannerInv, ScannerType, Counted
<1> QED
  BY <1>3, <1>5, <1>6 DEF ScannerInv

\* The inductive invariant.
THEOREM ScannerInvariant == ScannerSpec => []ScannerInv
<1>1. ScannerInv /\ [ScannerNext]_scannerVars => ScannerInv'
  <2> SUFFICES ASSUME ScannerInv, [ScannerNext]_scannerVars PROVE ScannerInv'
    OBVIOUS
  <2>1. CASE Download
    BY <2>1, DownloadKeeps
  <2>2. CASE Clear
    BY <2>2, ClearKeeps
  <2>3. CASE UNCHANGED scannerVars
    BY <2>3 DEF scannerVars, sharedVars, ScannerInv, ScannerType, Counted, Loading, Inside, Kept
  <2>4. CASE \E t \in Threads :
                \/ StartScan(t) \/ LookUp(t) \/ GetPair(t) \/ Lock(t) \/ Recheck(t) \/ DoLoad(t)
                \/ Enter(t) \/ Panic(t) \/ Infer(t)
    BY <2>4, StartKeeps, LoadStepsKeep, GetKeeps, LoadKeeps, EnterKeeps, LeaveKeeps
  <2> QED
    BY <2>1, <2>2, <2>3, <2>4 DEF ScannerNext
<1> QED
  BY <1>1, InitScanner, PTL DEF ScannerSpec

\* The model is loaded at most once more often than it is released.
THEOREM ModelLoadedOnce == ScannerSpec => []LoadedOnce
<1>1. ScannerInv => LoadedOnce
  BY DEF ScannerInv, ScannerType, Counted, LoadedOnce
<1> QED
  BY <1>1, ScannerInvariant, PTL

\* Whatever other threads do, a scan answers what verdict.py promises for its
\* text, or raises with one of four excuses.
THEOREM AlwaysAnsweredOrExcused == ScannerSpec => []AnsweredOrExcused
<1>1. ScannerInv => AnsweredOrExcused
  BY DEF ScannerInv, Kept, AnsweredOrExcused
<1> QED
  BY <1>1, ScannerInvariant, PTL

\* A lock is held by a scan that will give it back: it loads the model, or it
\* is inside the classifier of the scanner the lock belongs to.
HeldInv ==
    /\ loader # NoOne => scan[loader].at \in {"locked", "loading", "get"}
    /\ \A p \in Scanners :
          inferring[p] # NoOne =>
              scan[inferring[p]].at = "inside" /\ scan[inferring[p]].by = p

\* what each step does to the two locks and to the place of its thread
LEMMA ScanMoves ==
  ASSUME ScannerInv, NEW t \in Threads,
         \/ StartScan(t) \/ LookUp(t) \/ GetPair(t) \/ Lock(t) \/ Recheck(t) \/ DoLoad(t)
         \/ Enter(t) \/ Panic(t) \/ Infer(t)
  PROVE  /\ \A u \in Threads : u # t => scan'[u] = scan[u]
         /\ \/ /\ UNCHANGED <<loader, inferring>>
               /\ scan[t].at \in {"idle", "done", "load", "wait"}
            \/ /\ UNCHANGED inferring
               /\ scan[t].at = "get" /\ loader' = (IF loader = t THEN NoOne ELSE loader)
            \/ /\ UNCHANGED inferring
               /\ scan[t].at \in {"wait", "locked"} /\ loader' = t
               /\ scan'[t].at \in {"locked", "loading", "get"}
            \/ UNCHANGED inferring /\ scan[t].at = "loading" /\ loader' = NoOne
            \/ /\ UNCHANGED loader
               /\ scan[t].at = "classify" /\ scan'[t].at = "inside" /\ scan'[t].by = scan[t].by
               /\ inferring' = [inferring EXCEPT ![scan[t].by] = t]
            \/ /\ UNCHANGED loader
               /\ scan[t].at = "inside"
               /\ inferring' = [inferring EXCEPT ![scan[t].by] = NoOne]
<1>1. scan \in [Threads -> ScanRecord] /\ scan[t] \in ScanRecord
  BY DEF ScannerInv, ScannerType
<1>2. CASE StartScan(t)
  <2>1. scan[t].at \in {"idle", "done"} /\ UNCHANGED <<loader, inferring>>
    BY <1>2 DEF StartScan, sharedVars
  <2>2. \E new : scan' = [scan EXCEPT ![t] = new]
    BY <1>2, Zenon DEF StartScan
  <2>. QED
    BY <1>1, <2>1, <2>2
<1>3. CASE LookUp(t)
  BY <1>1, <1>3 DEF LookUp, Goto, sharedVars
<1>4. CASE GetPair(t)
  BY <1>1, <1>4 DEF GetPair
<1>5. CASE Lock(t) \/ Recheck(t)
  <2>1. Recheck(t) => loader = t
    BY DEF Recheck, ScannerInv, Loading
  <2>2. PICK at \in {"locked", "loading", "get"} :
          scan' = [scan EXCEPT ![t].at = at] /\ loader' = t /\ UNCHANGED inferring
    BY <1>5, <2>1 DEF Lock, Recheck, Goto, sharedVars
  <2>3. scan'[t].at = at
    BY <1>1, <2>2 DEF ScanRecord
  <2>. QED
    BY <1>1, <1>5, <2>2, <2>3 DEF Lock, Recheck
<1>6. CASE DoLoad(t)
  BY <1>1, <1>6 DEF DoLoad
<1>7. CASE Enter(t)
  <2>1. scan'[t].at = "inside" /\ scan'[t].by = scan[t].by
    BY <1>1, <1>7 DEF Enter, Goto, ScanRecord
  <2>. QED
    BY <1>1, <1>7, <2>1 DEF Enter, Goto
<1>8. CASE Panic(t)
  <2>1. /\ UNCHANGED loader /\ scan[t].at = "inside"
        /\ inferring' = [inferring EXCEPT ![scan[t].by] = NoOne]
    BY <1>8, Zenon DEF Panic
  <2>2. \E new : scan' = [scan EXCEPT ![t] = new]
    BY <1>8, Zenon DEF Panic
  <2>. QED
    BY <1>1, <2>1, <2>2
<1>9. CASE Infer(t)
  BY <1>1, <1>9 DEF Infer
<1>. QED
  BY <1>2, <1>3, <1>4, <1>5, <1>6, <1>7, <1>8, <1>9

LEMMA ScanHolds ==
  ASSUME ScannerInv, HeldInv, NEW t \in Threads,
         \/ StartScan(t) \/ LookUp(t) \/ GetPair(t) \/ Lock(t) \/ Recheck(t) \/ DoLoad(t)
         \/ Enter(t) \/ Panic(t) \/ Infer(t)
  PROVE  HeldInv'
<1>1. /\ loader \in Threads \cup {NoOne} /\ NoOne \notin Threads
      /\ inferring \in [Scanners -> Threads \cup {NoOne}]
      /\ \A u \in Threads : u # t => scan'[u] = scan[u]
      /\ scan[t].at \in Busy => scan[t].by \in Scanners
  BY ScanMoves, ScannerAssumption DEF ScannerInv, ScannerType, Inside
<1>2. loader' # NoOne => scan'[loader'].at \in {"locked", "loading", "get"}
  <2>1. CASE loader' = loader /\ loader # t
    BY <1>1, <2>1 DEF HeldInv
  <2>2. CASE loader = t /\ loader # NoOne /\ scan[t].at \notin {"locked", "loading", "get"}
    BY <2>2 DEF HeldInv
  <2>. QED
    BY <1>1, <2>1, <2>2, ScanMoves
<1>3. ASSUME NEW p \in Scanners, inferring'[p] # NoOne
      PROVE  scan'[inferring'[p]].at = "inside" /\ scan'[inferring'[p]].by = p
  <2>1. CASE inferring'[p] = inferring[p] /\ inferring[p] # t
    BY <1>1, <1>3, <2>1 DEF HeldInv
  <2>2. CASE inferring'[p] = inferring[p] /\ inferring[p] = t
    <3>1. scan[t].at = "inside" /\ scan[t].by = p
      BY <1>1, <2>2 DEF HeldInv
    <3>2. inferring'[p] = NoOne
      BY <1>1, <3>1, ScanMoves
    <3>. QED
      BY <1>3, <3>2
  <2>3. CASE inferring'[p] # inferring[p]
    <3>1. /\ inferring'[p] = t /\ p = scan[t].by
          /\ scan'[t].at = "inside" /\ scan'[t].by = scan[t].by
      BY <1>1, <1>3, <2>3, ScanMoves
    <3>. QED
      BY <3>1
  <2>. QED
    BY <2>1, <2>2, <2>3
<1>. QED
  BY <1>2, <1>3 DEF HeldInv

\* Whether it answers, raises or panics, a scan leaves no lock behind: one that
\* waits for the model waits for a thread that loads it, and one that waits for
\* its scanner waits for a thread that is inside the classifier of that scanner.
THEOREM ScanLocksGivenBack ==
  ScannerSpec => [](\A t \in Threads :
      /\ scan[t].at = "wait" /\ loader # NoOne =>
             \E u \in Threads \ {t} : scan[u].at \in {"locked", "loading", "get"}
      /\ scan[t].at = "classify" /\ inferring[scan[t].by] # NoOne =>
             \E u \in Threads \ {t} : scan[u].at = "inside" /\ scan[u].by = scan[t].by)
<1>1. ScannerInv /\ HeldInv /\ [ScannerNext]_scannerVars => HeldInv'
  <2>. SUFFICES ASSUME ScannerInv, HeldInv, [ScannerNext]_scannerVars PROVE HeldInv'
    OBVIOUS
  <2>1. CASE UNCHANGED <<loader, inferring, scan>>
    BY <2>1 DEF HeldInv
  <2>2. CASE Clear
    <3>1. /\ scan' = [t \in Threads |-> IF scan[t].at \in {"idle", "done"} THEN scan[t]
                                        ELSE [scan[t] EXCEPT !.excuse = @ \cup {"cleared"}]]
          /\ UNCHANGED <<loader, inferring>>
      BY <2>2 DEF Clear, During
    <3>2. \A u \in Threads : scan'[u].at = scan[u].at /\ scan'[u].by = scan[u].by
      BY <3>1 DEF ScannerInv, ScannerType, ScanRecord
    <3>. QED
      BY <3>1, <3>2 DEF HeldInv, ScannerInv, ScannerType
  <2>3. Download \/ UNCHANGED scannerVars => UNCHANGED <<loader, inferring, scan>>
    BY DEF Download, scannerVars, sharedVars
  <2>. QED
    BY <2>1, <2>2, <2>3, ScanHolds DEF ScannerNext
<1>2. ScannerInit => HeldInv
  BY DEF ScannerInit, HeldInv
<1>3. ScannerInv /\ HeldInv =>
        \A t \in Threads :
          /\ scan[t].at = "wait" /\ loader # NoOne =>
                 \E u \in Threads \ {t} : scan[u].at \in {"locked", "loading", "get"}
          /\ scan[t].at = "classify" /\ inferring[scan[t].by] # NoOne =>
                 \E u \in Threads \ {t} : scan[u].at = "inside" /\ scan[u].by = scan[t].by
  <2>. SUFFICES ASSUME ScannerInv, HeldInv, NEW t \in Threads
                PROVE  /\ scan[t].at = "wait" /\ loader # NoOne =>
                             \E u \in Threads \ {t} : scan[u].at \in {"locked", "loading", "get"}
                       /\ scan[t].at = "classify" /\ inferring[scan[t].by] # NoOne =>
                             \E u \in Threads \ {t} : scan[u].at = "inside" /\ scan[u].by = scan[t].by
    OBVIOUS
  <2>1. ASSUME scan[t].at = "wait", loader # NoOne
        PROVE  \E u \in Threads \ {t} : scan[u].at \in {"locked", "loading", "get"}
    <3>1. loader \in Threads \ {t} /\ scan[loader].at \in {"locked", "loading", "get"}
      BY <2>1 DEF HeldInv, ScannerInv, ScannerType
    <3>. QED
      BY <3>1
  <2>2. ASSUME scan[t].at = "classify", inferring[scan[t].by] # NoOne
        PROVE  \E u \in Threads \ {t} : scan[u].at = "inside" /\ scan[u].by = scan[t].by
    <3>1. scan[t].by \in Scanners
      BY <2>2 DEF ScannerInv, Inside, Busy
    <3> DEFINE u == inferring[scan[t].by]
    <3>2. u \in Threads \ {t} /\ scan[u].at = "inside" /\ scan[u].by = scan[t].by
      BY <2>2, <3>1 DEF HeldInv, ScannerInv, ScannerType
    <3>. QED
      BY <3>2
  <2>. QED
    BY <2>1, <2>2
<1>. QED
  BY <1>1, <1>2, <1>3, ScannerInvariant, PTL DEF ScannerSpec
-----------------------------------------------------------------------------
(* The hooks, and the code scanner.                                        *)

\* The logical lines of a text are as long as the text.
LEMMA LogicalLength ==
  ASSUME NEW text \in Seq(Pieces)
  PROVE  Len(Normalize(text)) = Len(text)
<1> DEFINE piece(i) == IF text[i] = "newline" /\ Depth(text)[i] > 0 THEN "blank" ELSE text[i]
           S == Pieces \cup {"blank"}
<1>1. Len(text) \in Nat /\ \A i \in 1 .. Len(text) : text[i] \in Pieces
  OBVIOUS
<1>2. \A i \in 1 .. Len(text) : piece(i) \in S
  BY <1>1
<1> HIDE DEF piece, S
<1>3. [i \in 1 .. Len(text) |-> piece(i)] \in Seq(S)
  BY <1>1, <1>2
<1>4. DOMAIN [i \in 1 .. Len(text) |-> piece(i)] = 1 .. Len(text)
  OBVIOUS
<1>5. Len([i \in 1 .. Len(text) |-> piece(i)]) = Len(text)
  BY <1>1, <1>3, <1>4
<1>6. Normalize(text) = [i \in 1 .. Len(text) |-> piece(i)]
  BY DEF Normalize, piece
<1> QED
  BY <1>5, <1>6

\* What InlineCode returns.
LEMMA ScannedCode ==
  ASSUME NEW code \in Code
  PROVE  InlineCode(code, "bash").text \in Seq(Pieces)
  BY DEF InlineCode, Code

\* The findings in a text: empty only if no rule is about the text, or the
\* scanner looks past what one is about; not empty only if a rule is.
LEMMA FindingsMean ==
  ASSUME NEW text \in Seq(Pieces), NEW language
  PROVE  /\ Findings(text, language) = {} => \/ ~Dangerous(text, language)
                                            \/ LooksPast(text, language)
         /\ Findings(text, language) # {} => Dangerous(text, language)
<1> DEFINE logical == IF language = "python" THEN Normalize(text) ELSE text
           denied == {text[i] : i \in {i \in 1 .. Len(text) : text[i] = "deny"}}
<1>1. Len(logical) = Len(text) /\ Len(text) \in Nat
  BY LogicalLength
<1>2. Findings(text, language) = (IF Matches(logical) THEN {"warn"} ELSE {}) \cup denied
  BY DEF Findings
<1>3. Dangerous(text, language) <=>
         \/ \E i \in 1 .. Len(text) : text[i] = "deny"
         \/ \E i, j \in 1 .. Len(text) :
               i < j /\ logical[i] = "main" /\ logical[j] = "target" /\ SameSegment(logical, i, j)
  BY DEF Dangerous
<1>4. LooksPast(text, language) <=>
         \E i, j \in 1 .. Len(text) :
            i < j /\ logical[i] = "target" /\ logical[j] = "main" /\ SameSegment(logical, i, j)
  BY DEF LooksPast
<1>5. Matches(logical) <=>
         \E i, j \in 1 .. Len(text) :
            /\ i < j /\ logical[i] = "main" /\ logical[j] = "target" /\ SameSegment(logical, i, j)
            /\ \A k \in 1 .. i : logical[k] = "target" => ~SameSegment(logical, k, i)
  BY <1>1 DEF Matches
<1> HIDE DEF logical
<1>6. ASSUME Findings(text, language) = {}, Dangerous(text, language)
      PROVE  LooksPast(text, language)
  <2>1. ~Matches(logical) /\ ~\E i \in 1 .. Len(text) : text[i] = "deny"
    BY <1>2, <1>6
  <2>2. PICK i, j \in 1 .. Len(text) :
            i < j /\ logical[i] = "main" /\ logical[j] = "target" /\ SameSegment(logical, i, j)
    BY <1>3, <1>6, <2>1
  <2>3. PICK k \in 1 .. i : logical[k] = "target" /\ SameSegment(logical, k, i)
    BY <1>5, <2>1, <2>2
  <2>4. k < i /\ k \in 1 .. Len(text)
    BY <1>1, <2>2, <2>3
  <2> QED
    BY <1>4, <2>2, <2>3, <2>4
<1>7. Findings(text, language) # {} => Dangerous(text, language)
  BY <1>2, <1>3, <1>5
<1> QED
  BY <1>6, <1>7

\* What scan answers about a command line.
LEMMA ScanMeans ==
  ASSUME NEW code \in Code, NEW rulesLoad \in BOOLEAN
  PROVE  LET scanned == InlineCode(code, "bash")
             verdict == Scan(code, "bash", rulesLoad)
         IN  /\ verdict \in {"pass", "warn", "deny", "error"}
             /\ verdict \in {"warn", "deny"} => Dangerous(scanned.text, scanned.language)
             /\ verdict \in {"pass", "error"} =>
                    \/ ~rulesLoad
                    \/ ~Dangerous(scanned.text, scanned.language)
                    \/ LooksPast(scanned.text, scanned.language)
<1> DEFINE scanned == InlineCode(code, "bash")
           blank == code.interpreter = "none" /\ code.outer = <<>>
           findings == Findings(scanned.text, scanned.language)
<1>1. scanned.text \in Seq(Pieces)
  BY ScannedCode
<1>2. /\ findings = {} => \/ ~Dangerous(scanned.text, scanned.language)
                          \/ LooksPast(scanned.text, scanned.language)
      /\ findings # {} => Dangerous(scanned.text, scanned.language)
  BY <1>1, FindingsMean
<1>3. /\ ComputeVerdict(findings) \in {"pass", "warn", "deny"}
      /\ ComputeVerdict(findings) = "pass" <=> findings = {}
  BY DEF ComputeVerdict
<1>4. blank => ~Dangerous(scanned.text, scanned.language)
  <2>1. SUFFICES ASSUME blank PROVE ~Dangerous(scanned.text, scanned.language)
    OBVIOUS
  <2>2. scanned.text = <<>> /\ scanned.language = "bash"
    BY <2>1 DEF InlineCode
  <2> QED
    BY <2>2 DEF Dangerous
<1>5. Scan(code, "bash", rulesLoad) = IF blank \/ ~rulesLoad THEN "error" ELSE ComputeVerdict(findings)
  BY DEF Scan
<1> HIDE DEF scanned, blank, findings
<1>6. /\ Scan(code, "bash", rulesLoad) \in {"pass", "warn", "deny", "error"}
      /\ Scan(code, "bash", rulesLoad) \in {"warn", "deny"} => Dangerous(scanned.text, scanned.language)
      /\ Scan(code, "bash", rulesLoad) \in {"pass", "error"} =>
             \/ ~rulesLoad
             \/ ~Dangerous(scanned.text, scanned.language)
             \/ LooksPast(scanned.text, scanned.language)
  BY <1>2, <1>3, <1>4, <1>5
<1> QED
  BY <1>6 DEF scanned

Statuses == {"pass", "none", "drifted", "warn", "deny", "tampered", "error", "raises"}

HookState ==
    [at : {"idle", "init-keys", "run", "wait", "done"}, told : {"nothing", "reason", "ask"},
     why : {"none", "nothing to do", "no command", "answer", "exit code", "no output",
            "timeout", "killed"}]

CliState ==
    [at : {"none", "running", "exited"}, verdict : Statuses \ {"raises"}, exit : {0, 1}]

\* What the hook tells cosh when it learns what the command has answered.
Told(r) ==
    IF r.hook = "skill" THEN (IF Printed(r) = "pass" THEN "nothing" ELSE "reason")
    ELSE IF Exit(r) # 0 THEN "nothing" ELSE FormatCosh(Printed(r))

\* The event and the answer of a command that has run are those of the
\* request; a hook that is done has told what the command answered, or names
\* why it could not.
HooksInv ==
    /\ hook \in HookState /\ cli \in CliState
    /\ request \in Requests \cup {None}
    /\ hook.at = "idle" => request = None /\ cli.at = "none" /\ event = NoEvent
    /\ hook.at \in {"init-keys", "run", "wait"} => request \in Requests
    /\ cli.at # "none" => request \in Requests
    /\ event # NoEvent => request \in Requests /\ event = VerdictOf(request)
    /\ cli.at = "exited" =>
          event # NoEvent /\ cli.verdict = Printed(request) /\ cli.exit = Exit(request)
    /\ hook.at = "done" /\ request # None =>
          \/ hook.told = "nothing" /\ hook.why \notin {"answer", "exit code"}
          \/ hook.told = Told(request) /\ event # NoEvent

LEMMA RequestCases ==
  ASSUME NEW r \in Requests
  PROVE  /\ r # None /\ r.hook \in {"code", "prompt", "skill"}
         /\ r.hook = "code" => r.code \in Code /\ r.rulesLoad \in BOOLEAN
         /\ r.hook = "prompt" => r.verdict \in {"pass", "warn", "deny", "raises"}
         /\ r.hook = "skill" => r.verdict \in Statuses \ {"raises"}
<1>1. CASE r \in [hook : {"code"}, code : Codes, rulesLoad : BOOLEAN]
  BY <1>1, CodesAssumption DEF None
<1>2. CASE r \in [hook : {"prompt"}, verdict : {"pass", "warn", "deny", "raises"}]
  BY <1>2 DEF None
<1>3. CASE r \in [hook : {"skill"},
                  verdict : {"pass", "none", "drifted", "warn", "deny", "tampered", "error"}]
  BY <1>3 DEF None, Statuses
<1> QED
  BY <1>1, <1>2, <1>3 DEF Requests

LEMMA VerdictCases ==
  ASSUME NEW r \in Requests
  PROVE  /\ VerdictOf(r) \in Statuses /\ VerdictOf(r) # NoEvent
         /\ r.hook = "code" => VerdictOf(r) = Scan(r.code, "bash", r.rulesLoad)
                               /\ VerdictOf(r) \in {"pass", "warn", "deny", "error"}
         /\ r.hook = "prompt" => VerdictOf(r) \in {"pass", "warn", "deny", "raises"}
         /\ r.hook = "skill" => VerdictOf(r) # "raises"
<1>1. CASE r.hook = "code"
  <2>1. VerdictOf(r) = Scan(r.code, "bash", r.rulesLoad)
    BY <1>1 DEF VerdictOf
  <2>2. VerdictOf(r) \in {"pass", "warn", "deny", "error"}
    BY <1>1, <2>1, RequestCases, ScanMeans
  <2> QED
    BY <1>1, <2>1, <2>2 DEF Statuses, NoEvent
<1>2. CASE r.hook # "code"
  BY <1>2, RequestCases DEF VerdictOf, Statuses, NoEvent
<1> QED
  BY <1>1, <1>2

LEMMA NoCliType == NoCli \in CliState /\ NoCli.at = "none"
<1>1. "none" \in Statuses \ {"raises"}
  BY DEF Statuses
<1> QED
  BY <1>1 DEF NoCli, CliState

LEMMA HooksStart == HooksInit => HooksInv
<1> SUFFICES ASSUME HooksInit PROVE HooksInv
  OBVIOUS
<1>1. hook \in HookState /\ hook.at = "idle"
  BY DEF HooksInit, HookState
<1>2. cli \in CliState /\ cli.at = "none" /\ request = None /\ event = NoEvent
  BY NoCliType DEF HooksInit
<1> QED
  BY <1>1, <1>2 DEF HooksInv

\* The printed verdict, the exit code and what is told, by their types.
LEMMA AnswerTypes ==
  ASSUME NEW r \in Requests
  PROVE  /\ Printed(r) \in Statuses \ {"raises"} /\ Exit(r) \in {0, 1}
         /\ Told(r) \in {"nothing", "reason", "ask"}
<1>1. Printed(r) \in Statuses \ {"raises"}
  BY VerdictCases DEF Printed, Statuses
<1>2. Exit(r) \in {0, 1}
  BY RequestCases DEF Exit
<1> QED
  BY <1>1, <1>2 DEF Told, FormatCosh

\* A hook that ends without an answer.
LEMMA HookGivesUp ==
  ASSUME HooksInv, hook.at # "done", NEW told \in {"nothing", "reason"},
         NEW why \in {"nothing to do", "no command", "no output", "timeout", "killed"},
         Answers(told, why),
         request = None \/ told = "nothing", cli' = cli \/ cli' = NoCli,
         UNCHANGED <<request, event>>
  PROVE  HooksInv'
<1>1. hook' \in HookState /\ hook'.at = "done" /\ hook'.told = told /\ hook'.why = why
  BY DEF Answers, HookState
<1>2. cli' \in CliState /\ (cli'.at = "none" \/ cli' = cli)
  BY NoCliType DEF HooksInv
<1> QED
  BY <1>1, <1>2 DEF HooksInv

LEMMA HooksSteps ==
  ASSUME HooksInv, HooksNext
  PROVE  HooksInv'
<1> USE DEF HooksInv
<1>1. CASE NothingToDo
  BY <1>1, HookGivesUp DEF NothingToDo
<1>2. CASE Receive
  <2>1. request' \in Requests /\ UNCHANGED <<cli, keys, event>> /\ event = NoEvent /\ cli.at = "none"
    BY <1>2 DEF Receive
  <2>2. hook' \in HookState /\ hook'.at \in {"init-keys", "run"}
    BY <1>2 DEF Receive, Waits, HookState
  <2> QED
    BY <2>1, <2>2
<1>3. CASE EnsureKeys
  <2>1. hook' \in HookState /\ hook'.at = "run"
    BY <1>3 DEF EnsureKeys, Waits, HookState
  <2> QED
    BY <1>3, <2>1 DEF EnsureKeys
<1>4. CASE Run
  <2>1. CASE Answers("nothing", "no command") /\ UNCHANGED cli
    BY <1>4, <2>1, HookGivesUp DEF Run
  <2>2. CASE Waits("wait") /\ cli' = [NoCli EXCEPT !.at = "running"]
    <3>1. hook' \in HookState /\ hook'.at = "wait"
      BY <2>2 DEF Waits, HookState
    <3>2. cli' \in CliState /\ cli'.at = "running"
      BY <2>2 DEF NoCli, CliState, Statuses
    <3> QED
      BY <1>4, <3>1, <3>2 DEF Run
  <2> QED
    BY <1>4, <2>1, <2>2 DEF Run
<1>5. CASE LogVerdict
  BY <1>5, VerdictCases DEF LogVerdict
<1>6. CASE Exits
  <2>1. request \in Requests
    BY <1>6 DEF Exits
  <2>2. cli' \in CliState /\ cli'.at = "exited"
        /\ cli'.verdict = Printed(request) /\ cli'.exit = Exit(request)
    BY <1>6, <2>1, AnswerTypes DEF Exits, CliState
  <2>3. event # NoEvent /\ UNCHANGED <<hook, request, event>>
    BY <1>6 DEF Exits
  <2> QED
    BY <2>1, <2>2, <2>3
<1>7. ASSUME ReadScan \/ ReadCheck PROVE HooksInv'
  <2>1. request \in Requests /\ cli.at = "exited" /\ UNCHANGED <<request, cli, event>>
    BY <1>7 DEF ReadScan, ReadCheck
  <2>2. \E why \in {"answer", "exit code"} :
            hook' = [at |-> "done", told |-> Told(request), why |-> why]
    <3>1. cli.verdict = Printed(request) /\ cli.exit = Exit(request)
      BY <2>1
    <3>2. CASE ReadScan /\ cli.exit # 0
      <4>1. hook' = [at |-> "done", told |-> "nothing", why |-> "exit code"]
        BY <3>2 DEF ReadScan, Answers
      <4>2. Told(request) = "nothing"
        BY <3>1, <3>2 DEF ReadScan, Told
      <4> QED
        BY <4>1, <4>2
    <3>3. CASE ReadScan /\ cli.exit = 0
      <4>1. hook' = [at |-> "done", told |-> FormatCosh(cli.verdict), why |-> "answer"]
        BY <3>3 DEF ReadScan, Answers
      <4>2. Told(request) = FormatCosh(cli.verdict)
        BY <3>1, <3>3 DEF ReadScan, Told
      <4> QED
        BY <4>1, <4>2
    <3>4. CASE ReadCheck
      <4>1. hook' = [at |-> "done", told |-> IF cli.verdict = "pass" THEN "nothing" ELSE "reason",
                     why |-> "answer"]
        BY <3>4 DEF ReadCheck, Answers
      <4>2. Told(request) = IF cli.verdict = "pass" THEN "nothing" ELSE "reason"
        BY <3>1, <3>4 DEF ReadCheck, Told
      <4> QED
        BY <4>1, <4>2
    <3> QED
      BY <1>7, <3>2, <3>3, <3>4
  <2>3. Told(request) \in {"nothing", "reason", "ask"}
    BY <2>1, AnswerTypes
  <2>4. hook' \in HookState /\ hook'.at = "done" /\ hook'.told = Told(request)
    <3>1. PICK why \in {"answer", "exit code"} :
              hook' = [at |-> "done", told |-> Told(request), why |-> why]
      BY <2>2
    <3> QED
      BY <2>3, <3>1 DEF HookState
  <2> QED
    BY <2>1, <2>4
<1>8. CASE TimeOut
  BY <1>8, HookGivesUp DEF TimeOut
<1>9. CASE KillHook
  BY <1>9, HookGivesUp DEF KillHook
<1>10. CASE ReadNothing
  BY <1>10, HookGivesUp DEF ReadNothing
<1>11. CASE NextCall
  <2>1. hook' \in HookState /\ hook'.at = "idle"
    BY <1>11 DEF NextCall, HookState
  <2>2. cli' \in CliState /\ cli'.at = "none"
    BY <1>11, NoCliType DEF NextCall
  <2> QED
    BY <1>11, <2>1, <2>2 DEF NextCall
<1> QED
  BY <1>1, <1>2, <1>3, <1>4, <1>5, <1>6, <1>7, <1>8, <1>9, <1>10, <1>11
  DEF HooksNext

LEMMA HooksStutter ==
  ASSUME HooksInv, UNCHANGED hooksVars
  PROVE  HooksInv'
  BY DEF HooksInv, hooksVars

\* The hooks and their commands: in all behaviours the event, the printed
\* verdict and the exit code are those of the request, and a hook that is
\* done has told what they say or names why it could not.
THEOREM HooksInvariant == HooksSpec => []HooksInv
<1>1. HooksInv /\ [HooksNext]_hooksVars => HooksInv'
  BY HooksSteps, HooksStutter
<1> QED
  BY <1>1, HooksStart, PTL DEF HooksSpec

LEMMA ToldFollows ==
  ASSUME HooksInv
  PROVE  ToldOrFailed
<1>1. SUFFICES ASSUME hook.at = "done", request # None PROVE ToldOrFailed
  BY DEF ToldOrFailed
<1> DEFINE scanned == InlineCode(request.code, "bash")
<1>2. request \in Requests
  BY <1>1 DEF HooksInv
<1>3. CASE hook.told = "nothing" /\ hook.why \notin {"answer", "exit code"}
  BY <1>3 DEF ToldOrFailed
<1>4. CASE hook.told = Told(request) /\ event # NoEvent
  <2>1. event = VerdictOf(request)
    BY <1>4 DEF HooksInv
  <2>2. CASE request.hook = "code"
    <3>1. /\ event \in {"pass", "warn", "deny", "error"}
          /\ event = Scan(request.code, "bash", request.rulesLoad)
      BY <1>2, <2>1, <2>2, VerdictCases
    <3>2. hook.told = IF event \in {"warn", "deny"} THEN "ask" ELSE "nothing"
      BY <1>4, <2>1, <2>2, <3>1 DEF Told, Exit, FormatCosh, Printed
    <3>3. /\ event \in {"warn", "deny"} => Dangerous(scanned.text, scanned.language)
          /\ event \in {"pass", "error"} =>
                 \/ ~request.rulesLoad
                 \/ ~Dangerous(scanned.text, scanned.language)
                 \/ LooksPast(scanned.text, scanned.language)
      BY <1>2, <2>2, <3>1, RequestCases, ScanMeans
    <3> QED
      BY <2>1, <2>2, <3>1, <3>2, <3>3 DEF ToldOrFailed
  <2>3. CASE request.hook = "prompt"
    <3>1. event \in {"pass", "warn", "deny", "raises"}
      BY <1>2, <2>1, <2>3, VerdictCases
    <3>2. hook.told = IF event \in {"warn", "deny"} THEN "ask" ELSE "nothing"
      BY <1>4, <2>1, <2>3, <3>1 DEF Told, Exit, FormatCosh, Printed
    <3> QED
      BY <2>1, <2>3, <3>1, <3>2 DEF ToldOrFailed
  <2>4. CASE request.hook = "skill"
    <3>1. hook.told = IF event = "pass" THEN "nothing" ELSE "reason"
      BY <1>2, <1>4, <2>1, <2>4, VerdictCases DEF Told, Printed
    <3> QED
      BY <2>1, <2>4, <3>1 DEF ToldOrFailed
  <2> QED
    BY <1>2, <2>2, <2>3, <2>4, RequestCases
<1> QED
  BY <1>1, <1>3, <1>4 DEF HooksInv

\* For any set of command lines, of any length: the user hears of a threat or
\* of a skill that is not approved and the log says the same, or the hook
\* names why not; the user is asked about nothing that no rule is about.
THEOREM AlwaysToldOrFailed == HooksSpec => []ToldOrFailed
  BY HooksInvariant, ToldFollows, PTL
-----------------------------------------------------------------------------
(* The OpenClaw plug-in.                                                   *)

\* The promise is pending exactly while its one init-keys runs, and only
\* calls that wait for it wait; it is kept only once the keys were there.
PluginInv ==
    /\ PluginTypeOK
    /\ inits = IF promise = "pending" THEN 1 ELSE 0
    /\ promise = "kept" => keyFiles \/ losses > 0
    /\ \A c \in Calls :
          /\ handler[c].at # "idle" => handler[c].kind # "none"
          /\ handler[c].at = "keys" => promise = "pending"
          /\ handler[c].at = "ready" /\ handler[c].kind = "skill" =>
                keyFiles \/ handler[c].tried \/ losses > 0

Call == [at : {"idle", "keys", "ready", "waits", "done"}, kind : {"none", "code", "prompt", "skill"},
         tried : BOOLEAN, answer : {"none", "failed"} \cup CheckStatuses,
         told : {"nothing", "approval", "refusal", "log", "alarm", "command error"}]

\* PluginTypeOK, conjunct by conjunct.
LEMMA PluginTypes ==
  /\ PluginTypeOK <=> /\ handler \in [Calls -> Call]
                      /\ promise \in {"null", "pending", "kept"} /\ inits \in {0, 1}
                      /\ keyFiles \in BOOLEAN /\ block \in BOOLEAN
                      /\ losses \in Nat /\ losses <= MaxLosses
  /\ PluginTypeOK' <=> /\ handler' \in [Calls -> Call]
                       /\ promise' \in {"null", "pending", "kept"} /\ inits' \in {0, 1}
                       /\ keyFiles' \in BOOLEAN /\ block' \in BOOLEAN
                       /\ losses' \in Nat /\ losses' <= MaxLosses
<1>1. 0 .. 1 = {0, 1} /\ \A n : n \in 0 .. MaxLosses <=> n \in Nat /\ n <= MaxLosses
  BY PluginAssumption
<1>2. \A n : n \in 0 .. MaxLosses <=> n \in Nat /\ n <= MaxLosses
  BY <1>1
<1> QED
  BY <1>1, <1>2 DEF PluginTypeOK, Call

LEMMA PluginStarts == PluginInit => PluginInv
  BY PluginAssumption DEF PluginInit, PluginInv, PluginTypeOK, NoCall

\* A step that changes one call, to one that neither waits for the keys nor
\* is ready, and nothing else.
LEMMA OneCallMoves ==
  ASSUME PluginInv, NEW c \in Calls, NEW new \in Call, new.at \in {"idle", "waits", "done"},
         new.at # "idle" => new.kind # "none",
         handler' = [handler EXCEPT ![c] = new], UNCHANGED <<promise, inits, keyFiles, block, losses>>
  PROVE  PluginInv'
<1>1. handler' \in [Calls -> Call]
  BY DEF PluginInv, PluginTypeOK, Call
<1>2. \A d \in Calls : handler'[d] = IF d = c THEN new ELSE handler[d]
  BY DEF PluginInv, PluginTypeOK
<1>3. PluginTypeOK'
  BY <1>1 DEF PluginInv, PluginTypeOK, Call
<1> QED
  BY <1>2, <1>3 DEF PluginInv

LEMMA SaysType ==
  ASSUME NEW kind \in {"code", "prompt", "skill"}, NEW answer \in {"failed"} \cup CheckStatuses
  PROVE  Says(kind, answer) \in {"nothing", "approval", "refusal", "log", "alarm", "command error"}
<1>1. CASE kind = "code"
  BY <1>1 DEF Says
<1>2. CASE kind = "prompt"
  BY <1>2 DEF Says
<1>3. CASE kind = "skill"
  BY <1>3 DEF Says
<1> QED
  BY <1>1, <1>2, <1>3

LEMMA PluginSteps ==
  ASSUME PluginInv, PluginNext
  PROVE  PluginInv'
<1> USE DEF PluginInv
<1>t. handler \in [Calls -> Call]
  BY DEF PluginTypeOK, Call
<1>1. ASSUME NEW c \in Calls, BeginScan(c) PROVE PluginInv'
  <2>1. PICK kind \in {"code", "prompt"} :
            handler' = [handler EXCEPT ![c].at = "waits", ![c].kind = kind]
    BY <1>1 DEF BeginScan
  <2> DEFINE new == [handler[c] EXCEPT !.at = "waits", !.kind = kind]
  <2>2. new \in Call /\ new.at = "waits" /\ new.kind # "none"
    BY <1>t DEF Call
  <2>3. handler' = [handler EXCEPT ![c] = new]
    BY <2>1, <1>t DEF Call
  <2> QED
    BY <1>1, <2>2, <2>3, OneCallMoves DEF BeginScan
<1>2. ASSUME NEW c \in Calls, AwaitKeys(c) PROVE PluginInv'
  <2> DEFINE at == IF promise' = "pending" THEN "keys" ELSE "ready"
             new == [handler[c] EXCEPT !.kind = "skill", !.at = at]
  <2>1. new \in Call /\ new.at = at /\ new.kind = "skill"
    BY <1>t DEF Call
  <2>2. handler' = [handler EXCEPT ![c] = new]
    BY <1>2, <1>t DEF AwaitKeys, Call
  <2>3. \A d \in Calls : handler'[d] = IF d = c THEN new ELSE handler[d]
    BY <2>2, <1>t
  <2>4. handler' \in [Calls -> Call]
    BY <2>1, <2>2, <1>t
  <2>5. /\ promise' \in {"null", "pending", "kept"}
        /\ inits' = IF promise' = "pending" THEN 1 ELSE 0
        /\ promise' = "kept" => keyFiles' \/ losses' > 0
        /\ promise' = "pending" \/ promise' = "kept"
        /\ promise = "pending" => promise' = "pending"
    <3>1. CASE promise = "null" /\ keyFiles
      BY <1>2, <3>1, PluginTypes DEF AwaitKeys
    <3>2. CASE promise = "null" /\ ~keyFiles
      BY <1>2, <3>2, PluginTypes DEF AwaitKeys
    <3>3. CASE promise # "null"
      BY <1>2, <3>3, PluginTypes DEF AwaitKeys
    <3> QED
      BY <3>1, <3>2, <3>3
  <2>6. UNCHANGED <<keyFiles, block, losses>>
    BY <1>2 DEF AwaitKeys
  <2>7. PluginTypeOK'
    <3>1. inits' \in {0, 1}
      BY <2>5
    <3> QED
      BY <2>4, <2>5, <2>6, <3>1, PluginTypes
  <2> HIDE DEF new
  <2> QED
    BY <2>1, <2>3, <2>5, <2>6, <2>7
<1>3. ASSUME NEW c \in Calls, RunCheck(c) PROVE PluginInv'
  <2> DEFINE new == [handler[c] EXCEPT !.at = "waits"]
  <2>1. new \in Call /\ new.at = "waits" /\ new.kind # "none"
    BY <1>3, <1>t DEF Call, RunCheck
  <2>2. handler' = [handler EXCEPT ![c] = new]
    BY <1>3, <1>t DEF RunCheck, Call
  <2> QED
    BY <1>3, <2>1, <2>2, OneCallMoves DEF RunCheck
<1>4. ASSUME NEW c \in Calls, Return(c) PROVE PluginInv'
  <2>1. PICK answer \in {"failed"} \cup (IF handler[c].kind = "skill" THEN CheckStatuses ELSE Verdicts) :
            handler' = [handler EXCEPT ![c].at = "done", ![c].answer = answer,
                                       ![c].told = Says(handler[c].kind, answer)]
    BY <1>4 DEF Return
  <2>2. answer \in {"failed"} \cup CheckStatuses
    BY <2>1 DEF CheckStatuses, Verdicts
  <2>3. handler[c].kind \in {"code", "prompt", "skill"}
    BY <1>4, <1>t DEF Return, Call
  <2> DEFINE says == Says(handler[c].kind, answer)
             new == [handler[c] EXCEPT !.at = "done", !.answer = answer, !.told = says]
  <2>4. says \in {"nothing", "approval", "refusal", "log", "alarm", "command error"}
    BY <2>2, <2>3, SaysType
  <2>5. handler' = [handler EXCEPT ![c] = new]
    BY <2>1, <1>t DEF Call
  <2> HIDE DEF says
  <2>6. new \in Call /\ new.at = "done" /\ new.kind # "none"
    BY <2>2, <2>3, <2>4, <1>t DEF Call
  <2> QED
    BY <1>4, <2>5, <2>6, OneCallMoves DEF Return
<1>5. ASSUME NEW c \in Calls, Forget(c) PROVE PluginInv'
  <2>1. NoCall \in Call /\ NoCall.at = "idle"
    BY DEF NoCall, Call
  <2> QED
    BY <1>5, <2>1, OneCallMoves DEF Forget
<1>6. CASE InitReturns
  <2>1. promise = "pending" /\ inits' = 0
    BY <1>6 DEF InitReturns
  <2>2. promise' \in {"null", "kept"} /\ (promise' = "kept" => keyFiles \/ losses > 0)
    BY <1>6 DEF InitReturns
  <2>3. \A d \in Calls :
            /\ handler'[d] = IF handler[d].at = "keys"
                             THEN [handler[d] EXCEPT !.at = "ready", !.tried = TRUE] ELSE handler[d]
            /\ handler'[d] \in Call
    BY <1>6, <1>t DEF InitReturns, Released, Call
  <2>4. \A d \in Calls :
            /\ handler'[d].at # "keys"
            /\ handler'[d].tried \/ handler'[d] = handler[d]
    BY <2>3, <1>t DEF Call
  <2>5. handler' \in [Calls -> Call]
    BY <2>3, <1>6 DEF InitReturns, Released
  <2>6. UNCHANGED <<keyFiles, block, losses>>
    BY <1>6 DEF InitReturns
  <2>7. PluginTypeOK'
    BY <2>1, <2>2, <2>5, <2>6, PluginTypes
  <2>8. \A d \in Calls : handler'[d].at # "idle" => handler'[d].kind # "none"
    BY <2>3, <1>t DEF Call
  <2>9. inits' = IF promise' = "pending" THEN 1 ELSE 0
    BY <2>1, <2>2
  <2> QED
    BY <2>2, <2>4, <2>6, <2>7, <2>8, <2>9
<1>7. CASE MakeKeys
  BY <1>7 DEF MakeKeys, PluginTypeOK
<1>8. CASE LoseKeys
  <2>1. losses' \in Nat /\ losses' <= MaxLosses /\ losses' > 0
    BY <1>8, PluginAssumption, PluginTypes DEF LoseKeys
  <2>2. keyFiles' \in BOOLEAN /\ UNCHANGED <<handler, promise, inits, block>>
    BY <1>8 DEF LoseKeys
  <2>3. PluginTypeOK'
    BY <2>1, <2>2, PluginTypes
  <2> QED
    BY <2>1, <2>2, <2>3
<1> QED
  BY <1>1, <1>2, <1>3, <1>4, <1>5, <1>6, <1>7, <1>8 DEF PluginNext

LEMMA PluginStutters ==
  ASSUME PluginInv, UNCHANGED pluginVars
  PROVE  PluginInv'
  BY DEF PluginInv, PluginTypeOK, pluginVars

\* ensureKeys: in all behaviours of the plug-in init-keys runs exactly while
\* the shared promise is pending, and only calls that wait for it wait.
THEOREM PluginInvariant == PluginSpec => []PluginInv
<1>1. PluginInv /\ [PluginNext]_pluginVars => PluginInv'
  BY PluginSteps, PluginStutters
<1> QED
  BY <1>1, PluginStarts, PTL DEF PluginSpec

\* For any number of calls that read skills while keys come and go: init-keys
\* runs once for all that wait, and no check runs without keys unless making
\* them was tried, or they were removed.
THEOREM KeysAlwaysTried == PluginSpec => []KeysTried
<1>1. PluginInv => KeysTried
  BY DEF PluginInv, KeysTried
<1> QED
  BY <1>1, PluginInvariant, PTL
=============================================================================
