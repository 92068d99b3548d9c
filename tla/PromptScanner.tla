--------------------------- MODULE PromptScanner ---------------------------
(***************************************************************************)
(* The prompt scanner (prompt_scanner/): threads that scan texts, with the *)
(* rule engine (L1) and the ML classifier (L2), while the model is being   *)
(* downloaded, loaded and released.                                        *)
(*                                                                         *)
(* A thread may share its PromptScanner with others (AsyncPromptScanner)   *)
(* or have one of its own; all scanners of a process share the             *)
(* ModelManager.  The rule engine and the preprocessor touch nothing that  *)
(* is shared, so their steps are one with the start of a scan.             *)
(***************************************************************************)
EXTENDS Naturals, FiniteSets, Sequences

CONSTANTS
    Threads, Scanners,
    Texts,            \* a subset of Text
    NoOne,            \* in place of a thread that holds a lock
    MaxClears         \* bound: calls of clear_cache

VARIABLES
    disk,             \* the files of the model: absent, partial or whole
    cached,           \* _loaded_models: the number of a loaded pair, or 0
    loader,           \* who holds _load_lock
    inferring,        \* who holds the _inference_lock of each scanner
    scan,             \* what each thread does
    loads, clears     \* history: pairs loaded, caches cleared

sharedVars == <<disk, cached, loader, inferring>>
scannerVars == <<sharedVars, scan, loads, clears>>

\* What a text is made of: rules match its normalized form, only a decoded
\* variant, or only characters that normalization strips; and what the model
\* makes of it: benign, or a threat below or above the threshold.
Text == [blank : BOOLEAN, plain : BOOLEAN, encoded : BOOLEAN, invisible : BOOLEAN,
         model : {"benign", "below", "above"}]

ASSUME ScannerAssumption == Texts \subseteq Text /\ NoOne \notin Threads

\* The presets (STRICT is as STANDARD), and ScanConfig().
Config ==
    {[layers |-> <<"rule_engine">>, fastFail |-> TRUE],
     [layers |-> <<"rule_engine", "ml_classifier">>, fastFail |-> FALSE],
     [layers |-> <<"rule_engine", "ml_classifier">>, fastFail |-> TRUE]}

Resting == [at |-> "idle", by |-> NoOne, hit |-> FALSE, expect |-> "pass", model |-> "benign",
         pair |-> 0, answer |-> "none", excuse |-> {}]

ScannerInit ==
    /\ disk = "absent" /\ cached = 0 /\ loader = NoOne
    /\ inferring = [p \in Scanners |-> NoOne]
    /\ scan = [t \in Threads |-> Resting]
    /\ loads = 0 /\ clears = 0
-----------------------------------------------------------------------------
(* The layers and the verdict.                                             *)

\* preprocess strips invisible characters before any rule sees the text.
Preprocess(text) == [text EXCEPT !.invisible = FALSE]

DetectRules(text) == text.plain \/ text.encoded \/ text.invisible

\* determine_verdict, of the layers that ran and those that detected.
Verdict(ran, detected) ==
    CASE "ml_classifier" \in detected             -> "deny"
      [] detected # {} /\ "ml_classifier" \in ran
           /\ "ml_classifier" \notin detected     -> "warn"
      [] detected # {} /\ "ml_classifier" \notin ran -> "deny"
      [] OTHER                                    -> "pass"

HitOf(t) == IF scan[t].hit THEN {"rule_engine"} ELSE {}

\* The verdict that verdict.py:3-14 promises for a text.
Promised(text, config) ==
    LET rules == text.plain \/ text.encoded
        ml == Len(config.layers) = 2 /\ ~(rules /\ config.fastFail)
    IN  CASE ml /\ text.model = "above" -> "deny"
          [] rules /\ ml /\ text.model # "above" -> "warn"
          [] rules /\ ~ml               -> "deny"
          [] OTHER                      -> "pass"
-----------------------------------------------------------------------------
(* scan, up to the classifier.                                             *)

\* Something that a scan under way may fail of happens.
During(what) ==
    [t \in Threads |-> IF scan[t].at \in {"idle", "done"} THEN scan[t]
                       ELSE [scan[t] EXCEPT !.excuse = @ \cup what]]

Ended(t, answer) == [scan[t] EXCEPT !.at = "done", !.answer = answer, !.model = "benign"]

\* A blank text raises; a hit may make the classifier unnecessary.
StartScan(t) ==
    /\ scan[t].at \in {"idle", "done"}
    /\ \E p \in Scanners, text \in Texts, config \in Config :
          LET hit == DetectRules(Preprocess(text))
              rest == Tail(config.layers)
              begun == [Resting EXCEPT !.at = "load", !.by = p, !.hit = hit, !.model = text.model,
                           !.expect = Promised(text, config),
                           !.excuse = IF disk = "whole" THEN {} ELSE {"not downloaded"}]
          IN  scan' = [scan EXCEPT ![t] =
                  CASE text.blank -> [Resting EXCEPT !.at = "done", !.answer = "raised",
                                                  !.excuse = {"blank"}]
                    [] ~text.blank /\ (rest = <<>> \/ (config.fastFail /\ hit)) ->
                          [begun EXCEPT !.at = "done", !.model = "benign",
                              !.answer = Verdict({"rule_engine"},
                                                 IF hit THEN {"rule_engine"} ELSE {})]
                    [] OTHER -> begun]
    /\ UNCHANGED <<sharedVars, loads, clears>>
-----------------------------------------------------------------------------
(* load_model.                                                             *)

Goto(t, at) == scan' = [scan EXCEPT ![t].at = at]

\* The name is looked up twice, in the test and to get the pair.
LookUp(t) ==
    /\ scan[t].at = "load"
    /\ Goto(t, IF cached # 0 THEN "get" ELSE "wait")
    /\ UNCHANGED <<sharedVars, loads, clears>>

GetPair(t) ==
    /\ scan[t].at = "get"
    /\ scan' = [scan EXCEPT ![t] = IF cached = 0 THEN Ended(t, "raised")
                                   ELSE [@ EXCEPT !.at = "classify", !.pair = cached]]
    /\ loader' = IF loader = t THEN NoOne ELSE loader
    /\ UNCHANGED <<disk, cached, inferring, loads, clears>>

Lock(t) ==
    /\ scan[t].at = "wait" /\ loader = NoOne
    /\ loader' = t /\ Goto(t, "locked")
    /\ UNCHANGED <<disk, cached, inferring, loads, clears>>

\* Mutant: no second test under the lock.
RecheckNot(t) ==
    /\ scan[t].at = "locked"
    /\ Goto(t, "loading")
    /\ UNCHANGED <<sharedVars, loads, clears>>

Recheck(t) ==
    /\ scan[t].at = "locked"
    /\ Goto(t, IF cached # 0 THEN "get" ELSE "loading")
    /\ UNCHANGED <<sharedVars, loads, clears>>

\* _do_load.  A model without its config.json is not there; one that is
\* not complete fails to load.
DoLoad(t) ==
    /\ scan[t].at = "loading"
    /\ loader' = NoOne
    /\ IF disk = "whole"
       THEN /\ loads' = loads + 1 /\ cached' = loads'
            /\ scan' = [scan EXCEPT ![t].at = "classify", ![t].pair = loads']
       ELSE scan' = [scan EXCEPT ![t] = Ended(t, "raised")] /\ UNCHANGED <<loads, cached>>
    /\ UNCHANGED <<disk, inferring, clears>>
-----------------------------------------------------------------------------
(* classify.                                                               *)

\* Mutant: inference is not serialised.
EnterAtOnce(t) ==
    /\ scan[t].at = "classify"
    /\ inferring' = [inferring EXCEPT ![scan[t].by] = t] /\ Goto(t, "inside")
    /\ UNCHANGED <<disk, cached, loader, loads, clears>>

\* The lock is the scanner's; the tokenizer of a pair may be shared with
\* another scanner, whose thread may be using it.
Enter(t) ==
    /\ scan[t].at = "classify" /\ inferring[scan[t].by] = NoOne
    /\ inferring' = [inferring EXCEPT ![scan[t].by] = t] /\ Goto(t, "inside")
    /\ UNCHANGED <<disk, cached, loader, loads, clears>>

\* Others that use the same tokenizer, which panics: "Already borrowed".
Together(t) == {u \in Threads \ {t} : scan[u].at = "inside" /\ scan[u].pair = scan[t].pair}

Panic(t) ==
    /\ scan[t].at = "inside" /\ Together(t) # {}
    /\ inferring' = [inferring EXCEPT ![scan[t].by] = NoOne]
    /\ scan' = [scan EXCEPT ![t] =
          [Ended(t, "raised") EXCEPT !.excuse = @ \cup
              IF \E u \in Together(t) : scan[u].by # scan[t].by THEN {"two scanners"} ELSE {}]]
    /\ UNCHANGED <<disk, cached, loader, loads, clears>>

\* detect, and the verdict of both layers.
Infer(t) ==
    /\ scan[t].at = "inside"
    /\ inferring' = [inferring EXCEPT ![scan[t].by] = NoOne]
    /\ scan' = [scan EXCEPT ![t] =
          Ended(t, Verdict({"rule_engine", "ml_classifier"},
                          HitOf(t) \cup IF scan[t].model = "above" THEN {"ml_classifier"} ELSE {}))]
    /\ UNCHANGED <<disk, cached, loader, loads, clears>>
-----------------------------------------------------------------------------
\* warmup: the download may stop halfway, and be resumed.
Download ==
    /\ disk' = CASE disk = "absent" -> "partial" [] OTHER -> "whole"
    /\ disk # "whole"
    /\ UNCHANGED <<cached, loader, inferring, scan, loads, clears>>

\* clear_cache takes no lock.
Clear ==
    /\ clears < MaxClears /\ cached # 0
    /\ clears' = clears + 1 /\ cached' = 0
    /\ scan' = During({"cleared"})
    /\ UNCHANGED <<disk, loader, inferring, loads>>

ScannerNext ==
    \/ \E t \in Threads :
          \/ StartScan(t) \/ LookUp(t) \/ GetPair(t) \/ Lock(t) \/ Recheck(t) \/ DoLoad(t)
          \/ Enter(t) \/ Panic(t) \/ Infer(t)
    \/ Download \/ Clear

ScannerSpec == ScannerInit /\ [][ScannerNext]_scannerVars
-----------------------------------------------------------------------------
(* Properties.                                                             *)

\* The model is loaded once for all threads and scanners, and once more for
\* each time that it was released.
LoadedOnce == loads <= clears + 1

\* A scan ends with the verdict that verdict.py promises for its text and
\* configuration, whatever other threads do; or it raises, and then the text
\* was blank, or the model was not downloaded when it began, was released
\* meanwhile, or its tokenizer was in use by another scanner.
AnsweredOrExcused ==
    \A t \in Threads : scan[t].at = "done" =>
        \/ scan[t].answer = scan[t].expect
        \/ scan[t].answer = "raised" /\ scan[t].excuse # {}
=============================================================================
