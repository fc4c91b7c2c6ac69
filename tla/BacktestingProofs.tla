------------------------- MODULE BacktestingProofs --------------------------
(* Theorems about Backtesting, for every series, model and configuration.   *)
EXTENDS Backtesting, RiskEngineProofs, PostTradeProofs, SequenceTheorems,
        SumLemmas

USE DEF ContractSpec, OpportunityScoringConfig

-----------------------------------------------------------------------------
(* Division with remainder.                                                 *)

(* The k-th evaluation of the w-th window is found again by division.       *)
LEMMA PlaceInWindow ==
    ASSUME NEW test \in Nat \ {0}, NEW window \in Nat,
           NEW offset \in 0..(test - 1)
    PROVE  /\ (window * test + offset) \div test = window
           /\ (window * test + offset) % test = offset
  <1>1. PICK k \in Nat : k = window * test + offset
    OBVIOUS
  <1>2. /\ k \div test \in Nat /\ k % test \in 0..(test - 1)
        /\ k = test * (k \div test) + (k % test)
    BY <1>1
  <1>3. PICK q \in Nat, r \in 0..(test - 1) :
            q = k \div test /\ r = k % test
    BY <1>2
  <1>4. test * q + r = window * test + offset
    BY <1>1, <1>2, <1>3
  <1>5. ~(q < window)
    <2> SUFFICES ASSUME q < window PROVE FALSE
      OBVIOUS
    <2>1. PICK d \in Nat : window = q + 1 + d
      OBVIOUS
    <2>2. window * test = q * test + test + d * test /\ d * test >= 0
      BY <2>1
    <2> QED
      BY <1>4, <2>2
  <1>6. ~(q > window)
    <2> SUFFICES ASSUME q > window PROVE FALSE
      OBVIOUS
    <2>1. PICK d \in Nat : q = window + 1 + d
      OBVIOUS
    <2>2. test * q = window * test + test + d * test /\ d * test >= 0
      BY <2>1
    <2> QED
      BY <1>4, <2>2
  <1>7. q = window
    BY <1>5, <1>6
  <1> QED
    BY <1>1, <1>3, <1>4, <1>7

-----------------------------------------------------------------------------
(* The walk.                                                                *)

(* Where the w-th window's test begins, counted from 0, and how many of the *)
(* current window's candles have been evaluated.                           *)
StartOf(w) == setup.train + w * setup.step

Done ==
    IF stage = "evaluate" THEN index - testStart
    ELSE IF stage = "settle" THEN index + 1 - testStart ELSE 0

PlannedIndex(k) ==
    StartOf((k - 1) \div setup.test) + ((k - 1) % setup.test)

(* Records are sequences, of whatever they hold.                            *)
RecordsInv ==
    /\ \E S : evaluations \in Seq(S)
    /\ \E S : windows \in Seq(S)

(* Before a run begins nothing is recorded.                                 *)
NotWalking ==
    /\ stage \in {"idle", "stressed", "failed"}
    /\ evaluations = <<>> /\ windows = <<>>

(* In a run, the windows closed and the candles evaluated in the open one   *)
(* tell how long the record is, and each place of the record which candle  *)
(* it holds.                                                               *)
Walking ==
    /\ stage \in {"fit", "evaluate", "settle", "failed", "reported"}
    /\ setup \in Setup
    /\ testStart = StartOf(Len(windows))
    /\ Running => /\ index \in testStart..TestEnd
                  /\ model.to = testStart
                  /\ model.from = testStart - setup.train
    /\ stage = "settle" => index < TestEnd
    /\ Len(evaluations) = Len(windows) * setup.test + Done
    /\ \A k \in 1..Len(evaluations) : evaluations[k].index = PlannedIndex(k)
    /\ \A w \in 1..Len(windows) :
          /\ windows[w].trainEnd = StartOf(w - 1)
          /\ windows[w].trainStart = StartOf(w - 1) - setup.train

WalkInv == RecordsInv /\ (NotWalking \/ Walking)

(* Appending to a record, whatever it holds.                                *)
LEMMA AppendToRecord ==
    ASSUME NEW record, \E S : record \in Seq(S), NEW e
    PROVE  /\ \E S : Append(record, e) \in Seq(S)
           /\ Len(record) \in Nat
           /\ Len(Append(record, e)) = Len(record) + 1
           /\ \A k \in 1..Len(record) : Append(record, e)[k] = record[k]
           /\ Append(record, e)[Len(record) + 1] = e
  <1>1. PICK S : record \in Seq(S)
    OBVIOUS
  <1>2. record \in Seq(S \cup {e})
    BY <1>1, SeqDef
  <1> QED
    BY <1>2, AppendProperties, LenProperties

LEMMA StartsAreNatural ==
    ASSUME setup \in Setup, NEW w \in Nat
    PROVE  /\ StartOf(w) \in Nat /\ StartOf(w) >= setup.train
           /\ StartOf(w + 1) = StartOf(w) + setup.step
           /\ setup.train \in Nat \ {0} /\ setup.test \in Nat \ {0}
           /\ setup.step \in Nat \ {0}
  <1>1. PICK train \in Nat \ {0}, step \in Nat \ {0} :
            train = setup.train /\ step = setup.step
    BY DEF Setup
  <1>2. w * step \in Nat /\ (w + 1) * step = w * step + step
    OBVIOUS
  <1> QED
    BY <1>1, <1>2 DEF StartOf, Setup

(* A step that moves nothing of the walk but its stage.                     *)
LEMMA WalkStands ==
    ASSUME Walking, UNCHANGED <<walkVars, evaluations, windows>>,
           ~Running, stage' \in {"fit", "failed", "reported"}
    PROVE  Walking'
  BY DEF Walking, walkVars, StartOf, PlannedIndex, Done, Running

LEMMA FitWindowWalks ==
    ASSUME WalkInv, FitWindow PROVE WalkInv'
  <1> USE DEF WalkInv
  <1>1. Walking /\ stage = "fit" /\ RecordsInv
    BY DEF FitWindow, NotWalking
  <1>2. UNCHANGED <<setup, testStart, evaluations, windows>>
    BY DEF FitWindow
  <1>3. RecordsInv'
    BY <1>1, <1>2 DEF RecordsInv
  <1>4. CASE stage' = "failed"
    BY <1>1, <1>2, <1>3, <1>4
    DEF Walking, StartOf, PlannedIndex, Done, Running
  <1>5. CASE /\ stage' = "evaluate" /\ index' = testStart
             /\ model' \in [from: {TrainStart}, to: {TrainEnd}, says: FittedModels]
    <2>1. Len(windows) \in Nat
      BY <1>1, AppendToRecord DEF RecordsInv
    <2>2. /\ testStart \in Nat /\ testStart >= setup.train
          /\ setup.train \in Nat \ {0} /\ setup.test \in Nat \ {0}
      BY <1>1, <2>1, StartsAreNatural DEF Walking
    <2>3. TrainStart = testStart - setup.train /\ TrainEnd = testStart
      BY <2>2 DEF TrainStart, TrainEnd, AtLeast
    <2>4. model'.to = testStart /\ model'.from = testStart - setup.train
      BY <1>5, <2>3
    <2>5. index' \in testStart'..TestEnd'
      BY <1>2, <1>5, <2>2 DEF TestEnd
    <2>6. Done' = Done
      BY <1>1, <1>2, <1>5, <2>2 DEF Done
    <2> QED
      BY <1>1, <1>2, <1>3, <1>5, <2>4, <2>5, <2>6
      DEF Walking, StartOf, PlannedIndex, Running
  <1> QED
    BY <1>4, <1>5 DEF FitWindow

LEMMA EvaluateWalks ==
    ASSUME WalkInv, Evaluate PROVE WalkInv'
  <1> USE DEF WalkInv
  <1>1. /\ Walking /\ stage = "evaluate" /\ RecordsInv /\ index < TestEnd
        /\ UNCHANGED <<setup, testStart, model, windows>>
    BY DEF Evaluate, NotWalking
  <1>2. PICK e :
            /\ e.index = index /\ evaluations' = Append(evaluations, e)
            /\ \/ stage' = "settle" /\ index' = index
               \/ stage' = "evaluate" /\ index' = index + 1
    BY <1>1 DEF Evaluate
  <1>3. /\ RecordsInv' /\ Len(evaluations) \in Nat /\ Len(windows) \in Nat
        /\ Len(evaluations') = Len(evaluations) + 1
        /\ \A k \in 1..Len(evaluations) : evaluations'[k] = evaluations[k]
        /\ evaluations'[Len(evaluations) + 1] = e
    <2>1. (\E S : evaluations \in Seq(S)) /\ (\E S : windows \in Seq(S))
      BY <1>1 DEF RecordsInv
    <2>2. /\ \E S : Append(evaluations, e) \in Seq(S)
          /\ Len(evaluations) \in Nat
          /\ Len(Append(evaluations, e)) = Len(evaluations) + 1
          /\ \A k \in 1..Len(evaluations) : Append(evaluations, e)[k] = evaluations[k]
          /\ Append(evaluations, e)[Len(evaluations) + 1] = e
      BY <2>1, AppendToRecord
    <2>3. Len(windows) \in Nat
      BY <2>1, LenProperties
    <2>4. evaluations' = Append(evaluations, e) /\ windows' = windows
      BY <1>1, <1>2
    <2> HIDE DEF WalkInv
    <2> QED
      BY <2>1, <2>2, <2>3, <2>4 DEF RecordsInv
  <1>4. /\ testStart \in Nat /\ setup.test \in Nat \ {0}
        /\ index \in Nat /\ index >= testStart
        /\ index - testStart < setup.test
    <2>1. testStart \in Nat /\ setup.test \in Nat \ {0}
      BY <1>1, <1>3, StartsAreNatural DEF Walking
    <2>2. index \in testStart..TestEnd
      BY <1>1 DEF Walking, Running
    <2> QED
      BY <1>1, <2>1, <2>2 DEF TestEnd
  <1>5. PICK window \in Nat, test \in Nat \ {0}, offset \in Nat :
            /\ window = Len(windows) /\ test = setup.test
            /\ offset = index - testStart /\ offset \in 0..(test - 1)
    BY <1>3, <1>4
  <1>6. Len(evaluations) = window * test + offset
    BY <1>1, <1>5 DEF Walking, Done
  <1>7. PlannedIndex(Len(evaluations) + 1) = index
    <2>1. /\ (window * test + offset) \div test = window
          /\ (window * test + offset) % test = offset
      BY <1>5, PlaceInWindow
    <2>2. (Len(evaluations) + 1) - 1 = window * test + offset
      BY <1>3, <1>6
    <2>3. testStart = StartOf(window)
      BY <1>1, <1>5 DEF Walking
    <2>4. PlannedIndex(Len(evaluations) + 1) = StartOf(window) + offset
      BY <1>5, <2>1, <2>2 DEF PlannedIndex
    <2> QED
      BY <1>4, <1>5, <2>3, <2>4
  <1>8. \A k \in 1..Len(evaluations') : evaluations'[k].index = PlannedIndex(k)
    BY <1>1, <1>2, <1>3, <1>7 DEF Walking
  <1>9. Done' = Done + 1 /\ Done \in Int
    <2>1. Done = index - testStart
      BY <1>1 DEF Done
    <2>2. Done' = index + 1 - testStart
      BY <1>1, <1>2, <1>4 DEF Done
    <2> QED
      BY <1>4, <2>1, <2>2
  <1>10. /\ index' \in testStart'..TestEnd'
         /\ stage' = "settle" => index' < TestEnd'
    <2>1. PICK end \in Int : end = TestEnd /\ TestEnd' = end /\ index < end
      BY <1>1, <1>4 DEF TestEnd
    <2>2. testStart' = testStart /\ index' \in {index, index + 1}
      BY <1>1, <1>2
    <2>3. stage' = "settle" => index' = index
      BY <1>2
    <2> QED
      BY <1>4, <2>1, <2>2, <2>3
  <1>11. Len(evaluations') = Len(windows) * setup.test + Done'
    BY <1>3, <1>5, <1>6, <1>9, <1>1 DEF Done
  <1>12. \A k : PlannedIndex(k)' = PlannedIndex(k)
    BY <1>1 DEF PlannedIndex, StartOf
  <1>13. Walking'
    BY <1>1, <1>2, <1>3, <1>8, <1>10, <1>11, <1>12
    DEF Walking, StartOf, Running, PlannedIndex
  <1> QED
    BY <1>3, <1>13

LEMMA SettleWalks ==
    ASSUME WalkInv, Settle PROVE WalkInv'
  <1> USE DEF WalkInv
  <1>1. /\ Walking /\ stage = "settle" /\ stage' = "evaluate" /\ RecordsInv
        /\ index' = index + 1
        /\ UNCHANGED <<setup, testStart, model, windows, evaluations>>
    BY DEF Settle, NotWalking
  <1>2. Len(windows) \in Nat
    BY <1>1, AppendToRecord DEF RecordsInv
  <1>3. testStart \in Nat /\ setup.test \in Nat \ {0}
    BY <1>1, <1>2, StartsAreNatural DEF Walking
  <1>4. index' \in testStart'..TestEnd' /\ Done' = Done
    <2>1. index \in testStart..TestEnd /\ index < TestEnd
      BY <1>1 DEF Walking, Running
    <2>2. index \in Int
      BY <1>3, <2>1 DEF TestEnd
    <2>3. Done = index + 1 - testStart /\ Done' = index + 1 - testStart
      BY <1>1, <1>3, <2>2 DEF Done
    <2> QED
      BY <1>1, <1>3, <2>1, <2>3 DEF TestEnd
  <1> QED
    BY <1>1, <1>4
    DEF Walking, RecordsInv, StartOf, PlannedIndex, Running

LEMMA CloseWindowWalks ==
    ASSUME WalkInv, CloseWindow PROVE WalkInv'
  <1> USE DEF WalkInv
  <1>1. /\ Walking /\ stage = "evaluate" /\ stage' = "fit" /\ RecordsInv
        /\ index = TestEnd /\ testStart' = testStart + setup.step
        /\ UNCHANGED <<setup, evaluations>>
    BY DEF CloseWindow, NotWalking
  <1>2. PICK w : /\ w.trainStart = model.from /\ w.trainEnd = model.to
                 /\ windows' = Append(windows, w)
    BY DEF CloseWindow
  <1>3. /\ RecordsInv' /\ Len(windows) \in Nat /\ Len(evaluations) \in Nat
        /\ Len(windows') = Len(windows) + 1
        /\ \A k \in 1..Len(windows) : windows'[k] = windows[k]
        /\ windows'[Len(windows) + 1] = w
    BY <1>1, <1>2, AppendToRecord DEF RecordsInv
  <1>4. /\ testStart \in Nat /\ setup.test \in Nat \ {0}
        /\ StartOf(Len(windows) + 1) = StartOf(Len(windows)) + setup.step
        /\ testStart = StartOf(Len(windows))
    BY <1>1, <1>3, StartsAreNatural DEF Walking
  <1>5. Len(evaluations) = Len(windows') * setup.test + Done'
    <2>1. Len(evaluations) = Len(windows) * setup.test + setup.test /\ Done' = 0
      BY <1>1, <1>4 DEF Walking, Done, TestEnd
    <2>2. PICK n \in Nat, test \in Nat : n = Len(windows) /\ test = setup.test
      BY <1>3, <1>4
    <2>3. (n + 1) * test = n * test + test
      OBVIOUS
    <2> QED
      BY <1>3, <2>1, <2>2, <2>3
  <1>6. \A k \in 1..Len(windows') :
            /\ windows'[k].trainEnd = StartOf(k - 1)
            /\ windows'[k].trainStart = StartOf(k - 1) - setup.train
    <2>1. /\ w.trainEnd = StartOf(Len(windows))
          /\ w.trainStart = StartOf(Len(windows)) - setup.train
      BY <1>1, <1>2, <1>4 DEF Walking, Running
    <2>2. (Len(windows) + 1) - 1 = Len(windows)
      BY <1>3
    <2> QED
      BY <1>1, <1>3, <2>1, <2>2 DEF Walking
  <1> QED
    BY <1>1, <1>3, <1>4, <1>5, <1>6
    DEF Walking, StartOf, PlannedIndex, Running

LEMMA WalkInvInit == Init => WalkInv
  <1> SUFFICES ASSUME Init PROVE WalkInv
    OBVIOUS
  <1>1. evaluations = <<>> /\ windows = <<>> /\ stage = "idle"
    BY DEF Init
  <1>2. <<>> \in Seq({})
    BY EmptySeq
  <1> QED
    BY <1>1, <1>2 DEF WalkInv, RecordsInv, NotWalking

LEMMA WalkInvStep == WalkInv /\ [Next]_vars => WalkInv'
  <1> SUFFICES ASSUME WalkInv, [Next]_vars PROVE WalkInv'
    OBVIOUS
  <1>1. ASSUME StartRun PROVE WalkInv'
    <2>0. stage = "idle" /\ UNCHANGED <<evaluations, windows>>
      BY <1>1 DEF StartRun, recordVars
    <2>7. CASE stage' = "failed"
      BY <2>0, <2>7 DEF WalkInv, RecordsInv, NotWalking, Walking
    <2> SUFFICES ASSUME stage' # "failed" PROVE WalkInv'
      BY <2>7
    <2>1. /\ stage = "idle" /\ stage' = "fit" /\ setup' \in Setup
          /\ testStart' = setup'.train /\ UNCHANGED <<evaluations, windows>>
      BY <1>1, <2>0, BacktestAssumption DEF StartRun
    <2>2. NotWalking /\ RecordsInv
      BY <2>1 DEF WalkInv, Walking
    <2>3. evaluations = <<>> /\ windows = <<>>
      BY <2>2 DEF NotWalking
    <2>4. PICK train \in Nat, step \in Nat, test \in Nat :
              /\ train = setup'.train /\ step = setup'.step
              /\ test = setup'.test
      BY <2>1 DEF Setup
    <2>5. testStart' = StartOf(Len(windows))'
      BY <2>1, <2>3, <2>4 DEF StartOf
    <2>6. Len(evaluations') = Len(windows') * setup'.test + Done'
      BY <2>1, <2>3, <2>4 DEF Done
    <2> QED
      BY <2>1, <2>2, <2>3, <2>5, <2>6
      DEF WalkInv, RecordsInv, Walking, Running
  <1>2. ASSUME FitWindow PROVE WalkInv'
    BY <1>2, FitWindowWalks
  <1>3. ASSUME Evaluate PROVE WalkInv'
    BY <1>3, EvaluateWalks
  <1>4. ASSUME Settle PROVE WalkInv'
    BY <1>4, SettleWalks
  <1>5. ASSUME CloseWindow PROVE WalkInv'
    BY <1>5, CloseWindowWalks
  <1>6. ASSUME Report PROVE WalkInv'
    <2>1. /\ stage = "fit" /\ stage' = "reported"
          /\ UNCHANGED <<walkVars, evaluations, windows>>
      BY <1>6 DEF Report, recordVars
    <2>2. Walking /\ RecordsInv
      BY <2>1 DEF WalkInv, NotWalking
    <2> QED
      BY <2>1, <2>2, WalkStands DEF WalkInv, RecordsInv, Running
  <1>7. ASSUME StressRun PROVE WalkInv'
    <2>1. /\ stage = "idle" /\ stage' \in {"failed", "stressed"}
          /\ UNCHANGED <<evaluations, windows>>
      BY <1>7 DEF StressRun, recordVars
    <2> QED
      BY <2>1 DEF WalkInv, RecordsInv, NotWalking, Walking
  <1>8. ASSUME UNCHANGED vars PROVE WalkInv'
    <2>1. UNCHANGED <<stage, walkVars, recordVars>>
      BY <1>8 DEF vars
    <2> QED
      BY <2>1
      DEF WalkInv, RecordsInv, NotWalking, Walking, walkVars, recordVars,
          StartOf, PlannedIndex, Done, Running, TestEnd
  <1> QED
    BY <1>1, <1>2, <1>3, <1>4, <1>5, <1>6, <1>7, <1>8 DEF Next, Returned

(* Whatever the sizes of its windows and its step, the backtest evaluates   *)
(* each window's candles in order, by a model fitted to the full training  *)
(* window that ends where the test begins.                                 *)
THEOREM AlwaysOutOfSample == Spec => []OutOfSample
  <1>1. WalkInv => OutOfSample
    <2> SUFFICES ASSUME WalkInv PROVE OutOfSample
      OBVIOUS
    <2>1. CASE NotWalking
      BY <2>1 DEF NotWalking, OutOfSample, Running
    <2>2. CASE Walking
      <3>1. /\ DOMAIN evaluations = 1..Len(evaluations)
            /\ Len(evaluations) \in Nat /\ Len(windows) \in Nat
        BY LenProperties DEF WalkInv, RecordsInv
      <3>2. ASSUME NEW k \in DOMAIN evaluations,
                   (k - 1) \div setup.test < Len(windows)
            PROVE  LET window == (k - 1) \div setup.test
                       start == setup.train + window * setup.step
                   IN  /\ windows[window + 1].trainEnd <= start
                       /\ windows[window + 1].trainEnd
                              - windows[window + 1].trainStart = setup.train
        <4>1. setup.test \in Nat \ {0} /\ setup.train \in Nat
          BY <2>2, StartsAreNatural, <3>1 DEF Walking
        <4>2. PICK window \in Nat : window = (k - 1) \div setup.test
          BY <3>1, <4>1
        <4>3. window + 1 \in 1..Len(windows) /\ (window + 1) - 1 = window
          BY <3>1, <3>2, <4>2
        <4>4. StartOf(window) \in Nat
          BY <2>2, StartsAreNatural DEF Walking
        <4>5. /\ windows[window + 1].trainEnd = StartOf(window)
              /\ windows[window + 1].trainStart = StartOf(window) - setup.train
          BY <2>2, <4>3 DEF Walking
        <4> QED
          BY <4>1, <4>2, <4>4, <4>5 DEF StartOf
      <3>3. \A k \in DOMAIN evaluations :
                evaluations[k].index = PlannedIndex(k)
        BY <2>2, <3>1 DEF Walking
      <3>4. Running => model.to <= testStart /\ model.to - model.from = setup.train
        <4>1. testStart \in Nat /\ setup.train \in Nat
          BY <2>2, <3>1, StartsAreNatural DEF Walking
        <4> QED
          BY <2>2, <4>1 DEF Walking
      <3> QED
        BY <3>2, <3>3, <3>4 DEF OutOfSample, PlannedIndex, StartOf
    <2> QED
      BY <2>1, <2>2 DEF WalkInv
  <1> QED
    BY <1>1, WalkInvInit, WalkInvStep, PTL DEF Spec

-----------------------------------------------------------------------------
(* The regime of a state.                                                   *)

(* The first rule that matches decides, and the last one always does.       *)
LEMMA PriorityDecides ==
    ASSUME NEW state
    PROVE  \E i \in DOMAIN Priority :
              Priority[i] = Decide(state) /\ Decide(state) \in Matching(state)
  <1> DEFINE matches == {i \in DOMAIN Priority : Priority[i] \in Matching(state)}
             First(i) == /\ Priority[i] \in Matching(state)
                         /\ \A j \in 1..(i - 1) : Priority[j] \notin Matching(state)
  <1>1. DOMAIN Priority = 1..10 /\ Priority[10] = "range"
    BY DEF Priority
  <1>2. "range" \in Matching(state)
    BY DEF Matching, RegimeLabel
  <1>3. PICK i \in matches : \A j \in matches : i <= j
    <2>1. matches \subseteq Nat /\ 10 \in matches
      BY <1>1, <1>2
    <2> HIDE DEF matches
    <2> QED
      BY <2>1, LeastNumber
  <1>4. First(i)
    <2>1. \A j \in 1..(i - 1) : j \in 1..10 /\ ~(i <= j)
      BY <1>1
    <2> QED
      BY <1>1, <1>3, <2>1
  <1>5. Decide(state) = Priority[CHOOSE k \in DOMAIN Priority : First(k)]
    BY DEF Decide
  <1>6. \E k \in DOMAIN Priority : First(k)
    BY <1>1, <1>3, <1>4
  <1>7. PICK k \in DOMAIN Priority : First(k) /\ Decide(state) = Priority[k]
    <2> HIDE DEF First
    <2> QED
      BY <1>5, <1>6
  <1> QED
    BY <1>7

LEMMA DivRange ==
    ASSUME NEW a \in Int, NEW d \in Nat \ {0}
    PROVE  /\ a \div d \in Int
           /\ a >= 0 => a \div d >= 0
  OBVIOUS

LEMMA HalfRange ==
    ASSUME NEW n \in Nat
    PROVE  n \div 2 \in Nat /\ 2 * (n \div 2) <= n /\ 2 * (n \div 2) >= n - 1
  OBVIOUS

(* Past its threshold a dimension makes for at least half a confidence.     *)
LEMMA MarginConfidenceRange ==
    ASSUME NEW value \in Int, NEW threshold \in Int
    PROVE  /\ MarginConfidence(value, threshold) \in 0..Scale
           /\ 2 * MarginConfidence(value, threshold) >= Scale - 1
  <1>1. Scale \in Nat \ {0}
    BY ScaleAssumption
  <1>2. CASE threshold = 0
    BY <1>1, <1>2 DEF MarginConfidence
  <1>3. CASE threshold # 0
    <2> DEFINE limit == Magnitude(threshold)
               margin == ((Magnitude(value) - limit) * Scale) \div limit
    <2>1. limit \in Nat \ {0} /\ Magnitude(value) \in Int
      BY <1>3 DEF Magnitude, AtLeast
    <2>2. margin \in Int
      <3>1. PICK a \in Int : a = (Magnitude(value) - limit) * Scale
        BY <1>1, <2>1
      <3> HIDE DEF limit
      <3> QED
        BY <2>1, <3>1, DivRange
    <2> HIDE DEF margin
    <2>3. PICK clipped \in 0..Scale : clipped = Clip01(margin)
      BY <1>1, <2>2 DEF Clip01, AtLeast, AtMost
    <2>4. MarginConfidence(value, threshold) = (Scale + clipped) \div 2
      BY <1>3, <2>3 DEF MarginConfidence, margin
    <2>5. Scale + clipped \in Nat /\ Scale + clipped <= 2 * Scale
      BY <1>1
    <2> QED
      BY <1>1, <2>4, <2>5, HalfRange
  <1> QED
    BY <1>2, <1>3

LEMMA ConfidenceRange ==
    ASSUME NEW state \in MarketState, NEW label \in Matching(state)
    PROVE  2 * Confidence(label, state) \in (Scale - 1)..(2 * Scale)
  <1>1. /\ Scale \in Nat \ {0}
        /\ state.trend \in Int /\ state.volatility \in Int
        /\ state.persistence \in Int /\ state.compressionExpansion \in Int
    BY ScaleAssumption DEF MarketState, Dimension
  <1>2. /\ BreakoutTrend \in Int /\ StrongTrend \in Int /\ WeakTrend \in Int
        /\ MeanReversion \in Int /\ Compression \in Int /\ Expansion \in Int
        /\ HighVolatility \in Int /\ LowVolatility \in Int
        /\ RandomWalkBand \in Int
    BY <1>1, RegimeAssumption DEF RuleBasedRegimeConfig, Dimension
  <1>3. ASSUME NEW value \in Int, NEW threshold \in Int,
               Confidence(label, state) = MarginConfidence(value, threshold)
        PROVE  2 * Confidence(label, state) \in (Scale - 1)..(2 * Scale)
    <2>1. PICK margin \in 0..Scale :
              margin = MarginConfidence(value, threshold) /\ 2 * margin >= Scale - 1
      BY MarginConfidenceRange
    <2> QED
      BY <1>1, <1>3, <2>1
  <1>4. CASE label = "strong_trend"
    <2>1. PICK margin \in 0..Scale :
              /\ margin = MarginConfidence(state.trend, StrongTrend)
              /\ 2 * margin >= Scale - 1
      BY <1>1, <1>2, MarginConfidenceRange
    <2>2. Scale \div 10 \in Nat
      BY <1>1
    <2>3. Confidence(label, state) \in {AtMost(Scale, margin + Scale \div 10), margin}
      BY <1>4, <2>1 DEF Confidence
    <2> QED
      BY <1>1, <2>1, <2>2, <2>3 DEF AtMost
  <1>5. CASE label = "random_walk"
    <2>1. Magnitude(state.persistence) < RandomWalkBand
      BY <1>5 DEF Matching
    <2>2. PICK far \in Nat, band \in Nat \ {0} :
              far = Magnitude(state.persistence) /\ band = RandomWalkBand
      BY <1>1, <1>2, <2>1 DEF Magnitude, AtLeast
    <2>3. PICK gone \in Nat : gone = (far * Scale) \div band
      <3>1. far * Scale \in Nat
        BY <1>1
      <3> QED
        BY <3>1, DivRange
    <2>4. Confidence(label, state) = AtLeast(Scale \div 2, Scale - gone)
      BY <1>5, <2>2, <2>3 DEF Confidence
    <2>5. /\ Scale \div 2 \in Nat /\ Scale \div 2 <= Scale
          /\ 2 * (Scale \div 2) >= Scale - 1
      BY <1>1
    <2> QED
      BY <1>1, <2>3, <2>4, <2>5 DEF AtLeast
  <1>6. CASE label \in {"breakout", "weak_trend", "mean_reversion", "compression",
                        "expansion", "high_volatility", "low_volatility"}
    BY <1>1, <1>2, <1>3, <1>6 DEF Confidence
  <1>7. CASE label \notin {"breakout", "strong_trend", "weak_trend",
                "mean_reversion", "compression", "expansion", "high_volatility",
                "low_volatility", "random_walk"}
    <2>1. Confidence(label, state) = Scale \div 2
      BY <1>7 DEF Confidence
    <2> QED
      BY <1>1, <2>1, HalfRange
  <1> QED
    BY <1>4, <1>5, <1>6, <1>7

LEMMA ClassifiedRange ==
    ASSUME NEW state \in MarketState, state.isValid
    PROVE  2 * Classify(state).confidence \in (Scale - 1)..(2 * Scale)
  BY PriorityDecides, ConfidenceRange DEF Classify

(* The detector's labels are the scorer's keys.                             *)
LEMMA ClassifiedKey ==
    ASSUME NEW state
    PROVE  /\ Classify(state).regime \in Keys
           /\ BucketKey(Classify(state).regime) \in BucketKeys
  <1>1. Classify(state).regime \in {Priority[i] : i \in DOMAIN Priority}
    <2>1. Priority[10] = "range" /\ 10 \in DOMAIN Priority
      BY DEF Priority
    <2>2. CASE ~state.isValid
      BY <2>1, <2>2 DEF Classify
    <2>3. CASE state.isValid
      <3>1. PICK i \in DOMAIN Priority : Priority[i] = Decide(state)
        BY PriorityDecides
      <3> QED
        BY <2>3, <3>1 DEF Classify
    <2> QED
      BY <2>2, <2>3
  <1> QED
    BY <1>1, BacktestAssumption DEF BucketKey, BucketKeys

-----------------------------------------------------------------------------
(* The pure levels hand on what the next one takes.                         *)

LEMMA EstimateType ==
    ASSUME NEW probability \in ProbabilityEstimate
    PROVE  /\ ForRisk(ExpectedValueOf(probability)) \in EVEstimate
           /\ ExpectedValueOf(probability).b \in Int
           /\ ExpectedValueOf(probability).p \in 0..Scale
  <1> DEFINE p == FavoredProbability(probability)
             ev == ExpectedValueOf(probability)
  <1>1. p \in 0..Scale
    BY ScaleAssumption DEF FavoredProbability, ProbabilityEstimate, AtLeast
  <1>2. RewardToRisk \in Int
    <2>1. PICK stake \in Nat \ {0}, profit \in Int :
              stake = Stake /\ profit = (Payout - Stake) * Scale
      BY ContractAssumption, ScaleAssumption
    <2>2. profit \div stake \in Int
      OBVIOUS
    <2> QED
      BY <2>1, <2>2 DEF RewardToRisk
  <1>3. RuinCapital(p) \in Nat
    BY <1>1, RuinAssumption
  <1>4. IsPositiveEV(p) \in BOOLEAN
    BY DEF IsPositiveEV
  <1>5. ExpectedDirection(probability) \in {-1, 0, 1}
    BY DEF ExpectedDirection
  <1>6. /\ ev.isValid \in BOOLEAN /\ ev.isPositive \in BOOLEAN
        /\ ev.direction \in {-1, 0, 1} /\ ev.p \in 0..Scale
        /\ ev.b \in Int /\ ev.ruinCapital \in Nat
    <2>1. CASE ExpectedDirection(probability) = 0
      BY <2>1, ScaleAssumption DEF ExpectedValueOf, InvalidEstimate
    <2>2. CASE ExpectedDirection(probability) # 0
      BY <2>2, <1>1, <1>2, <1>3, <1>4, <1>5 DEF ExpectedValueOf
    <2> QED
      BY <2>1, <2>2
  <1> HIDE DEF ev
  <1>7. ForRisk(ev) \in EVEstimate
    <2>1. ForRisk(ev) =
            [isValid |-> ev.isValid, isPositive |-> ev.isPositive,
             direction |-> ev.direction, p |-> ev.p, b |-> ev.b,
             ruinCapital |-> ev.ruinCapital]
      BY DEF ForRisk
    <2> QED
      BY <1>6, <2>1 DEF EVEstimate
  <1> QED
    BY <1>6, <1>7 DEF ev

-----------------------------------------------------------------------------
(* The adaptive threshold.                                                  *)

BucketOK(bucket) ==
    /\ bucket.threshold \in Int
    /\ AdjustmentStep >= 0 => bucket.threshold \in ThresholdMin..ThresholdMax
    /\ bucket.history \in Seq(BOOLEAN)
    /\ Len(bucket.history) <= RollingWindow
    /\ bucket.since \in Nat

LEMMA AdjustedWithinBounds ==
    ASSUME NEW threshold \in Int, NEW history,
           AdjustmentStep >= 0 => threshold \in ThresholdMin..ThresholdMax
    PROVE  /\ Adjusted(threshold, history) \in Int
           /\ AdjustmentStep >= 0 =>
                  Adjusted(threshold, history) \in ThresholdMin..ThresholdMax
  <1>1. /\ ThresholdMin \in Nat /\ ThresholdMax \in Nat
        /\ ThresholdMin <= ThresholdMax /\ AdjustmentStep \in Int
    BY ScoringAssumption, ScaleAssumption
  <1>2. /\ Eased(threshold) \in Int /\ Tightened(threshold) \in Int
        /\ AdjustmentStep >= 0 =>
              /\ Eased(threshold) \in ThresholdMin..ThresholdMax
              /\ Tightened(threshold) \in ThresholdMin..ThresholdMax
    BY <1>1 DEF Eased, Tightened, AtLeast, AtMost
  <1> QED
    BY <1>2 DEF Adjusted

LEMMA RememberedIsShort ==
    ASSUME NEW history \in Seq(BOOLEAN), Len(history) <= RollingWindow,
           NEW approved \in BOOLEAN
    PROVE  /\ Remembered(history, approved) \in Seq(BOOLEAN)
           /\ Len(Remembered(history, approved)) <= RollingWindow
  <1> DEFINE longer == Append(history, approved)
  <1>1. /\ longer \in Seq(BOOLEAN) /\ Len(longer) = Len(history) + 1
        /\ longer # <<>> /\ Len(history) \in Nat
    BY AppendProperties, LenProperties
  <1>2. Tail(longer) \in Seq(BOOLEAN) /\ Len(Tail(longer)) = Len(longer) - 1
    BY <1>1, HeadTailProperties
  <1>3. RollingWindow \in Nat
    BY ScoringAssumption
  <1>4. Remembered(history, approved) =
            IF Len(longer) > RollingWindow THEN Tail(longer) ELSE longer
    BY DEF Remembered
  <1>5. PICK n \in Nat : n = Len(history)
    BY <1>1
  <1>6. CASE Len(longer) > RollingWindow
    <2>1. Remembered(history, approved) = Tail(longer)
      BY <1>4, <1>6
    <2>2. Len(Tail(longer)) = n
      BY <1>1, <1>2, <1>5
    <2> HIDE DEF longer
    <2> QED
      BY <1>2, <1>3, <1>5, <2>1, <2>2
  <1>7. CASE ~(Len(longer) > RollingWindow)
    <2>1. Remembered(history, approved) = longer
      BY <1>4, <1>7
    <2>2. Len(longer) = n + 1
      BY <1>1, <1>5
    <2> HIDE DEF longer
    <2> QED
      BY <1>1, <1>3, <1>7, <2>1, <2>2
  <1> QED
    BY <1>6, <1>7

LEMMA RecordedOK ==
    ASSUME NEW bucket, BucketOK(bucket), NEW approved \in BOOLEAN
    PROVE  BucketOK(Recorded(bucket, approved))
  BY RememberedIsShort, AdjustedWithinBounds DEF BucketOK, Recorded

LEMMA RecordEvaluationKeeps ==
    ASSUME ScorerTypeOK, NEW regime, NEW approved \in BOOLEAN,
           RecordEvaluation(regime, approved)
    PROVE  ScorerTypeOK'
  <1>1. \A key \in BucketKeys : BucketOK(buckets[key])
    BY DEF ScorerTypeOK, ThresholdsBounded, BucketOK
  <1>2. DOMAIN buckets' = BucketKeys
    BY DEF ScorerTypeOK, RecordEvaluation
  <1>3. \A key \in BucketKeys :
            \/ buckets'[key] = buckets[key]
            \/ buckets'[key] = Recorded(buckets[key], approved)
    BY DEF ScorerTypeOK, RecordEvaluation
  <1>4. \A key \in BucketKeys : BucketOK(buckets'[key])
    BY <1>1, <1>3, RecordedOK
  <1> QED
    BY <1>2, <1>4 DEF ScorerTypeOK, ThresholdsBounded, BucketOK

-----------------------------------------------------------------------------
(* The account and the scorer under the backtest.                           *)

(* What the walk hands to the engine and the scorer is what they expect: a  *)
(* model answers for every valid state, a candle keeps what it held when   *)
(* first met, and the opportunity being settled has a payout ratio.        *)
LevelsInv ==
    /\ RiskInv /\ ScorerTypeOK
    /\ Running => model.says \in Models \cup {Blind}
    /\ \A i \in DOMAIN candles : candles[i] \in Candles
    /\ opportunity.ev.b \in Int

BacktestInv == WalkInv /\ LevelsInv

LEMMA RunningIndex ==
    ASSUME WalkInv, Running PROVE index \in Nat
  <1>1. Walking
    BY DEF WalkInv, NotWalking, Running
  <1>2. Len(windows) \in Nat
    BY AppendToRecord DEF WalkInv, RecordsInv
  <1>3. testStart \in Nat /\ setup.test \in Nat
    BY <1>1, <1>2, StartsAreNatural DEF Walking
  <1> QED
    BY <1>1, <1>3 DEF Walking, TestEnd

(* What one evaluation does, whatever the candle and the model say.         *)
Evaluates(ev, regime, quality, approved) ==
    /\ ForRisk(ev) \in EVEstimate /\ ev.b \in Int /\ ev.p \in 0..Scale
    /\ BucketKey(regime) \in BucketKeys /\ approved \in BOOLEAN
    /\ approved => ev.isValid /\ Approves(ForRisk(ev))
    /\ Assess(ForRisk(ev), index)
    /\ RecordEvaluation(regime, approved)
    /\ evaluations' = Append(evaluations,
           [index |-> index, regime |-> regime, approved |-> approved])
    /\ \/ /\ approved
          /\ stage' = "settle"
          /\ opportunity' = [ev |-> ev, regime |-> regime, quality |-> quality]
          /\ UNCHANGED index
       \/ /\ ~approved
          /\ index' = index + 1
          /\ UNCHANGED <<stage, opportunity>>

LEMMA EvaluateEffect ==
    ASSUME BacktestInv, Evaluate
    PROVE  /\ index \in Nat /\ stage = "evaluate" /\ index < TestEnd
           /\ \E candle \in Candles :
                 candles' = [i \in DOMAIN candles \cup {index} |->
                                IF i = index THEN candle ELSE candles[i]]
           /\ \E ev, regime, quality, approved :
                 Evaluates(ev, regime, quality, approved)
           /\ UNCHANGED <<setup, testStart, model, windowTrades, allTrades,
                          windows, stressed>>
  <1> USE DEF BacktestInv, LevelsInv
  <1>1. /\ index \in Nat /\ model.says \in Models \cup {Blind}
        /\ stage = "evaluate" /\ index < TestEnd
        /\ UNCHANGED <<setup, testStart, model, windowTrades, allTrades,
                       windows, stressed>>
    BY RunningIndex DEF Evaluate, Running
  <1>2. PICK candle \in Held(index) :
        LET probability == Predict(candle.state)
            classified == Classify(candle.state)
            ev == ExpectedValueOf(probability)
            quality == Quality(ev, classified, probability)
            approved ==
                Clears(ev, Approves(ForRisk(ev)), classified.regime, quality)
        IN  /\ candles' = [i \in DOMAIN candles \cup {index} |->
                             IF i = index THEN candle ELSE candles[i]]
            /\ Assess(ForRisk(ev), index)
            /\ RecordEvaluation(classified.regime, approved)
            /\ evaluations' = Append(evaluations,
                   [index |-> index, regime |-> classified.regime,
                    approved |-> approved])
            /\ \/ /\ approved
                  /\ stage' = "settle"
                  /\ opportunity' = [ev |-> ev, regime |-> classified.regime,
                                     quality |-> quality]
                  /\ UNCHANGED index
               \/ /\ ~approved
                  /\ index' = index + 1
                  /\ UNCHANGED <<stage, opportunity>>
    BY DEF Evaluate
  <1> DEFINE probability == Predict(candle.state)
             classified == Classify(candle.state)
             ev == ExpectedValueOf(probability)
             quality == Quality(ev, classified, probability)
             approved ==
                Clears(ev, Approves(ForRisk(ev)), classified.regime, quality)
  <1>3. candle \in Candles
    BY <1>2 DEF Held
  <1>4. probability \in ProbabilityEstimate
    <2>1. CASE candle.state.isValid
      <3>1. candle.state \in ValidStates
        BY <1>3, <2>1 DEF ValidStates
      <3>2. InvalidProbability \in ProbabilityEstimate
        BY ScaleAssumption DEF InvalidProbability, ProbabilityEstimate
      <3>3. model.says \in [ValidStates -> ProbabilityEstimate]
        BY <1>1, <3>2, BacktestAssumption DEF Blind
      <3> QED
        BY <2>1, <3>1, <3>3 DEF Predict
    <2>2. CASE ~candle.state.isValid
      BY <2>2, ScaleAssumption
      DEF Predict, InvalidProbability, ProbabilityEstimate
    <2> QED
      BY <2>1, <2>2
  <1>5. ForRisk(ev) \in EVEstimate /\ ev.b \in Int /\ ev.p \in 0..Scale
    BY <1>4, EstimateType
  <1>6. /\ approved \in BOOLEAN
        /\ approved => ev.isValid /\ Approves(ForRisk(ev))
    BY DEF Clears
  <1>7. BucketKey(classified.regime) \in BucketKeys
    BY ClassifiedKey
  <1>8. Evaluates(ev, classified.regime, quality, approved)
    <2> HIDE DEF ev, classified, quality, approved
    <2> QED
      BY <1>2, <1>5, <1>6, <1>7 DEF Evaluates, ev, classified, quality, approved,
         probability
  <1> QED
    BY <1>1, <1>2, <1>3, <1>8

LEMMA EvaluateKeepsLevels ==
    ASSUME BacktestInv, Evaluate PROVE LevelsInv'
  <1> USE DEF BacktestInv, LevelsInv
  <1>1. /\ index \in Nat /\ UNCHANGED model /\ model.says \in Models \cup {Blind}
        /\ \A i \in DOMAIN candles' : candles'[i] \in Candles
    BY EvaluateEffect DEF Running
  <1>2. PICK ev, regime, quality, approved :
            Evaluates(ev, regime, quality, approved)
    BY EvaluateEffect
  <1>3. RiskInv'
    BY <1>1, <1>2, RiskInvStep DEF RiskCall, Evaluates
  <1>4. ScorerTypeOK'
    BY <1>2, RecordEvaluationKeeps DEF Evaluates
  <1>5. opportunity'.ev.b \in Int
    BY <1>2 DEF Evaluates
  <1> QED
    BY <1>1, <1>3, <1>4, <1>5

LEMMA SettleKeepsLevels ==
    ASSUME BacktestInv, Settle PROVE LevelsInv'
  <1> USE DEF BacktestInv, LevelsInv
  <1>1. /\ index \in Nat /\ model.says \in Models \cup {Blind}
        /\ UNCHANGED <<model, candles, buckets>>
        /\ opportunity' = NoOpportunity
    BY RunningIndex DEF Settle, Running
  <1>2. SettledPnl \in Int
    <2>1. PICK stake \in Int, payout \in Int :
              /\ stake = assessment.stake /\ payout = stake * opportunity.ev.b
      BY DEF RiskInv, RiskTypeOK, Assessment
    <2>2. payout \div Scale \in Int /\ -stake \in Int
      BY OverScale
    <2> QED
      BY <2>1, <2>2 DEF SettledPnl
  <1>3. RecordTradeResult(index, SettledPnl)
    BY DEF Settle, EpochOf
  <1>4. RiskInv'
    BY <1>1, <1>2, <1>3, RiskInvStep DEF RiskCall
  <1>5. opportunity'.ev.b \in Int
    BY <1>1 DEF NoOpportunity, InvalidEstimate
  <1>6. ScorerTypeOK'
    BY <1>1 DEF ScorerTypeOK, ThresholdsBounded
  <1> QED
    BY <1>1, <1>4, <1>5, <1>6

(* A step that leaves the engine, the scorer and the opportunity alone.     *)
LEMMA LevelsStand ==
    ASSUME LevelsInv, UNCHANGED <<riskVars, buckets, candles, opportunity>>,
           Running' => model'.says \in Models \cup {Blind}
    PROVE  LevelsInv'
  <1>1. RiskInv'
    BY RiskInvStep DEF LevelsInv
  <1> QED
    BY <1>1 DEF LevelsInv, ScorerTypeOK, ThresholdsBounded

LEMMA LevelsInvInit == Init => LevelsInv
  <1> SUFFICES ASSUME Init PROVE LevelsInv
    OBVIOUS
  <1>1. RiskInv
    BY RiskInvInit DEF Init
  <1>2. BucketOK(FreshBucket)
    <2>1. <<>> \in Seq(BOOLEAN) /\ Len(<<>>) = 0
      BY EmptySeq
    <2> QED
      BY <2>1, ScoringAssumption, ScaleAssumption DEF BucketOK, FreshBucket
  <1>3. ScorerTypeOK
    BY <1>2 DEF Init, ScorerInit, ScorerTypeOK, ThresholdsBounded, BucketOK
  <1>4. DOMAIN candles = {}
    BY DEF Init
  <1> QED
    BY <1>1, <1>3, <1>4
    DEF Init, LevelsInv, Running, NoOpportunity, InvalidEstimate

LEMMA LevelsInvStep == BacktestInv /\ [Next]_vars => LevelsInv'
  <1> SUFFICES ASSUME BacktestInv, [Next]_vars PROVE LevelsInv'
    OBVIOUS
  <1> USE DEF BacktestInv
  <1>1. ASSUME StartRun PROVE LevelsInv'
    BY <1>1, LevelsStand DEF StartRun, Running
  <1>2. ASSUME FitWindow PROVE LevelsInv'
    <2>1. Running' => model'.says \in Models \cup {Blind}
      BY <1>2 DEF FitWindow, FittedModels, Running
    <2> QED
      BY <1>2, <2>1, LevelsStand DEF FitWindow
  <1>3. ASSUME Evaluate PROVE LevelsInv'
    BY <1>3, EvaluateKeepsLevels
  <1>4. ASSUME Settle PROVE LevelsInv'
    BY <1>4, SettleKeepsLevels
  <1>5. ASSUME CloseWindow PROVE LevelsInv'
    BY <1>5, LevelsStand DEF CloseWindow, Running
  <1>6. ASSUME Report PROVE LevelsInv'
    BY <1>6, LevelsStand DEF Report, Running, walkVars
  <1>7. ASSUME StressRun PROVE LevelsInv'
    BY <1>7, LevelsStand DEF StressRun, Running, walkVars
  <1>8. ASSUME UNCHANGED vars PROVE LevelsInv'
    <2>1. /\ UNCHANGED <<riskVars, buckets, stage, candles, model>>
          /\ UNCHANGED opportunity
      BY <1>8 DEF vars, walkVars
    <2> QED
      BY <2>1, LevelsStand DEF LevelsInv, Running
  <1> QED
    BY <1>1, <1>2, <1>3, <1>4, <1>5, <1>6, <1>7, <1>8 DEF Next, Returned

LEMMA BacktestInvariant == Spec => []BacktestInv
  <1>1. Init => BacktestInv
    BY WalkInvInit, LevelsInvInit DEF BacktestInv
  <1>2. BacktestInv /\ [Next]_vars => BacktestInv'
    BY WalkInvStep, LevelsInvStep DEF BacktestInv
  <1> QED
    BY <1>1, <1>2, PTL DEF Spec

(* If threshold_adjustment_step is not negative, which the configuration    *)
(* leaves unchecked, then however long the scorer is halted or flooded, no *)
(* regime's threshold leaves the band between its floor and its ceiling.   *)
THEOREM ThresholdsWithinBounds ==
    ASSUME AdjustmentStep >= 0
    PROVE  Spec => []ThresholdsBounded
  <1>1. BacktestInv => ThresholdsBounded
    BY DEF BacktestInv, LevelsInv, ScorerTypeOK
  <1> QED
    BY <1>1, BacktestInvariant, PTL

(* The account that lives through all windows keeps the engine's promises:  *)
(* a losing streak pauses it for a counted time, also across the windows'  *)
(* seams, and its drawdown is measured from a true high-water mark.        *)
THEOREM BacktestAccountSound == Spec => [](StreakPauseTimed /\ PeakIsHighWater)
  <1>1. BacktestInv => StreakPauseTimed /\ PeakIsHighWater
    BY DEF BacktestInv, LevelsInv, RiskInv
  <1> QED
    BY <1>1, BacktestInvariant, PTL

-----------------------------------------------------------------------------
(* The kinds of all variables.                                              *)

(* What TypeOK needs of the walk: nothing is met or recorded before a run   *)
(* starts, an approved opportunity is a valid estimate, and no assessment  *)
(* recommends less than nothing.                                           *)
KindsInv ==
    /\ stage \in {"idle", "fit", "evaluate", "settle", "failed", "reported",
                   "stressed"}
    /\ setup \in Setups \cup {NoSetup}
    /\ stage = "idle" => setup = NoSetup /\ DOMAIN candles = {}
    /\ DOMAIN candles \subseteq 0..(setup.n - 1)
    /\ testStart \in Nat /\ index \in Nat
    /\ Running => TestEnd <= setup.n
    /\ stage = "settle" <=> opportunity # NoOpportunity
    /\ opportunity.ev.p \in 0..Scale
    /\ assessment.stake >= 0
    /\ allTrades \in Seq(AnalyzedTrade)

LEMMA RecommendedIsStake ==
    ASSUME NEW ev \in EVEstimate, equity \in Int
    PROVE  RecommendedStake(ev) \in Nat
  <1>1. CandidateStake(ev) \in Int /\ MinStake \in Nat
    BY CandidateStakeCapped, ConfigAssumption
  <1> QED
    BY <1>1 DEF RecommendedStake

LEMMA SettledPnlType ==
    ASSUME LevelsInv
    PROVE  SettledPnl \in Int /\ assessment.stake \in Int
  <1>1. PICK stake \in Int, payout \in Int :
            /\ stake = assessment.stake /\ payout = stake * opportunity.ev.b
    BY DEF LevelsInv, RiskInv, RiskTypeOK, Assessment
  <1>2. payout \div Scale \in Int /\ -stake \in Int
    BY OverScale
  <1> QED
    BY <1>1, <1>2 DEF SettledPnl

LEMMA EvaluateKeepsKinds ==
    ASSUME BacktestInv, KindsInv, Evaluate PROVE KindsInv'
  <1> USE DEF KindsInv
  <1>1. /\ index \in Nat /\ stage = "evaluate" /\ index < TestEnd
        /\ UNCHANGED <<setup, testStart, allTrades>>
        /\ DOMAIN candles' = DOMAIN candles \cup {index}
    BY EvaluateEffect
  <1>2. PICK ev, regime, quality, approved :
            Evaluates(ev, regime, quality, approved)
    BY EvaluateEffect
  <1>3. setup.n \in Nat /\ TestEnd \in Int /\ setup \in Setups
    <2>1. Walking
      BY <1>1 DEF BacktestInv, WalkInv, NotWalking
    <2>2. setup.n \in Nat /\ setup.test \in Nat
      BY <2>1 DEF Walking, Setup
    <2>3. NoSetup \notin Setup
      BY DEF NoSetup, Setup
    <2> QED
      BY <2>1, <2>2, <2>3 DEF TestEnd, Walking
  <1>4. DOMAIN candles' \subseteq 0..(setup'.n - 1)
    <2>1. index <= setup.n - 1
      BY <1>1, <1>3 DEF Running
    <2> QED
      BY <1>1, <1>3, <2>1
  <1>5. assessment'.stake >= 0
    <2>1. RecommendedStake(ForRisk(ev)) \in Nat
      BY <1>2, RecommendedIsStake
      DEF Evaluates, BacktestInv, LevelsInv, RiskInv, RiskTypeOK
    <2> QED
      BY <1>2, <2>1 DEF Evaluates, Assess
  <1>6. CASE /\ approved /\ stage' = "settle" /\ UNCHANGED index
             /\ opportunity' = [ev |-> ev, regime |-> regime,
                                quality |-> quality]
    <2>1. opportunity' # NoOpportunity
      BY <1>2, <1>6 DEF Evaluates, NoOpportunity, InvalidEstimate
    <2>2. opportunity'.ev.p \in 0..Scale
      BY <1>2, <1>6 DEF Evaluates
    <2> QED
      BY <1>1, <1>4, <1>5, <1>6, <2>1, <2>2 DEF Running, TestEnd
  <1>7. CASE index' = index + 1 /\ UNCHANGED <<stage, opportunity>>
    BY <1>1, <1>4, <1>5, <1>7 DEF Running, TestEnd
  <1> QED
    BY <1>2, <1>6, <1>7 DEF Evaluates

LEMMA SettleKeepsKinds ==
    ASSUME BacktestInv, KindsInv, Settle PROVE KindsInv'
  <1> USE DEF KindsInv
  <1>1. /\ stage = "settle" /\ stage' = "evaluate" /\ index' = index + 1
        /\ opportunity' = NoOpportunity
        /\ UNCHANGED <<setup, candles, testStart, assessment>>
    BY DEF Settle, RecordTradeResult
  <1>2. allTrades' = Append(allTrades,
            [epoch |-> index, stake |-> assessment.stake, pnl |-> SettledPnl,
             p |-> opportunity.ev.p])
    BY DEF Settle
  <1>3. [epoch |-> index, stake |-> assessment.stake, pnl |-> SettledPnl,
         p |-> opportunity.ev.p] \in AnalyzedTrade
    BY SettledPnlType DEF BacktestInv, AnalyzedTrade
  <1>4. allTrades' \in Seq(AnalyzedTrade)
    BY <1>2, <1>3, AppendProperties
  <1>5. opportunity'.ev.p \in 0..Scale
    BY <1>1, ScaleAssumption DEF NoOpportunity, InvalidEstimate
  <1> QED
    BY <1>1, <1>4, <1>5 DEF Running, TestEnd

LEMMA KindsInvInit == Init => KindsInv
  <1>1. <<>> \in Seq(AnalyzedTrade)
    BY EmptySeq
  <1>2. 0 \in 0..Scale
    BY ScaleAssumption
  <1> QED
    BY <1>1, <1>2
    DEF Init, RiskInit, KindsInv, Running, NoSetup, NoOpportunity,
        InvalidEstimate, NoAssessment

LEMMA KindsInvStep == BacktestInv /\ KindsInv /\ [Next]_vars => KindsInv'
  <1> SUFFICES ASSUME BacktestInv, KindsInv, [Next]_vars PROVE KindsInv'
    OBVIOUS
  <1> USE DEF KindsInv
  <1>1. CASE StartRun
    <2>1. CASE stage' = "failed"
      <3>1. UNCHANGED <<setup, testStart>>
        BY <1>1, <2>1 DEF StartRun
      <3> QED
        BY <1>1, <2>1, <3>1 DEF StartRun, Running, riskVars, recordVars
    <2>2. CASE stage' # "failed"
      <3>1. stage' = "fit" /\ setup' \in Setups /\ testStart' = setup'.train
        BY <1>1, <2>2 DEF StartRun
      <3>2. testStart' \in Nat
        BY <3>1, BacktestAssumption DEF Setup
      <3>3. DOMAIN candles' = {}
        BY <1>1 DEF StartRun
      <3> QED
        BY <1>1, <3>1, <3>2, <3>3 DEF StartRun, Running, riskVars, recordVars
    <2> QED
      BY <2>1, <2>2
  <1>2. CASE FitWindow
    BY <1>2 DEF FitWindow, Running, TestEnd, riskVars
  <1>3. CASE CloseWindow
    <2>1. setup.step \in Nat
      BY <1>3
      DEF BacktestInv, WalkInv, NotWalking, Walking, Setup, CloseWindow
    <2> QED
      BY <1>3, <2>1 DEF CloseWindow, Running, riskVars
  <1>4. CASE Report
    BY <1>4 DEF Report, Running, riskVars, walkVars, recordVars
  <1>5. CASE StressRun
    BY <1>5 DEF StressRun, Running, riskVars, walkVars, recordVars
  <1>6. CASE UNCHANGED vars
    BY <1>6 DEF vars, Running, TestEnd, riskVars, walkVars, recordVars
  <1> QED
    BY <1>1, <1>2, <1>3, <1>4, <1>5, <1>6, EvaluateKeepsKinds, SettleKeepsKinds
    DEF Next, Returned

(* Whatever the candles, the fitted models and the configuration, every     *)
(* variable of the backtest holds a value of its kind; a classification    *)
(* that counts is at least half confident, as near as Scale can tell.      *)
THEOREM BacktestTypeCorrect == Spec => []TypeOK
  <1>1. BacktestInv /\ KindsInv => TypeOK
    <2> SUFFICES ASSUME BacktestInv, KindsInv PROVE TypeOK
      OBVIOUS
    <2>1. \A i \in DOMAIN candles : candles[i].state.isValid =>
              2 * Classify(candles[i].state).confidence
                  \in (Scale - 1)..(2 * Scale)
      <3>1. \A i \in DOMAIN candles : candles[i].state \in MarketState
        BY BacktestAssumption DEF BacktestInv, LevelsInv
      <3> QED
        BY <3>1, ClassifiedRange
    <2>2. Running => /\ index \in testStart..TestEnd
                     /\ model.says \in Models \cup {Blind}
      BY DEF BacktestInv, LevelsInv, WalkInv, NotWalking, Walking, Running
    <2>3. \A k \in DOMAIN allTrades : allTrades[k] \in AnalyzedTrade
      <3>1. allTrades \in Seq(AnalyzedTrade)
        BY DEF KindsInv
      <3> QED
        BY <3>1, ElementOfSeq, LenProperties
    <2> QED
      BY <2>1, <2>2, <2>3
      DEF TypeOK, KindsInv, BacktestInv, LevelsInv, RiskInv
  <1> QED
    BY <1>1, BacktestInvariant, KindsInvInit, KindsInvStep, PTL DEF Spec

-----------------------------------------------------------------------------
(* The account and the day's budget.                                        *)

(* The trades of days before that of the last one.                          *)
EarlierTrades ==
    {k \in DOMAIN allTrades :
        DayOf(allTrades[k].epoch) < DayOf(allTrades[Len(allTrades)].epoch)}

(* Candles from here on may yet be traded.                                  *)
Frontier == IF Running THEN index ELSE testStart

(* The account is the record's balance; the engine's day is that of the     *)
(* last trade; and as long as windows do not overlap, trades are recorded  *)
(* in the order of their epochs, none of them at a candle still to come.   *)
BudgetInv ==
    /\ equity = StartingEquity + SumOver(PnlsOf(allTrades), DOMAIN allTrades)
    /\ stage = "idle" => Len(allTrades) = 0
    /\ Len(allTrades) = 0 =>
           currentDay = NoDay /\ dayStartEquity = StartingEquity
    /\ Len(allTrades) > 0 =>
           LET last == allTrades[Len(allTrades)].epoch
           IN  /\ currentDay = DayOf(last)
               /\ setup.step >= setup.test =>
                      /\ stage \in {"fit", "evaluate", "settle"} =>
                             last < Frontier
                      /\ \A k \in DOMAIN allTrades :
                             allTrades[k].epoch <= last
                      /\ dayStartEquity = StartingEquity
                             + SumOver(PnlsOf(allTrades), EarlierTrades)

LEMMA DivMonotone ==
    ASSUME NEW a \in Nat, NEW b \in Nat, a <= b, NEW d \in Nat \ {0}
    PROVE  a \div d \in Nat /\ a \div d <= b \div d
  <1>1. PICK qa \in Nat, ra \in 0..(d - 1) :
            qa = a \div d /\ a = d * qa + ra
    OBVIOUS
  <1>2. PICK qb \in Nat, rb \in 0..(d - 1) :
            qb = b \div d /\ b = d * qb + rb
    OBVIOUS
  <1>3. ~(qb < qa)
    <2> SUFFICES ASSUME qb < qa PROVE FALSE
      OBVIOUS
    <2>1. PICK k \in Nat : qa = qb + 1 + k
      OBVIOUS
    <2>2. d * qa = d * qb + d + d * k /\ d * k >= 0
      BY <2>1
    <2> QED
      BY <1>1, <1>2, <2>2
  <1> QED
    BY <1>1, <1>2, <1>3

LEMMA DaysAdvance ==
    ASSUME NEW a \in Nat, NEW b \in Nat, a <= b
    PROVE  DayOf(a) \in Nat /\ DayOf(a) <= DayOf(b)
  BY DivMonotone, ConfigAssumption DEF DayOf

(* One more trade adds its pnl to the sum of all, and nothing to that of    *)
(* earlier ones.                                                           *)
LEMMA OneMoreTrade ==
    ASSUME NEW trades \in Seq(AnalyzedTrade), NEW trade \in AnalyzedTrade,
           NEW longer \in {Append(trades, trade)},
           NEW some \in SUBSET DOMAIN trades
    PROVE  /\ SumOver(PnlsOf(longer), DOMAIN longer)
                  = trade.pnl + SumOver(PnlsOf(trades), DOMAIN trades)
           /\ SumOver(PnlsOf(longer), some) = SumOver(PnlsOf(trades), some)
           /\ SumOver(PnlsOf(trades), some) \in Int
  <1> DEFINE n == Len(trades)
  <1>1. /\ longer \in Seq(AnalyzedTrade) /\ Len(longer) = n + 1
        /\ \A k \in 1..n : longer[k] = trades[k]
        /\ longer[n + 1] = trade
    BY AppendProperties
  <1>2. /\ n \in Nat /\ DOMAIN trades = 1..n /\ DOMAIN longer = 1..(n + 1)
        /\ IsFiniteSet(1..n) /\ IsFiniteSet(1..(n + 1))
        /\ Numbers(PnlsOf(trades), 1..n)
        /\ Numbers(PnlsOf(longer), 1..(n + 1))
    BY <1>1, TradeNumbers
  <1>3. /\ PnlsOf(longer)[n + 1] = trade.pnl
        /\ \A k \in 1..n : PnlsOf(trades)[k] = PnlsOf(longer)[k]
    BY <1>1, <1>2 DEF PnlsOf
  <1>4. (1..(n + 1)) \ {n + 1} = 1..n /\ n + 1 \in 1..(n + 1)
    BY <1>2
  <1>5. IsFiniteSet(some) /\ Numbers(PnlsOf(trades), some)
    BY <1>2, FS_Subset DEF Numbers
  <1> HIDE DEF n
  <1>6. SumOver(PnlsOf(longer), 1..(n + 1))
            = trade.pnl + SumOver(PnlsOf(longer), 1..n)
    BY <1>2, <1>3, <1>4, SumOverSplit
  <1>7. SumOver(PnlsOf(longer), 1..n) = SumOver(PnlsOf(trades), 1..n)
    BY <1>2, <1>3, SumOverSame
  <1>8. SumOver(PnlsOf(trades), some) = SumOver(PnlsOf(longer), some)
    BY <1>2, <1>3, <1>5, SumOverSame
  <1> QED
    BY <1>2, <1>5, <1>6, <1>7, <1>8, SumOverType

LEMMA SettleKeepsBudget ==
    ASSUME BacktestInv, KindsInv, BudgetInv, Settle PROVE BudgetInv'
  <1> DEFINE n == Len(allTrades)
             trade == [epoch |-> index, stake |-> assessment.stake,
                       pnl |-> SettledPnl, p |-> opportunity.ev.p]
  <1>1. /\ index \in Nat /\ stage = "settle" /\ stage' = "evaluate"
        /\ index' = index + 1 /\ UNCHANGED <<setup, testStart>>
        /\ RecordTradeResult(index, SettledPnl)
        /\ allTrades' = Append(allTrades, trade)
    BY DEF Settle, EpochOf, KindsInv
  <1>2. trade \in AnalyzedTrade /\ allTrades \in Seq(AnalyzedTrade)
    BY SettledPnlType DEF BacktestInv, AnalyzedTrade, KindsInv
  <1>3. trade.pnl = SettledPnl /\ trade.epoch = index
    OBVIOUS
  <1> HIDE DEF trade
  <1>4. /\ n \in Nat /\ DOMAIN allTrades = 1..n
        /\ allTrades' \in Seq(AnalyzedTrade) /\ Len(allTrades') = n + 1
        /\ DOMAIN allTrades' = 1..(n + 1)
        /\ \A k \in 1..n : allTrades'[k] = allTrades[k]
        /\ allTrades'[n + 1] = trade
        /\ \A k \in 1..n : allTrades[k].epoch \in Nat
    <2>1. allTrades' \in Seq(AnalyzedTrade) /\ Len(allTrades') = n + 1
      BY <1>1, <1>2, AppendProperties
    <2> QED
      BY <1>1, <1>2, <2>1, AppendProperties, TradeNumbers
  <1>5. /\ equity \in Int /\ StartingEquity \in Int /\ dayStartEquity \in Int
        /\ SettledPnl \in Int
    BY SettledPnlType, ConfigAssumption
    DEF BacktestInv, LevelsInv, RiskInv, RiskTypeOK
  <1>6. /\ equity' = equity + SettledPnl /\ currentDay' = DayOf(index)
        /\ dayStartEquity' = IF DayOf(index) = currentDay THEN dayStartEquity
                             ELSE equity
    BY <1>1 DEF RecordTradeResult
  <1>7. \A some \in SUBSET DOMAIN allTrades :
            /\ SumOver(PnlsOf(allTrades'), DOMAIN allTrades')
                   = SettledPnl + SumOver(PnlsOf(allTrades), DOMAIN allTrades)
            /\ SumOver(PnlsOf(allTrades'), some)
                   = SumOver(PnlsOf(allTrades), some)
            /\ SumOver(PnlsOf(allTrades), some) \in Int
    <2> DEFINE longer == allTrades'
    <2>1. /\ longer \in {Append(allTrades, trade)}
          /\ trade \in AnalyzedTrade /\ allTrades \in Seq(AnalyzedTrade)
      BY <1>1, <1>2
    <2> HIDE DEF longer, n
    <2>2. ASSUME NEW some \in SUBSET DOMAIN allTrades
          PROVE  /\ SumOver(PnlsOf(longer), DOMAIN longer)
                        = trade.pnl
                          + SumOver(PnlsOf(allTrades), DOMAIN allTrades)
                 /\ SumOver(PnlsOf(longer), some)
                        = SumOver(PnlsOf(allTrades), some)
                 /\ SumOver(PnlsOf(allTrades), some) \in Int
      BY <2>1, OneMoreTrade
    <2> QED
      BY <1>3, <2>2 DEF longer
  <1>8. equity' = StartingEquity
                      + SumOver(PnlsOf(allTrades'), DOMAIN allTrades')
    BY <1>5, <1>6, <1>7 DEF BudgetInv
  <1>9. EarlierTrades' =
            {k \in 1..(n + 1) : DayOf(allTrades'[k].epoch) < DayOf(index)}
    BY <1>3, <1>4 DEF EarlierTrades
  <1>10. DayOf(index) \in Nat
    BY <1>1, DaysAdvance
  <1> HIDE DEF n
  <1>11. EarlierTrades' =
            {k \in 1..n : DayOf(allTrades[k].epoch) < DayOf(index)}
    BY <1>3, <1>4, <1>9, <1>10
  <1>12. ASSUME setup.step >= setup.test
         PROVE  /\ \A k \in 1..(n + 1) : allTrades'[k].epoch <= index
                /\ dayStartEquity' = StartingEquity
                       + SumOver(PnlsOf(allTrades'), EarlierTrades')
    <2>1. CASE n = 0
      <3>1. EarlierTrades' = {} /\ DOMAIN allTrades = {}
        BY <1>4, <1>11, <2>1
      <3>2. currentDay = NoDay /\ dayStartEquity = StartingEquity
        BY <2>1 DEF BudgetInv, n
      <3>3. SumOver(PnlsOf(allTrades'), {}) = 0
            /\ SumOver(PnlsOf(allTrades), {}) = 0
        BY SumOverEmpty
      <3>4. equity = StartingEquity + 0
        BY <3>1, <3>3 DEF BudgetInv
      <3>5. dayStartEquity' = equity
        BY <1>6, <1>10, <3>2 DEF NoDay
      <3> QED
        BY <1>1, <1>3, <1>4, <1>5, <2>1, <3>1, <3>3, <3>4, <3>5
    <2>2. CASE n > 0
      <3> DEFINE last == allTrades[n].epoch
      <3>1. /\ last \in Nat /\ last < index /\ currentDay = DayOf(last)
            /\ \A k \in 1..n : allTrades[k].epoch <= last
            /\ dayStartEquity = StartingEquity
                   + SumOver(PnlsOf(allTrades), EarlierTrades)
        BY <1>1, <1>4, <1>12, <2>2 DEF BudgetInv, Frontier, Running, n
      <3> HIDE DEF last
      <3>2. DayOf(last) <= DayOf(index) /\ DayOf(last) \in Nat
        BY <1>1, <3>1, DaysAdvance
      <3>3. \A k \in 1..n : /\ DayOf(allTrades[k].epoch) \in Nat
                            /\ DayOf(allTrades[k].epoch) <= DayOf(last)
        BY <1>4, <3>1, DaysAdvance
      <3>4. CASE DayOf(index) = currentDay
        <4>1. EarlierTrades' = EarlierTrades
              /\ EarlierTrades \subseteq DOMAIN allTrades
          BY <1>4, <1>11, <3>1, <3>4 DEF EarlierTrades, last, n
        <4> QED
          BY <1>1, <1>3, <1>4, <1>6, <1>7, <3>1, <3>4, <4>1
      <3>5. CASE DayOf(index) # currentDay
        <4>1. EarlierTrades' = DOMAIN allTrades
          BY <1>4, <1>10, <1>11, <3>1, <3>2, <3>3, <3>5
        <4> QED
          BY <1>1, <1>3, <1>4, <1>6, <1>7, <3>1, <3>5, <4>1 DEF BudgetInv
      <3> QED
        BY <3>4, <3>5
    <2> QED
      BY <1>4, <2>1, <2>2
  <1> QED
    BY <1>1, <1>3, <1>4, <1>6, <1>8, <1>12 DEF BudgetInv, Frontier, Running

(* A step that records no trade and starts no run.                          *)
LEMMA BudgetStands ==
    ASSUME KindsInv, BudgetInv,
           UNCHANGED <<equity, currentDay, dayStartEquity, allTrades>>,
           stage' # "idle" \/ UNCHANGED stage,
           Len(allTrades) > 0 /\ setup'.step >= setup'.test =>
               /\ setup.step >= setup.test
               /\ stage' \in {"fit", "evaluate", "settle"} =>
                      /\ stage \in {"fit", "evaluate", "settle"}
                      /\ Frontier \in Int /\ Frontier' \in Int
                      /\ Frontier <= Frontier'
    PROVE  BudgetInv'
  <1> DEFINE last == allTrades[Len(allTrades)].epoch
  <1>1. Len(allTrades) > 0 => last \in Int
    <2>1. allTrades \in Seq(AnalyzedTrade)
      BY DEF KindsInv
    <2> QED
      BY <2>1, TradeNumbers
  <1>2. EarlierTrades' = EarlierTrades
    BY DEF EarlierTrades
  <1>3. /\ equity' = StartingEquity
                         + SumOver(PnlsOf(allTrades'), DOMAIN allTrades')
        /\ stage' = "idle" => Len(allTrades') = 0
        /\ Len(allTrades') = 0 =>
               currentDay' = NoDay /\ dayStartEquity' = StartingEquity
    BY DEF BudgetInv
  <1>4. ASSUME Len(allTrades) > 0
        PROVE  /\ currentDay' = DayOf(last)
               /\ setup'.step >= setup'.test =>
                      /\ stage' \in {"fit", "evaluate", "settle"} =>
                             last < Frontier'
                      /\ \A k \in DOMAIN allTrades : allTrades[k].epoch <= last
                      /\ dayStartEquity' = StartingEquity
                             + SumOver(PnlsOf(allTrades), EarlierTrades)
    BY <1>1, <1>4 DEF BudgetInv
  <1> HIDE DEF last
  <1> QED
    BY <1>2, <1>3, <1>4 DEF BudgetInv, last

LEMMA BudgetInvInit == Init => BudgetInv
  <1> SUFFICES ASSUME Init PROVE BudgetInv
    OBVIOUS
  <1>1. DOMAIN allTrades = {} /\ Len(allTrades) = 0
    BY DEF Init
  <1>2. SumOver(PnlsOf(allTrades), DOMAIN allTrades) = 0 /\ StartingEquity \in Int
    BY <1>1, SumOverEmpty, ConfigAssumption
  <1> QED
    BY <1>1, <1>2 DEF Init, RiskInit, BudgetInv

LEMMA BudgetInvStep ==
    BacktestInv /\ KindsInv /\ BudgetInv /\ [Next]_vars => BudgetInv'
  <1> SUFFICES ASSUME BacktestInv, KindsInv, BudgetInv, [Next]_vars
               PROVE  BudgetInv'
    OBVIOUS
  <1>1. testStart \in Nat /\ index \in Nat
    BY DEF KindsInv
  <1>2. CASE StartRun
    BY <1>2, BudgetStands DEF StartRun, BudgetInv, riskVars, recordVars
  <1>3. CASE FitWindow
    <2>1. Frontier = testStart /\ Frontier' = testStart
      BY <1>3 DEF FitWindow, Frontier, Running
    <2> QED
      BY <1>1, <1>3, <2>1, BudgetStands DEF FitWindow, riskVars
  <1>4. CASE Evaluate
    <2>1. PICK ev, regime, quality, approved :
              Evaluates(ev, regime, quality, approved)
      BY <1>4, EvaluateEffect
    <2>2. /\ stage = "evaluate" /\ UNCHANGED <<setup, testStart, allTrades>>
      BY <1>4, EvaluateEffect
    <2>3. /\ Frontier = index /\ Frontier' = index'
          /\ stage' \in {"evaluate", "settle"} /\ index' \in {index, index + 1}
      BY <2>1, <2>2 DEF Evaluates, Frontier, Running
    <2> QED
      BY <1>1, <2>1, <2>2, <2>3, BudgetStands DEF Evaluates, Assess
  <1>5. CASE Settle
    BY <1>5, SettleKeepsBudget
  <1>6. CASE CloseWindow
    <2>1. setup \in Setup
      BY <1>6 DEF BacktestInv, WalkInv, NotWalking, Walking, CloseWindow
    <2>2. /\ stage = "evaluate" /\ stage' = "fit"
          /\ Frontier = testStart + setup.test
          /\ Frontier' = testStart + setup.step
      BY <1>6 DEF CloseWindow, Frontier, Running, TestEnd
    <2>3. setup.test \in Nat /\ setup.step \in Nat
      BY <2>1 DEF Setup
    <2> QED
      BY <1>1, <1>6, <2>2, <2>3, BudgetStands DEF CloseWindow, riskVars
  <1>7. CASE Report
    BY <1>7, BudgetStands DEF Report, riskVars, walkVars, recordVars
  <1>8. CASE StressRun
    BY <1>8, BudgetStands DEF StressRun, BudgetInv, riskVars, walkVars, recordVars
  <1>9. CASE UNCHANGED vars
    <2>1. UNCHANGED <<riskVars, stage, walkVars, recordVars>>
      BY <1>9 DEF vars
    <2>2. Frontier' = Frontier /\ Frontier \in Int
      BY <1>1, <2>1 DEF Frontier, Running, walkVars
    <2> QED
      BY <2>1, <2>2, BudgetStands DEF riskVars, walkVars, recordVars
  <1> QED
    BY <1>2, <1>3, <1>4, <1>5, <1>6, <1>7, <1>8, <1>9 DEF Next, Returned

(* However many windows a day is cut into, it has one budget, measured from *)
(* the account as the trades of earlier days left it, as long as windows   *)
(* do not overlap.                                                         *)
THEOREM OneBudgetPerDay == Spec => []DayBudgetPerDay
  <1>1. KindsInv /\ BudgetInv => DayBudgetPerDay
    <2> SUFFICES ASSUME KindsInv, BudgetInv, setup.step >= setup.test
                 PROVE  dayStartEquity = StartingEquity
                            + SumOver(PnlsOf(allTrades), EarlierTrades)
      BY DEF DayBudgetPerDay, SumOver, PnlsOf, EarlierTrades
    <2>1. DOMAIN allTrades = 1..Len(allTrades) /\ Len(allTrades) \in Nat
      BY TradeNumbers DEF KindsInv
    <2>2. CASE Len(allTrades) = 0
      <3>1. EarlierTrades = {}
        BY <2>1, <2>2 DEF EarlierTrades
      <3>2. SumOver(PnlsOf(allTrades), EarlierTrades) = 0
            /\ StartingEquity \in Int
        BY <3>1, SumOverEmpty, ConfigAssumption
      <3> QED
        BY <2>2, <3>2 DEF BudgetInv
    <2>3. CASE Len(allTrades) > 0
      BY <2>3 DEF BudgetInv
    <2> QED
      BY <2>1, <2>2, <2>3
  <1> QED
    BY <1>1, BacktestInvariant, KindsInvInit, KindsInvStep, BudgetInvInit,
       BudgetInvStep, PTL DEF Spec

-----------------------------------------------------------------------------
(* What is reported.                                                        *)

(* The trades the closed windows count.                                     *)
CountsOf(results) == [w \in DOMAIN results |-> results[w].metrics.n]
Counted == SumOver(CountsOf(windows), DOMAIN windows)

(* Every trade has a stake and ends like an option.                         *)
TradesInv ==
    /\ stage = "settle" => assessment.stake > 0 /\ opportunity.ev.b > 0
    /\ \A k \in DOMAIN allTrades : EndsLikeOption(allTrades[k])

(* The peak is a balance the record went through.                           *)
PeakInv ==
    \E i \in 0..Len(allTrades) :
        peakEquity = StartingEquity + BalanceOf(allTrades, i)

(* No trade is missing from the windows, and none of them makes more trades *)
(* than it has candles.                                                    *)
CountInv ==
    /\ Running => /\ windowTrades \in Seq(AnalyzedTrade)
                  /\ Len(windowTrades) <= index - testStart
    /\ Numbers(CountsOf(windows), DOMAIN windows)
    /\ Counted + (IF Running THEN Len(windowTrades) ELSE 0) = Len(allTrades)

(* Windows that do not overlap make no more trades than there are candles.  *)
SpanInv ==
    setup.step >= setup.test =>
        /\ Running => Len(allTrades) <= index
        /\ stage = "fit" => Len(allTrades) <= testStart
        /\ stage \in {"fit", "reported"} => Len(allTrades) <= setup.n

ReportInv == TradesInv /\ PeakInv /\ CountInv /\ SpanInv

(* What is approved has something to stake and something to win.            *)
LEMMA ApprovedCanWin ==
    ASSUME NEW ev, ForRisk(ev) \in EVEstimate, Approves(ForRisk(ev)),
           equity \in Int
    PROVE  RecommendedStake(ForRisk(ev)) > 0 /\ ev.b > 0
  <1>1. ForRisk(ev).b = ev.b
    BY DEF ForRisk
  <1>2. /\ RecommendedStake(ForRisk(ev)) \in Int
        /\ MinStake <= RecommendedStake(ForRisk(ev)) /\ ForRisk(ev).b > 0
    BY ApprovedStake
  <1> QED
    BY <1>1, <1>2, ConfigAssumption

LEMMA EvaluateKeepsReport ==
    ASSUME BacktestInv, KindsInv, BudgetInv, ReportInv, Evaluate
    PROVE  ReportInv'
  <1>1. /\ index \in Nat /\ stage = "evaluate"
        /\ UNCHANGED <<setup, testStart, windowTrades, allTrades, windows>>
    BY EvaluateEffect
  <1>2. PICK ev, regime, quality, approved :
            Evaluates(ev, regime, quality, approved)
    BY EvaluateEffect
  <1>3. /\ stage' \in {"evaluate", "settle"} /\ index' \in {index, index + 1}
        /\ UNCHANGED <<equity, peakEquity>>
    BY <1>1, <1>2 DEF Evaluates, Assess
  <1>4. stage' = "settle" => assessment'.stake > 0 /\ opportunity'.ev.b > 0
    <2> SUFFICES ASSUME stage' = "settle"
                 PROVE  assessment'.stake > 0 /\ opportunity'.ev.b > 0
      OBVIOUS
    <2>1. approved /\ opportunity'.ev = ev /\ ev.isValid /\ ev.b \in Int
          /\ Approves(ForRisk(ev)) /\ ForRisk(ev) \in EVEstimate
          /\ assessment'.stake = RecommendedStake(ForRisk(ev))
      BY <1>1, <1>2 DEF Evaluates, Assess
    <2>2. equity \in Int
      BY DEF BacktestInv, LevelsInv, RiskInv, RiskTypeOK
    <2> QED
      BY <2>1, <2>2, ApprovedCanWin
  <1>5. TradesInv'
    BY <1>1, <1>4 DEF ReportInv, TradesInv
  <1>6. PeakInv'
    BY <1>1, <1>3 DEF ReportInv, PeakInv
  <1>7. CountInv'
    <2>1. Running /\ Running' /\ testStart \in Nat
      BY <1>1, <1>3 DEF Running, KindsInv
    <2>2. Len(windowTrades) \in Nat
      BY <2>1, TradeNumbers DEF ReportInv, CountInv
    <2> QED
      BY <1>1, <1>3, <2>1, <2>2 DEF ReportInv, CountInv, Counted
  <1>8. SpanInv'
    <2>1. Running /\ Running' /\ Len(allTrades) \in Nat
      BY <1>1, <1>3, TradeNumbers DEF Running, KindsInv
    <2> QED
      BY <1>1, <1>3, <2>1 DEF ReportInv, SpanInv
  <1> QED
    BY <1>5, <1>6, <1>7, <1>8 DEF ReportInv

LEMMA SettledLikeOption ==
    ASSUME LevelsInv, assessment.stake > 0, opportunity.ev.b > 0
    PROVE  SettledPnl = -assessment.stake \/ SettledPnl >= 0
  <1>1. PICK stake \in Nat, b \in Nat : stake = assessment.stake /\ b = opportunity.ev.b
    BY SettledPnlType DEF LevelsInv
  <1>2. PICK payout \in Nat : payout = stake * b
    OBVIOUS
  <1>3. payout \div Scale >= 0
    BY ScaleAssumption
  <1> QED
    BY <1>1, <1>2, <1>3 DEF SettledPnl

LEMMA SettleKeepsReport ==
    ASSUME BacktestInv, KindsInv, BudgetInv, BudgetInv', ReportInv, Settle
    PROVE  ReportInv'
  <1> DEFINE n == Len(allTrades)
             trade == [epoch |-> index, stake |-> assessment.stake,
                       pnl |-> SettledPnl, p |-> opportunity.ev.p]
             longer == allTrades'
  <1>1. /\ index \in Nat /\ testStart \in Nat
        /\ stage = "settle" /\ stage' = "evaluate" /\ index' = index + 1
        /\ UNCHANGED <<setup, testStart, windows>>
        /\ RecordTradeResult(index, SettledPnl)
        /\ longer = Append(allTrades, trade)
        /\ windowTrades' = Append(windowTrades, trade)
    BY DEF Settle, EpochOf, KindsInv
  <1>2. trade \in AnalyzedTrade /\ allTrades \in Seq(AnalyzedTrade)
    BY SettledPnlType DEF BacktestInv, AnalyzedTrade, KindsInv
  <1>3. /\ Running /\ Running' /\ windowTrades \in Seq(AnalyzedTrade)
        /\ Len(windowTrades) \in Nat
    BY <1>1, TradeNumbers DEF Running, ReportInv, CountInv
  <1>4. EndsLikeOption(trade)
    BY <1>1, SettledLikeOption DEF BacktestInv, ReportInv, TradesInv, EndsLikeOption
  <1> HIDE DEF trade
  <1>5. /\ n \in Nat /\ DOMAIN allTrades = 1..n
        /\ longer \in Seq(AnalyzedTrade) /\ Len(longer) = n + 1
        /\ DOMAIN longer = 1..(n + 1)
        /\ \A k \in 1..n : longer[k] = allTrades[k]
        /\ longer[n + 1] = trade
    BY <1>1, <1>2, AppendProperties, TradeNumbers
  <1>6. /\ windowTrades' \in Seq(AnalyzedTrade)
        /\ Len(windowTrades') = Len(windowTrades) + 1
    BY <1>1, <1>2, <1>3, AppendProperties
  <1>7. TradesInv'
    <2>1. \A k \in 1..(n + 1) : EndsLikeOption(longer[k])
      BY <1>4, <1>5 DEF ReportInv, TradesInv
    <2> QED
      BY <1>1, <1>5, <2>1 DEF TradesInv
  <1>8. PeakInv'
    <2>1. /\ equity' = equity + SettledPnl
          /\ peakEquity' = peakEquity \/ peakEquity' = equity'
      BY <1>1 DEF RecordTradeResult, PeakAfter, AtLeast
    <2>2. CASE peakEquity' = equity'
      <3>1. equity' = StartingEquity + SumOver(PnlsOf(longer), DOMAIN longer)
        BY DEF BudgetInv
      <3>2. equity' = StartingEquity + BalanceOf(longer, n + 1)
        BY <1>5, <3>1 DEF BalanceOf
      <3>3. n + 1 \in 0..Len(longer)
        BY <1>5
      <3> QED
        BY <2>2, <3>2, <3>3 DEF PeakInv
    <2>3. CASE peakEquity' = peakEquity
      <3>1. PICK i \in 0..n : peakEquity = StartingEquity + BalanceOf(allTrades, i)
        BY DEF ReportInv, PeakInv
      <3>2. BalanceOf(longer, i) = BalanceOf(allTrades, i)
        <4>1. 1..i \in SUBSET DOMAIN allTrades /\ longer \in {Append(allTrades, trade)}
          BY <1>1, <1>5, <3>1
        <4> HIDE DEF longer, n
        <4> QED
          BY <1>2, <4>1, OneMoreTrade DEF BalanceOf
      <3>3. i \in 0..Len(longer)
        BY <1>5, <3>1
      <3> QED
        BY <2>3, <3>1, <3>2, <3>3 DEF PeakInv
    <2> QED
      BY <2>1, <2>2, <2>3
  <1>9. CountInv'
    <2>1. Counted \in Int /\ Counted' = Counted
      <3>1. \E S : windows \in Seq(S)
        BY DEF BacktestInv, WalkInv, RecordsInv
      <3>2. IsFiniteSet(DOMAIN windows)
        BY <3>1, LenProperties, FS_Interval
      <3> QED
        BY <1>1, <3>2, SumOverType DEF ReportInv, CountInv, Counted
    <2>2. Counted + Len(windowTrades) = n
      BY <1>3 DEF ReportInv, CountInv
    <2>3. Counted' + Len(windowTrades') = Len(longer)
      <3>1. n \in Nat /\ Len(longer) = n + 1
        BY <1>5
      <3>2. Len(windowTrades) \in Nat /\ Len(windowTrades') = Len(windowTrades) + 1
        BY <1>3, <1>6
      <3> HIDE DEF n, longer
      <3> QED
        BY <2>1, <2>2, <3>1, <3>2
    <2>4. Len(windowTrades') <= index' - testStart'
      BY <1>1, <1>3, <1>6 DEF ReportInv, CountInv
    <2>5. Numbers(CountsOf(windows'), DOMAIN windows')
      BY <1>1 DEF ReportInv, CountInv
    <2> HIDE DEF longer
    <2> QED
      BY <1>3, <1>6, <2>3, <2>4, <2>5, Zenon DEF CountInv, longer
  <1>10. SpanInv'
    BY <1>1, <1>3, <1>5 DEF ReportInv, SpanInv
  <1> QED
    BY <1>7, <1>8, <1>9, <1>10 DEF ReportInv

LEMMA CloseWindowKeepsReport ==
    ASSUME BacktestInv, KindsInv, BudgetInv, ReportInv, CloseWindow
    PROVE  ReportInv'
  <1>1. /\ stage = "evaluate" /\ stage' = "fit" /\ index = TestEnd
        /\ testStart' = testStart + setup.step
        /\ UNCHANGED <<equity, peakEquity, setup, windowTrades, allTrades>>
    BY DEF CloseWindow, riskVars
  <1>2. /\ Running /\ ~Running' /\ windowTrades \in Seq(AnalyzedTrade)
        /\ Len(windowTrades) \in Nat /\ Len(allTrades) \in Nat
        /\ TestEnd <= setup.n
    BY <1>1, TradeNumbers DEF Running, ReportInv, CountInv, KindsInv
  <1>3. /\ testStart \in Nat /\ setup.test \in Nat /\ setup.step \in Nat
        /\ setup.n \in Nat
    BY <1>1
    DEF KindsInv, BacktestInv, WalkInv, NotWalking, Walking, Setup
  <1>4. PICK w : /\ windows' = Append(windows, w)
                 /\ w.metrics = Metrics(windowTrades, setup.test)
    BY DEF CloseWindow
  <1>5. w.metrics.n = Len(windowTrades)
    <2>1. Len(windowTrades) <= setup.test
      BY <1>1, <1>2, <1>3 DEF ReportInv, CountInv, TestEnd
    <2> QED
      BY <1>2, <1>3, <1>4, <2>1, MetricsOfWhole
  <1>6. /\ Len(windows) \in Nat /\ DOMAIN windows = 1..Len(windows)
        /\ Len(windows') = Len(windows) + 1
        /\ DOMAIN windows' = 1..(Len(windows) + 1)
        /\ \A k \in 1..Len(windows) : windows'[k] = windows[k]
        /\ windows'[Len(windows) + 1] = w
    <2>1. \E S : windows \in Seq(S)
      BY DEF BacktestInv, WalkInv, RecordsInv
    <2> QED
      BY <1>4, <2>1, AppendToRecord, LenProperties
  <1> DEFINE n == Len(windows)
             new == CountsOf(windows')
             old == CountsOf(windows)
  <1>7. /\ \A k \in 1..n : new[k] = old[k] /\ old[k] \in Int
        /\ new[n + 1] = Len(windowTrades)
    BY <1>5, <1>6 DEF CountsOf, ReportInv, CountInv, Numbers
  <1>8. n \in Nat /\ DOMAIN windows = 1..n /\ DOMAIN windows' = 1..(n + 1)
    BY <1>6
  <1> HIDE DEF n, new, old
  <1>9. /\ Numbers(new, 1..(n + 1)) /\ Numbers(new, 1..n) /\ Numbers(old, 1..n)
        /\ IsFiniteSet(1..n)
    <2>1. IsFiniteSet(1..n)
      BY <1>8, FS_Interval
    <2>2. \A k \in 1..n : new[k] \in Int /\ old[k] \in Int
      BY <1>7
    <2>3. \A k \in 1..(n + 1) : new[k] \in Int
      BY <1>2, <1>7, <1>8, <2>2
    <2> QED
      BY <2>1, <2>2, <2>3 DEF Numbers
  <1>10. SumOver(new, 1..(n + 1)) = SumOver(new, 1..n) + new[n + 1]
    BY <1>8, <1>9, SumOverNext
  <1>11. SumOver(new, 1..n) = SumOver(old, 1..n) /\ SumOver(old, 1..n) \in Int
    BY <1>7, <1>9, SumOverSame, SumOverType
  <1>12. CountInv'
    <2>1. Counted + Len(windowTrades) = Len(allTrades)
      BY <1>2 DEF ReportInv, CountInv
    <2>2. Counted' = SumOver(new, 1..(n + 1)) /\ Counted = SumOver(old, 1..n)
      BY <1>8 DEF Counted, new, old
    <2>3. Counted' = Len(allTrades')
      BY <1>1, <1>2, <1>7, <1>10, <1>11, <2>1, <2>2
    <2>4. Counted' \in Int /\ Numbers(CountsOf(windows'), DOMAIN windows')
      BY <1>1, <1>2, <1>8, <1>9, <2>3 DEF new
    <2> QED
      BY <1>1, <1>2, <2>3, <2>4 DEF CountInv
  <1>13. SpanInv'
    BY <1>1, <1>2, <1>3 DEF ReportInv, SpanInv, TestEnd
  <1>14. TradesInv' /\ PeakInv'
    BY <1>1 DEF ReportInv, TradesInv, PeakInv
  <1> QED
    BY <1>12, <1>13, <1>14 DEF ReportInv

LEMMA ReportInvInit == Init => ReportInv
  <1> SUFFICES ASSUME Init PROVE ReportInv
    OBVIOUS
  <1>1. /\ DOMAIN allTrades = {} /\ Len(allTrades) = 0
        /\ DOMAIN windows = {} /\ ~Running /\ stage = "idle"
        /\ allTrades = <<>> /\ <<>> \in Seq(AnalyzedTrade)
    BY EmptySeq DEF Init, Running
  <1>2. PeakInv
    <2>1. BalanceOf(allTrades, 0) = 0 /\ 0 \in 0..Len(allTrades)
      <3>1. allTrades \in Seq(AnalyzedTrade)
        BY <1>1
      <3>2. BalanceOf(allTrades, 0) = 0
        BY <3>1, BalanceMoves
      <3> QED
        BY <1>1, <3>2
    <2>2. peakEquity = StartingEquity + 0
      BY ConfigAssumption DEF Init, RiskInit
    <2> QED
      BY <2>1, <2>2 DEF PeakInv
  <1>3. Counted = 0
    BY <1>1, SumOverEmpty DEF Counted
  <1> QED
    BY <1>1, <1>2, <1>3
    DEF ReportInv, TradesInv, CountInv, SpanInv, Numbers

LEMMA ReportInvStep ==
    /\ BacktestInv /\ KindsInv /\ BudgetInv /\ BudgetInv' /\ ReportInv
    /\ [Next]_vars
    => ReportInv'
  <1> SUFFICES ASSUME BacktestInv, KindsInv, BudgetInv, BudgetInv', ReportInv,
                      [Next]_vars
               PROVE  ReportInv'
    OBVIOUS
  <1>1. /\ Len(allTrades) \in Nat /\ testStart \in Nat /\ index \in Nat
        /\ Counted + (IF Running THEN Len(windowTrades) ELSE 0) = Len(allTrades)
    BY TradeNumbers DEF KindsInv, ReportInv, CountInv
  <1>2. UNCHANGED <<riskVars, allTrades>> => PeakInv'
    BY DEF ReportInv, PeakInv, riskVars
  <1>3. UNCHANGED windows => Counted' = Counted
    BY DEF Counted
  <1>4. CASE StartRun
    <2>1. /\ stage = "idle" /\ stage' \in {"fit", "failed"}
          /\ UNCHANGED <<riskVars, allTrades, windows, windowTrades>>
      BY <1>4 DEF StartRun, recordVars
    <2>2. CASE stage' = "failed"
      <3>1. UNCHANGED <<setup, testStart>>
        BY <1>4, <2>2 DEF StartRun
      <3>2. SpanInv' /\ ~Running /\ ~Running'
        BY <2>1, <2>2, <3>1 DEF SpanInv, Running
      <3> QED
        BY <1>1, <1>2, <1>3, <2>1, <3>2 DEF ReportInv, TradesInv, CountInv
    <2>3. CASE stage' = "fit"
      <3>1. setup' \in Setup /\ testStart' = setup'.train
        BY <1>4, <2>3, BacktestAssumption DEF StartRun
      <3>2. Len(allTrades) = 0 /\ setup'.train \in Nat /\ setup'.n \in Nat
        BY <2>1, <3>1 DEF BudgetInv, Setup
      <3>3. SpanInv' /\ ~Running /\ ~Running'
        BY <2>1, <2>3, <3>1, <3>2 DEF SpanInv, Running
      <3> QED
        BY <1>1, <1>2, <1>3, <2>1, <3>3 DEF ReportInv, TradesInv, CountInv
    <2> QED
      BY <2>1, <2>2, <2>3
  <1>5. CASE FitWindow
    <2>1. /\ stage = "fit" /\ TestEnd <= setup.n
          /\ UNCHANGED <<riskVars, setup, testStart, allTrades, windows>>
      BY <1>5 DEF FitWindow
    <2>2. \/ stage' = "failed"
          \/ /\ stage' = "evaluate" /\ index' = testStart
             /\ windowTrades' = <<>>
      BY <1>5 DEF FitWindow
    <2>3. CountInv'
      <3>1. <<>> \in Seq(AnalyzedTrade) /\ Len(<<>>) = 0
        BY EmptySeq
      <3>2. Counted' = Counted /\ Counted = Len(allTrades) /\ Counted \in Int
        <4>1. ~Running /\ Counted + 0 = Len(allTrades)
          BY <1>1, <2>1 DEF Running
        <4>2. Counted \in Int
          <5>1. \E S : windows \in Seq(S)
            BY DEF BacktestInv, WalkInv, RecordsInv
          <5>2. IsFiniteSet(DOMAIN windows)
            BY <5>1, LenProperties, FS_Interval
          <5> QED
            BY <5>2, SumOverType DEF ReportInv, CountInv, Counted
        <4> QED
          BY <1>1, <1>3, <2>1, <4>1, <4>2
      <3>3. Numbers(CountsOf(windows'), DOMAIN windows')
        BY <2>1 DEF ReportInv, CountInv
      <3>4. CASE stage' = "failed"
        BY <1>1, <2>1, <3>2, <3>3, <3>4 DEF CountInv, Running
      <3>5. CASE stage' = "evaluate" /\ index' = testStart /\ windowTrades' = <<>>
        BY <1>1, <2>1, <3>1, <3>2, <3>3, <3>5 DEF CountInv, Running
      <3> QED
        BY <2>2, <3>4, <3>5
    <2>4. SpanInv'
      BY <1>1, <2>1, <2>2 DEF ReportInv, SpanInv, Running
    <2> QED
      BY <1>2, <2>1, <2>2, <2>3, <2>4 DEF ReportInv, TradesInv
  <1>6. CASE Report
    <2>1. /\ stage = "fit" /\ stage' = "reported"
          /\ UNCHANGED <<riskVars, setup, allTrades, windows>>
      BY <1>6 DEF Report, walkVars, recordVars
    <2>2. CountInv' /\ SpanInv' /\ TradesInv'
      BY <1>1, <1>3, <2>1
      DEF ReportInv, CountInv, SpanInv, TradesInv, Running
    <2> QED
      BY <1>2, <2>1, <2>2 DEF ReportInv
  <1>7. CASE StressRun
    <2>1. /\ stage = "idle" /\ stage' \in {"failed", "stressed"}
          /\ UNCHANGED <<riskVars, setup, allTrades, windows>>
      BY <1>7 DEF StressRun, walkVars, recordVars
    <2>2. CountInv' /\ SpanInv' /\ TradesInv'
      BY <1>1, <1>3, <2>1
      DEF ReportInv, CountInv, SpanInv, TradesInv, Running
    <2> QED
      BY <1>2, <2>1, <2>2 DEF ReportInv
  <1>8. CASE UNCHANGED vars
    <2>1. UNCHANGED <<riskVars, stage, setup, testStart, index, opportunity,
                      windowTrades, allTrades, windows, assessment>>
      BY <1>8 DEF vars, walkVars, recordVars, riskVars
    <2>2. CountInv' /\ SpanInv' /\ TradesInv'
      BY <1>3, <2>1 DEF ReportInv, CountInv, SpanInv, TradesInv, Running
    <2> QED
      BY <1>2, <2>1, <2>2 DEF ReportInv
  <1> QED
    BY <1>4, <1>5, <1>6, <1>7, <1>8, EvaluateKeepsReport, SettleKeepsReport,
       CloseWindowKeepsReport DEF Next, Returned

(* Whatever was traded, in windows of whatever sizes: the account is the    *)
(* record's balance and its drawdown is within the record's, every metric  *)
(* is what its definition says, the windows together count every trade,    *)
(* and the aggregate is of all of them if windows do not overlap.          *)
THEOREM ReportsMatchRecord == Spec => []ReportMatchesRecord
  <1>1. BacktestInv /\ KindsInv /\ BudgetInv /\ ReportInv => ReportMatchesRecord
    <2> SUFFICES ASSUME BacktestInv, KindsInv, BudgetInv, ReportInv
                 PROVE  ReportMatchesRecord
      OBVIOUS
    <2>1. PICK n \in Nat : /\ n = Len(allTrades) /\ DOMAIN allTrades = 1..n
                           /\ allTrades \in Seq(AnalyzedTrade)
      BY TradeNumbers DEF KindsInv
    <2>2. equity = StartingEquity + BalanceOf(allTrades, n)
          /\ equity = StartingEquity + NetPnl(allTrades)
      BY <2>1, NetPnlIsSum DEF BudgetInv, BalanceOf
    <2>3. peakEquity - equity <= MaxDollarDrawdown(allTrades)
      <3>1. PICK i \in 0..n : peakEquity = StartingEquity + BalanceOf(allTrades, i)
        BY <2>1 DEF ReportInv, PeakInv
      <3>2. /\ BalanceOf(allTrades, i) \in Int /\ BalanceOf(allTrades, n) \in Int
            /\ MaxDollarDrawdown(allTrades) \in Int
            /\ BalanceOf(allTrades, i) - BalanceOf(allTrades, n)
                   <= MaxDollarDrawdown(allTrades)
        <4>1. BalanceOf(allTrades, i) \in Int /\ BalanceOf(allTrades, n) \in Int
          BY <2>1, BalanceMoves
        <4>2. /\ MaxDollarDrawdown(allTrades) \in Int
              /\ \A h, j \in 0..n : h <= j =>
                     BalanceOf(allTrades, h) - BalanceOf(allTrades, j)
                         <= MaxDollarDrawdown(allTrades)
          BY <2>1, DrawdownIsDeepestFall
        <4> QED
          BY <2>1, <4>1, <4>2
      <3> QED
        BY <2>2, <3>1, <3>2, ConfigAssumption
    <2>4. MetricsMatchDefinitions(allTrades)
      BY <2>1, MetricsAreTheirDefinitions DEF ReportInv, TradesInv
    <2>5. FoldFunction(+, 0, [w \in DOMAIN windows |-> windows[w].metrics.n])
              = Counted
      BY DEF Counted, CountsOf, SumOver, FoldFunction
    <2>6. stage = "reported" /\ setup.step >= setup.test =>
              AggregateMetrics = Metrics(allTrades, Len(allTrades))
      <3> SUFFICES ASSUME stage = "reported", setup.step >= setup.test
                   PROVE  AggregateMetrics = Metrics(allTrades, Len(allTrades))
        OBVIOUS
      <3>1. setup.n \in Nat
        BY DEF BacktestInv, WalkInv, NotWalking, Walking, Setup
      <3>2. setup.n + 1 >= Len(allTrades) /\ setup.n + 1 \in Nat
        BY <2>1, <3>1 DEF ReportInv, SpanInv
      <3> QED
        BY <2>1, <3>2, MetricsOfWhole DEF AggregateMetrics
    <2> QED
      BY <2>2, <2>3, <2>4, <2>5, <2>6 DEF ReportMatchesRecord, ReportInv, CountInv
  <1>2. Init => BacktestInv /\ KindsInv /\ BudgetInv /\ ReportInv
    BY WalkInvInit, LevelsInvInit, KindsInvInit, BudgetInvInit, ReportInvInit
    DEF BacktestInv
  <1>3. BacktestInv /\ KindsInv /\ BudgetInv /\ ReportInv /\ [Next]_vars
            => BacktestInv' /\ KindsInv' /\ BudgetInv' /\ ReportInv'
    BY WalkInvStep, LevelsInvStep, KindsInvStep, BudgetInvStep, ReportInvStep
    DEF BacktestInv
  <1> QED
    BY <1>1, <1>2, <1>3, PTL DEF Spec

-----------------------------------------------------------------------------
(* What a regime's bar answers to.                                          *)

Own(key) ==
    {i \in DOMAIN evaluations : BucketKey(evaluations[i].regime) = key}

AllSay(key, v) == \A i \in Own(key) : evaluations[i].approved = v

(* After how many evaluations a bucket first adjusts, and how many later it *)
(* does again.                                                             *)
FirstAdjustment == AtLeast(1, AtLeast(AdjustmentCooldown, MinSamples))
Pace == AtLeast(1, AdjustmentCooldown)

(* After k evaluations: the adjustments made and the evaluations since.     *)
Adjustments(k) ==
    IF MinSamples > RollingWindow \/ k < FirstAdjustment THEN 0
    ELSE 1 + (k - FirstAdjustment) \div Pace
SinceAfter(k) ==
    IF MinSamples > RollingWindow \/ k < FirstAdjustment THEN k
    ELSE (k - FirstAdjustment) % Pace

(* Where as many adjustments leave the bar when all evaluations agreed.     *)
BarAfter(v, adjustments) ==
    IF v
    THEN IF TargetFrequency * BandHigh < Scale * Scale
         THEN AtMost(ThresholdMax, BaseThreshold + AdjustmentStep * adjustments)
         ELSE BaseThreshold
    ELSE AtLeast(ThresholdMin, BaseThreshold - AdjustmentStep * adjustments)

(* A bucket that k evaluations went to; the bar is settled if all said v.   *)
BucketAfter(bucket, k) ==
    /\ Len(bucket.history) = AtMost(k, RollingWindow)
    /\ bucket.since = SinceAfter(k)
BarSettled(bucket, k, v) ==
    /\ \A i \in DOMAIN bucket.history : bucket.history[i] = v
    /\ bucket.threshold = BarAfter(v, Adjustments(k))

(* Each bucket has counted its own regime's evaluations and no others.      *)
BarInv ==
    /\ \A i \in DOMAIN evaluations : evaluations[i].approved \in BOOLEAN
    /\ \A key \in BucketKeys :
           /\ BucketAfter(buckets[key], Cardinality(Own(key)))
           /\ \A v \in BOOLEAN : AllSay(key, v) =>
                  BarSettled(buckets[key], Cardinality(Own(key)), v)

LEMMA DivStep ==
    ASSUME NEW n \in Nat, NEW d \in Nat \ {0}
    PROVE  /\ n \div d \in Nat /\ n % d \in 0..(d - 1)
           /\ n % d = d - 1 =>
                  (n + 1) \div d = n \div d + 1 /\ (n + 1) % d = 0
           /\ n % d # d - 1 =>
                  (n + 1) \div d = n \div d /\ (n + 1) % d = (n % d) + 1
  <1>1. PICK q \in Nat, r \in 0..(d - 1) :
            q = n \div d /\ r = n % d /\ n = d * q + r
    OBVIOUS
  <1>2. CASE r = d - 1
    <2>1. n + 1 = (q + 1) * d + 0
      BY <1>1, <1>2
    <2>2. /\ ((q + 1) * d + 0) \div d = q + 1
          /\ ((q + 1) * d + 0) % d = 0
      BY PlaceInWindow
    <2> QED
      BY <1>1, <1>2, <2>1, <2>2
  <1>3. CASE r # d - 1
    <2>1. n + 1 = q * d + (r + 1) /\ r + 1 \in 0..(d - 1)
      BY <1>1, <1>3
    <2>2. /\ (q * d + (r + 1)) \div d = q
          /\ (q * d + (r + 1)) % d = r + 1
      BY <2>1, PlaceInWindow
    <2> QED
      BY <1>1, <1>3, <2>1, <2>2
  <1> QED
    BY <1>1, <1>2, <1>3

LEMMA ScoringNumbers ==
    /\ AdjustmentCooldown \in Nat /\ MinSamples \in Nat
    /\ RollingWindow \in Nat \ {0} /\ AdjustmentStep \in Int
    /\ ThresholdMin \in Nat /\ ThresholdMax \in Nat /\ BaseThreshold \in Nat
    /\ ThresholdMin <= BaseThreshold /\ BaseThreshold <= ThresholdMax
    /\ Pace \in Nat \ {0} /\ FirstAdjustment \in Nat \ {0}
    /\ FirstAdjustment >= AdjustmentCooldown /\ FirstAdjustment >= MinSamples
    /\ Pace >= AdjustmentCooldown
    /\ FirstAdjustment \in {1, AdjustmentCooldown, MinSamples}
    /\ Pace \in {1, AdjustmentCooldown}
  BY ScoringAssumption, ScaleAssumption DEF Pace, FirstAdjustment, AtLeast

(* The next evaluation adjusts the bar when the counts say so.              *)
Adjusts(k) ==
    SinceAfter(k) + 1 >= AdjustmentCooldown /\ AtMost(k + 1, RollingWindow) >= MinSamples

LEMMA CountsAdvance ==
    ASSUME NEW k \in Nat
    PROVE  /\ Adjustments(k) \in Nat /\ SinceAfter(k) \in Nat
           /\ Adjusts(k) => /\ Adjustments(k + 1) = Adjustments(k) + 1
                            /\ SinceAfter(k + 1) = 0
           /\ ~Adjusts(k) => /\ Adjustments(k + 1) = Adjustments(k)
                             /\ SinceAfter(k + 1) = SinceAfter(k) + 1
  <1> USE ScoringNumbers
  <1>1. CASE MinSamples > RollingWindow
    BY <1>1 DEF Adjusts, Adjustments, SinceAfter, AtMost
  <1>2. CASE MinSamples <= RollingWindow /\ k + 1 < FirstAdjustment
    BY <1>2 DEF Adjusts, Adjustments, SinceAfter, AtMost
  <1>3. CASE MinSamples <= RollingWindow /\ k + 1 = FirstAdjustment
    <2>1. Adjusts(k) /\ Adjustments(k) = 0 /\ SinceAfter(k) = k
      BY <1>3 DEF Adjusts, Adjustments, SinceAfter, AtMost
    <2>2. 0 \div Pace = 0 /\ 0 % Pace = 0
      OBVIOUS
    <2>3. (k + 1) - FirstAdjustment = 0
      BY <1>3
    <2> QED
      BY <1>3, <2>1, <2>2, <2>3 DEF Adjustments, SinceAfter
  <1>4. CASE MinSamples <= RollingWindow /\ k + 1 > FirstAdjustment
    <2>1. PICK n \in Nat : n = k - FirstAdjustment /\ n + 1 = (k + 1) - FirstAdjustment
      BY <1>4
    <2>2. /\ Adjustments(k) = 1 + n \div Pace /\ SinceAfter(k) = n % Pace
          /\ Adjustments(k + 1) = 1 + (n + 1) \div Pace
          /\ SinceAfter(k + 1) = (n + 1) % Pace
      BY <1>4, <2>1 DEF Adjustments, SinceAfter
    <2>3. Adjusts(k) <=> (n % Pace) + 1 >= AdjustmentCooldown
      BY <1>4, <2>2 DEF Adjusts, AtMost
    <2>4. n \div Pace \in Nat /\ n % Pace \in 0..(Pace - 1)
      BY DivStep
    <2>5. Adjusts(k) <=> n % Pace = Pace - 1
      BY <2>3, <2>4
    <2>6. /\ n % Pace = Pace - 1 =>
                 (n + 1) \div Pace = n \div Pace + 1 /\ (n + 1) % Pace = 0
          /\ n % Pace # Pace - 1 =>
                 /\ (n + 1) \div Pace = n \div Pace
                 /\ (n + 1) % Pace = (n % Pace) + 1
      BY DivStep
    <2>7. PICK q \in Nat, r \in Nat : q = n \div Pace /\ r = n % Pace
      BY <2>4
    <2>8. /\ Adjustments(k) = 1 + q /\ SinceAfter(k) = r
          /\ Adjusts(k) => /\ Adjustments(k + 1) = 1 + (q + 1)
                           /\ SinceAfter(k + 1) = 0
          /\ ~Adjusts(k) => /\ Adjustments(k + 1) = 1 + q
                            /\ SinceAfter(k + 1) = r + 1
      BY <2>2, <2>5, <2>6, <2>7
    <2> QED
      BY <2>8
  <1> QED
    BY <1>1, <1>2, <1>3, <1>4

(* One more step of the bar, the way the step points.                       *)
LEMMA BarMoves ==
    ASSUME NEW a \in Nat
    PROVE  /\ BarAfter(FALSE, 0) = BaseThreshold
           /\ BarAfter(TRUE, 0) = BaseThreshold
           /\ Eased(BarAfter(FALSE, a)) = BarAfter(FALSE, a + 1)
           /\ IF TargetFrequency * BandHigh < Scale * Scale
              THEN Tightened(BarAfter(TRUE, a)) = BarAfter(TRUE, a + 1)
              ELSE BarAfter(TRUE, a + 1) = BarAfter(TRUE, a)
  <1>1. PICK step \in Int, moved \in Int :
            /\ step = AdjustmentStep /\ moved = AdjustmentStep * a
            /\ AdjustmentStep * (a + 1) = moved + step
            /\ AdjustmentStep * 0 = 0
            /\ step >= 0 => moved >= 0
            /\ step <= 0 => moved <= 0
    <2>1. PICK step \in Int : step = AdjustmentStep
      BY ScoringNumbers
    <2>2. step * a \in Int /\ step * (a + 1) = step * a + step /\ step * 0 = 0
      OBVIOUS
    <2>3. (step >= 0 => step * a >= 0) /\ (step <= 0 => step * a <= 0)
      OBVIOUS
    <2> QED
      BY <2>1, <2>2, <2>3
  <1>2. CASE step >= 0
    BY <1>1, <1>2, ScoringNumbers
    DEF BarAfter, Eased, Tightened, AtLeast, AtMost
  <1>3. CASE step <= 0
    BY <1>1, <1>3, ScoringNumbers
    DEF BarAfter, Eased, Tightened, AtLeast, AtMost
  <1>4. step >= 0 \/ step <= 0
    OBVIOUS
  <1> QED
    BY <1>2, <1>3, <1>4, Zenon

LEMMA ApprovalsCounted ==
    ASSUME NEW history \in Seq(BOOLEAN), NEW approvals,
           approvals = {i \in DOMAIN history : history[i]}
    PROVE  Approvals(history) = Cardinality(approvals)
  BY Zenon DEF Approvals

(* A history that is all rejections asks for ease, one that is all          *)
(* approvals for tightening, if the band has an upper end at all.          *)
LEMMA UnanimousAdjusts ==
    ASSUME NEW history \in Seq(BOOLEAN), Len(history) > 0, NEW v \in BOOLEAN,
           \A i \in DOMAIN history : history[i] = v, NEW threshold
    PROVE  Adjusted(threshold, history) =
               IF ~v THEN Eased(threshold)
               ELSE IF TargetFrequency * BandHigh < Scale * Scale
                    THEN Tightened(threshold) ELSE threshold
  <1>1. PICK n \in Nat \ {0} : n = Len(history) /\ DOMAIN history = 1..n
    BY LenProperties
  <1>2. PICK s \in Nat \ {0}, f \in Nat \ {0}, low \in Nat \ {0}, high \in Nat :
            /\ s = Scale /\ f = TargetFrequency /\ low = BandLow
            /\ high = BandHigh /\ f < s /\ low < s
    BY ScaleAssumption, ScoringAssumption
  <1>3. PICK ss \in Nat, fl \in Nat \ {0}, fh \in Nat :
            /\ ss = s * s /\ fl = f * low /\ fh = f * high /\ fl < ss
    <2>1. PICK d \in Nat \ {0}, e \in Nat \ {0} : s = low + d /\ s = f + e
      <3>1. s - low \in Nat \ {0} /\ s - f \in Nat \ {0}
        BY <1>2
      <3> QED
        BY <3>1
    <2>2. f * s = f * low + f * d /\ s * s = f * s + e * s
      BY <2>1
    <2>3. f * d > 0 /\ e * s > 0 /\ f * low \in Nat \ {0}
          /\ f * s \in Nat /\ s * s \in Nat /\ f * high \in Nat
      OBVIOUS
    <2>4. f * low < s * s
      BY <2>2, <2>3
    <2> QED
      BY <2>3, <2>4
  <1>6. /\ Starved(history) <=> Approvals(history) * s * s < f * low * n
        /\ Overtrading(history) <=> Approvals(history) * s * s > f * high * n
    BY <1>1, <1>2 DEF Starved, Overtrading
  <1>7. f * low * n = fl * n /\ f * high * n = fh * n
    BY <1>3
  <1>4. CASE ~v
    <2>1. {} = {i \in DOMAIN history : history[i]}
      BY <1>4
    <2>2. Approvals(history) = 0
      BY <2>1, ApprovalsCounted, FS_EmptySet
    <2>3. fl * n > 0 /\ 0 * s * s = 0
      BY <1>1, <1>2, <1>3
    <2>4. Starved(history)
      BY <1>6, <1>7, <2>2, <2>3
    <2> QED
      BY <1>4, <2>4 DEF Adjusted
  <1>5. CASE v
    <2>1. 1..n = {i \in DOMAIN history : history[i]}
      BY <1>1, <1>5
    <2>2. Approvals(history) = Cardinality(1..n)
      BY <2>1, ApprovalsCounted
    <2>9. Cardinality(1..n) = n
      <3>1. Cardinality(1..n) = IF 1 > n THEN 0 ELSE n - 1 + 1
        BY FS_Interval
      <3> QED
        BY <3>1
    <2>3. n * s * s = ss * n
      BY <1>2, <1>3
    <2>4. ~(ss * n < fl * n)
      BY <1>3
    <2>5. ss * n > fh * n <=> fh < ss
      <3>1. fh < ss => fh * n < ss * n
        BY <1>3
      <3>2. fh >= ss => fh * n >= ss * n
        BY <1>3
      <3>3. fh * n \in Nat /\ ss * n \in Nat
        OBVIOUS
      <3> QED
        BY <1>3, <3>1, <3>2, <3>3
    <2>6. ~Starved(history)
      BY <1>6, <1>7, <2>2, <2>9, <2>3, <2>4
    <2>7. Overtrading(history) <=> fh < ss
      BY <1>6, <1>7, <2>2, <2>9, <2>3, <2>5
    <2>8. TargetFrequency * BandHigh < Scale * Scale <=> fh < ss
      BY <1>2, <1>3
    <2> QED
      BY <1>5, <2>6, <2>7, <2>8 DEF Adjusted
  <1> QED
    BY <1>4, <1>5

(* What is remembered are the latest evaluations, as many as fit.           *)
LEMMA RememberedSays ==
    ASSUME NEW history \in Seq(BOOLEAN), NEW k \in Nat, NEW approved \in BOOLEAN,
           Len(history) = AtMost(k, RollingWindow)
    PROVE  LET longer == Remembered(history, approved)
           IN  /\ longer \in Seq(BOOLEAN)
               /\ Len(longer) = AtMost(k + 1, RollingWindow)
               /\ \A i \in DOMAIN longer : \/ longer[i] = approved
                                           \/ \E j \in DOMAIN history :
                                                  longer[i] = history[j]
  <1> DEFINE longer == Append(history, approved)
  <1>1. PICK n \in Nat : n = Len(history) /\ DOMAIN history = 1..n
    BY LenProperties
  <1>2. /\ longer \in Seq(BOOLEAN) /\ Len(longer) = n + 1 /\ longer # <<>>
        /\ DOMAIN longer = 1..(n + 1)
        /\ \A i \in 1..n : longer[i] = history[i]
        /\ longer[n + 1] = approved
    BY <1>1, AppendProperties, LenProperties
  <1> HIDE DEF longer
  <1>3. /\ Tail(longer) \in Seq(BOOLEAN) /\ Len(Tail(longer)) = n
        /\ DOMAIN Tail(longer) = 1..n
        /\ \A i \in 1..n : Tail(longer)[i] = longer[i + 1]
    <2>1. /\ Tail(longer) \in Seq(BOOLEAN)
          /\ Len(Tail(longer)) = Len(longer) - 1
          /\ \A i \in 1..Len(Tail(longer)) : Tail(longer)[i] = longer[i + 1]
      BY <1>2, HeadTailProperties
    <2> QED
      BY <1>1, <1>2, <2>1, LenProperties
  <1>4. Remembered(history, approved) =
            IF n + 1 > RollingWindow THEN Tail(longer) ELSE longer
    BY <1>2 DEF Remembered, longer
  <1>5. CASE n + 1 > RollingWindow
    <2>1. n = AtMost(k + 1, RollingWindow)
      BY <1>1, <1>5, ScoringNumbers DEF AtMost
    <2>2. \A i \in 1..n : longer[i + 1] = approved
                          \/ \E j \in 1..n : longer[i + 1] = history[j]
      <3> TAKE i \in 1..n
      <3>1. i + 1 = n + 1 \/ i + 1 \in 1..n
        OBVIOUS
      <3> QED
        BY <1>2, <3>1
    <2>3. Remembered(history, approved) = Tail(longer)
      BY <1>4, <1>5
    <2>4. \A i \in 1..n : \/ Tail(longer)[i] = approved
                          \/ \E j \in 1..n : Tail(longer)[i] = history[j]
      BY <1>3, <2>2
    <2> QED
      BY <1>1, <1>3, <2>1, <2>3, <2>4
  <1>6. CASE ~(n + 1 > RollingWindow)
    <2>1. n + 1 = AtMost(k + 1, RollingWindow)
      BY <1>1, <1>6, ScoringNumbers DEF AtMost
    <2>2. \A i \in 1..(n + 1) : longer[i] = approved
                                \/ \E j \in 1..n : longer[i] = history[j]
      <3> TAKE i \in 1..(n + 1)
      <3>1. i = n + 1 \/ i \in 1..n
        OBVIOUS
      <3> QED
        BY <1>2, <3>1
    <2>3. Remembered(history, approved) = longer
      BY <1>4, <1>6
    <2> QED
      BY <1>1, <1>2, <2>1, <2>2, <2>3
  <1> QED
    BY <1>5, <1>6

(* One evaluation in a bucket that k evaluations went to.                   *)
LEMMA RecordedCounts ==
    ASSUME NEW bucket, BucketOK(bucket), NEW k \in Nat, BucketAfter(bucket, k),
           NEW approved \in BOOLEAN
    PROVE  /\ BucketAfter(Recorded(bucket, approved), k + 1)
           /\ \A v \in BOOLEAN : approved = v /\ BarSettled(bucket, k, v) =>
                  BarSettled(Recorded(bucket, approved), k + 1, v)
  <1> DEFINE history == Remembered(bucket.history, approved)
             r == Recorded(bucket, approved)
  <1>1. /\ history \in Seq(BOOLEAN)
        /\ Len(history) = AtMost(k + 1, RollingWindow)
        /\ \A i \in DOMAIN history :
              \/ history[i] = approved
              \/ \E j \in DOMAIN bucket.history : history[i] = bucket.history[j]
    BY RememberedSays DEF BucketOK, BucketAfter
  <1> HIDE DEF history
  <1>2. bucket.since = SinceAfter(k) /\ SinceAfter(k) \in Nat
        /\ Adjustments(k) \in Nat
    BY CountsAdvance DEF BucketAfter
  <1>3. /\ r.history = history
        /\ r.since = IF Adjusts(k) THEN 0 ELSE SinceAfter(k) + 1
        /\ r.threshold = IF Adjusts(k) THEN Adjusted(bucket.threshold, history)
                         ELSE bucket.threshold
    BY <1>1, <1>2 DEF Recorded, Adjusts, history
  <1> HIDE DEF r
  <1>4. BucketAfter(r, k + 1)
    BY <1>1, <1>2, <1>3, CountsAdvance DEF BucketAfter
  <1>5. ASSUME NEW v \in BOOLEAN, approved = v, BarSettled(bucket, k, v)
        PROVE  BarSettled(r, k + 1, v)
    <2>1. \A i \in DOMAIN history : history[i] = v
      BY <1>1, <1>5 DEF BarSettled
    <2>2. Len(history) > 0
      BY <1>1, ScoringNumbers DEF AtMost
    <2>3. bucket.threshold = BarAfter(v, Adjustments(k))
      BY <1>5 DEF BarSettled
    <2>4. r.threshold = BarAfter(v, Adjustments(k + 1))
      <3>1. CASE ~Adjusts(k)
        BY <1>3, <2>3, <3>1, CountsAdvance
      <3>2. CASE Adjusts(k)
        <4>1. PICK a \in Nat : a = Adjustments(k) /\ a + 1 = Adjustments(k + 1)
          BY <1>2, <3>2, CountsAdvance
        <4>2. r.threshold =
                  IF ~v THEN Eased(bucket.threshold)
                  ELSE IF TargetFrequency * BandHigh < Scale * Scale
                       THEN Tightened(bucket.threshold) ELSE bucket.threshold
          BY <1>1, <1>3, <2>1, <2>2, <3>2, UnanimousAdjusts
        <4>3. CASE v = TRUE
          BY <2>3, <4>1, <4>2, <4>3, BarMoves
        <4>4. CASE v = FALSE
          BY <2>3, <4>1, <4>2, <4>4, BarMoves
        <4> QED
          BY <4>3, <4>4
      <3> QED
        BY <3>1, <3>2
    <2> QED
      BY <1>3, <2>1, <2>4 DEF BarSettled
  <1> QED
    BY <1>4, <1>5 DEF r

(* An evaluation counts for its own regime's bucket only.                   *)
LEMMA OwnAfter ==
    ASSUME WalkInv, NEW e, evaluations' = Append(evaluations, e), NEW key
    PROVE  /\ IsFiniteSet(Own(key)) /\ Cardinality(Own(key)) \in Nat
           /\ \A i \in Own(key) : evaluations'[i] = evaluations[i]
           /\ BucketKey(e.regime) # key => Own(key)' = Own(key)
           /\ BucketKey(e.regime) = key =>
                 /\ Own(key)' = Own(key) \cup {Len(evaluations) + 1}
                 /\ Cardinality(Own(key)') = Cardinality(Own(key)) + 1
           /\ DOMAIN evaluations' = DOMAIN evaluations \cup {Len(evaluations) + 1}
           /\ evaluations'[Len(evaluations) + 1] = e
           /\ \A i \in DOMAIN evaluations : evaluations'[i] = evaluations[i]
  <1>1. PICK S : evaluations \in Seq(S)
    BY DEF WalkInv, RecordsInv
  <1>2. evaluations \in Seq(S \cup {e})
    BY <1>1, SeqDef
  <1>3. PICK n \in Nat : n = Len(evaluations) /\ DOMAIN evaluations = 1..n
    BY <1>1, LenProperties
  <1>4. /\ DOMAIN evaluations' = 1..(n + 1)
        /\ \A i \in 1..n : evaluations'[i] = evaluations[i]
        /\ evaluations'[n + 1] = e
    BY <1>2, <1>3, AppendProperties, LenProperties
  <1>5. 1..(n + 1) = (1..n) \cup {n + 1} /\ n + 1 \notin 1..n
    OBVIOUS
  <1>6. Own(key) \subseteq 1..n /\ IsFiniteSet(1..n)
    BY <1>3, FS_Interval DEF Own
  <1>7. IsFiniteSet(Own(key)) /\ Cardinality(Own(key)) \in Nat
    BY <1>6, FS_Subset, FS_CardinalityType
  <1>8. \A i : i \in Own(key)' <=>
            \/ i \in Own(key)
            \/ i = n + 1 /\ BucketKey(e.regime) = key
    BY <1>3, <1>4, <1>5 DEF Own, BucketKey
  <1>9. BucketKey(e.regime) # key => Own(key)' = Own(key)
    BY <1>8
  <1>10. ASSUME BucketKey(e.regime) = key
         PROVE  /\ Own(key)' = Own(key) \cup {n + 1}
                /\ Cardinality(Own(key)') = Cardinality(Own(key)) + 1
    <2>1. Own(key)' = Own(key) \cup {n + 1}
      BY <1>8, <1>10
    <2>2. n + 1 \notin Own(key)
      BY <1>5, <1>6
    <2>3. Cardinality(Own(key) \cup {n + 1}) = Cardinality(Own(key)) + 1
      BY <1>7, <2>2, FS_AddElement
    <2> QED
      BY <2>1, <2>3
  <1> QED
    BY <1>3, <1>4, <1>5, <1>6, <1>7, <1>9, <1>10

LEMMA BarInvInit == Init => BarInv
  <1> SUFFICES ASSUME Init PROVE BarInv
    OBVIOUS
  <1>1. DOMAIN evaluations = {} /\ \A key : Own(key) = {}
    BY DEF Init, Own
  <1>2. \A key : Cardinality(Own(key)) = 0
    BY <1>1, FS_EmptySet
  <1>3. \A key \in BucketKeys : buckets[key] = FreshBucket
    BY DEF Init, ScorerInit
  <1>4. BucketAfter(FreshBucket, 0) /\ Adjustments(0) = 0
    BY ScoringNumbers
    DEF BucketAfter, FreshBucket, SinceAfter, Adjustments, AtMost
  <1>5. \A v \in BOOLEAN : BarSettled(FreshBucket, 0, v)
    <2>1. \A v \in BOOLEAN : BarAfter(v, 0) = BaseThreshold
      <3>1. BarAfter(TRUE, 0) = BaseThreshold /\ BarAfter(FALSE, 0) = BaseThreshold
        BY BarMoves
      <3> QED
        BY <3>1
    <2> QED
      BY <1>4, <2>1 DEF BarSettled, FreshBucket
  <1> QED
    BY <1>1, <1>2, <1>3, <1>4, <1>5 DEF BarInv

LEMMA EvaluateKeepsBar ==
    ASSUME BacktestInv, BarInv, Evaluate PROVE BarInv'
  <1>1. PICK ev, regime, quality, approved :
            Evaluates(ev, regime, quality, approved)
    BY EvaluateEffect
  <1> DEFINE e == [index |-> index, regime |-> regime, approved |-> approved]
             met == BucketKey(regime)
  <1>2. /\ evaluations' = Append(evaluations, e) /\ approved \in BOOLEAN
        /\ met \in BucketKeys /\ BucketKey(e.regime) = met
        /\ e.approved = approved /\ RecordEvaluation(regime, approved)
    BY <1>1 DEF Evaluates
  <1> HIDE DEF e
  <1>3. \A key \in BucketKeys :
            buckets'[key] = IF key = met THEN Recorded(buckets[key], approved)
                            ELSE buckets[key]
    BY <1>2 DEF RecordEvaluation, BacktestInv, LevelsInv, ScorerTypeOK
  <1> HIDE DEF met
  <1>4. WalkInv /\ \A key \in BucketKeys : BucketOK(buckets[key])
    BY DEF BacktestInv, LevelsInv, ScorerTypeOK, ThresholdsBounded, BucketOK
  <1>5. \A i \in DOMAIN evaluations' : evaluations'[i].approved \in BOOLEAN
    <2>1. /\ DOMAIN evaluations' = DOMAIN evaluations \cup {Len(evaluations) + 1}
          /\ evaluations'[Len(evaluations) + 1] = e
          /\ \A i \in DOMAIN evaluations : evaluations'[i] = evaluations[i]
      BY <1>2, <1>4, OwnAfter
    <2> QED
      BY <1>2, <2>1 DEF BarInv
  <1>6. ASSUME NEW key \in BucketKeys
        PROVE  /\ BucketAfter(buckets'[key], Cardinality(Own(key)'))
               /\ \A v \in BOOLEAN : AllSay(key, v)' =>
                      BarSettled(buckets'[key], Cardinality(Own(key)'), v)
    <2>1. PICK k \in Nat : k = Cardinality(Own(key))
      BY <1>2, <1>4, OwnAfter
    <2>2. /\ BucketAfter(buckets[key], k)
          /\ \A v \in BOOLEAN : AllSay(key, v) => BarSettled(buckets[key], k, v)
      BY <2>1 DEF BarInv
    <2>3. \A i \in Own(key) : evaluations'[i] = evaluations[i]
      BY <1>2, <1>4, OwnAfter
    <2>4. CASE key # met
      <3>1. Own(key)' = Own(key) /\ buckets'[key] = buckets[key]
        BY <1>2, <1>3, <1>4, <2>4, OwnAfter
      <3>2. \A v \in BOOLEAN : AllSay(key, v)' => AllSay(key, v)
        BY <2>3, <3>1 DEF AllSay
      <3> QED
        BY <2>1, <2>2, <3>1, <3>2
    <2>5. CASE key = met
      <3>1. /\ Own(key)' = Own(key) \cup {Len(evaluations) + 1}
            /\ Cardinality(Own(key)') = k + 1
            /\ evaluations'[Len(evaluations) + 1] = e
        BY <1>2, <1>4, <2>1, <2>5, OwnAfter
      <3>2. buckets'[key] = Recorded(buckets[key], approved)
        BY <1>3, <2>5
      <3>3. BucketAfter(buckets'[key], k + 1)
        BY <1>2, <1>4, <2>2, <3>2, RecordedCounts
      <3>4. ASSUME NEW v \in BOOLEAN, AllSay(key, v)'
            PROVE  BarSettled(buckets'[key], k + 1, v)
        <4>1. AllSay(key, v) /\ approved = v
          BY <1>2, <2>3, <3>1, <3>4 DEF AllSay
        <4> QED
          BY <1>2, <1>4, <2>2, <3>2, <4>1, RecordedCounts
      <3> QED
        BY <3>1, <3>3, <3>4
    <2> QED
      BY <2>4, <2>5
  <1> QED
    BY <1>5, <1>6 DEF BarInv

LEMMA BarInvStep == BacktestInv /\ BarInv /\ [Next]_vars => BarInv'
  <1> SUFFICES ASSUME BacktestInv, BarInv, [Next]_vars PROVE BarInv'
    OBVIOUS
  <1>1. CASE Evaluate
    BY <1>1, EvaluateKeepsBar
  <1>2. CASE UNCHANGED <<buckets, evaluations>>
    <2>1. \A key : Own(key)' = Own(key)
      BY <1>2 DEF Own, BucketKey
    <2> QED
      BY <1>2, <2>1 DEF BarInv, AllSay
  <1> QED
    BY <1>1, <1>2
    DEF Next, Returned, StartRun, FitWindow, Settle, CloseWindow, Report,
        StressRun, recordVars, vars

(* In every regime the bar answers to that regime's own evaluations: it has *)
(* eased after rejections alone, or tightened after approvals alone, by    *)
(* exactly one step per adjustment that was due, within its limits, and    *)
(* evaluations of other regimes leave it where it is.                      *)
THEOREM BarsFollowFrequency == Spec => []BarFollowsFrequency
  <1>1. BacktestInv /\ BarInv => BarFollowsFrequency
    <2> SUFFICES ASSUME BacktestInv, BarInv, NEW key \in BucketKeys
                 PROVE  LET own == {i \in DOMAIN evaluations :
                                       BucketKey(evaluations[i].regime) = key}
                            k == Cardinality(own)
                            first == AtLeast(1, AtLeast(AdjustmentCooldown, MinSamples))
                            adjustments ==
                                IF MinSamples > RollingWindow \/ k < first THEN 0
                                ELSE 1 + (k - first) \div AtLeast(1, AdjustmentCooldown)
                            moved == AdjustmentStep * adjustments
                        IN  /\ (\A i \in own : ~evaluations[i].approved) =>
                                   buckets[key].threshold =
                                       AtLeast(ThresholdMin, BaseThreshold - moved)
                            /\ (\A i \in own : evaluations[i].approved) /\ k > 0 =>
                                   buckets[key].threshold =
                                       IF TargetFrequency * BandHigh < Scale * Scale
                                       THEN AtMost(ThresholdMax, BaseThreshold + moved)
                                       ELSE BaseThreshold
      BY DEF BarFollowsFrequency
    <2> DEFINE k == Cardinality(Own(key))
    <2>1. ASSUME \A i \in Own(key) : ~evaluations[i].approved
          PROVE  buckets[key].threshold = BarAfter(FALSE, Adjustments(k))
      <3>1. AllSay(key, FALSE)
        BY <2>1 DEF AllSay, BarInv, Own
      <3> QED
        BY <3>1 DEF BarInv, BarSettled
    <2>2. ASSUME \A i \in Own(key) : evaluations[i].approved
          PROVE  buckets[key].threshold = BarAfter(TRUE, Adjustments(k))
      <3>1. AllSay(key, TRUE)
        BY <2>2 DEF AllSay, BarInv, Own
      <3> QED
        BY <3>1 DEF BarInv, BarSettled
    <2> QED
      BY <2>1, <2>2 DEF Own, BarAfter, Adjustments, FirstAdjustment, Pace
  <1> QED
    BY <1>1, BacktestInvariant, BarInvInit, BarInvStep, PTL DEF Spec

-----------------------------------------------------------------------------
(* What a losing streak does to the record.                                 *)

(* The evaluations that were traded; which trade of the record each became; *)
(* the losses in a row that end with it.                                   *)
Places == {j \in DOMAIN evaluations : evaluations[j].approved}
Ordinal(j) == Cardinality({i \in Places : i <= j})
LostAt(j) ==
    Ordinal(j) <= Len(allTrades) /\ ~WasWin(allTrades[Ordinal(j)])
LossRun(j) ==
    {i \in Places : i <= j /\ \A h \in Places : i <= h /\ h <= j => LostAt(h)}
Streak(j) == Cardinality(LossRun(j))

(* All but the one about to be settled, and the last of them.               *)
Settled ==
    IF stage = "settle" THEN Places \ {Len(evaluations)} ELSE Places
IsLatest(j) == j \in Settled /\ \A i \in Settled : i <= j

FillsStreak(j) == Streak(j) > 0 /\ Streak(j) % MaxConsecutiveLosses = 0

(* The engine counts the losses since the last win or pause.  A full streak *)
(* has it pause; the pause is as far as evaluations went since, or over.   *)
PauseClock(j) ==
    IF FillsStreak(j)
    THEN \/ /\ consecutiveLosses = MaxConsecutiveLosses
            /\ cooldown = CooldownEvaluations - (Len(evaluations) - j)
         \/ /\ consecutiveLosses = 0
            /\ Len(evaluations) >= j + CooldownEvaluations
    ELSE consecutiveLosses = Streak(j) % MaxConsecutiveLosses

PauseInv ==
    /\ stage = "settle" =>
           /\ Len(evaluations) \in Places
           /\ consecutiveLosses < MaxConsecutiveLosses
    /\ Cardinality(Settled) = Len(allTrades)
    /\ Settled = {} => consecutiveLosses = 0
    /\ \A j \in Places : IsLatest(j) => PauseClock(j)
    /\ \A j, next \in Places :
           j < next /\ FillsStreak(j) => next >= j + CooldownEvaluations

LEMMA PlacesAreFinite ==
    ASSUME WalkInv
    PROVE  /\ Len(evaluations) \in Nat /\ DOMAIN evaluations = 1..Len(evaluations)
           /\ Places \subseteq 1..Len(evaluations) /\ IsFiniteSet(Places)
           /\ Settled \subseteq Places /\ IsFiniteSet(Settled)
           /\ \A j : Ordinal(j) \in Nat /\ Streak(j) \in Nat
  <1>1. PICK S : evaluations \in Seq(S)
    BY DEF WalkInv, RecordsInv
  <1>2. Len(evaluations) \in Nat /\ DOMAIN evaluations = 1..Len(evaluations)
    BY <1>1, LenProperties
  <1>3. Places \subseteq 1..Len(evaluations) /\ IsFiniteSet(1..Len(evaluations))
    BY <1>2, FS_Interval DEF Places
  <1>4. IsFiniteSet(Places) /\ Settled \subseteq Places /\ IsFiniteSet(Settled)
    BY <1>3, FS_Subset DEF Settled
  <1>5. ASSUME NEW j PROVE Ordinal(j) \in Nat /\ Streak(j) \in Nat
    <2>1. /\ IsFiniteSet({i \in Places : i <= j})
          /\ IsFiniteSet(LossRun(j))
      BY <1>4, FS_Subset DEF LossRun
    <2> QED
      BY <2>1, FS_CardinalityType DEF Ordinal, Streak
  <1> QED
    BY <1>2, <1>3, <1>4, <1>5

(* A settled evaluation has its trade in the record.                        *)
LEMMA SettledIsRecorded ==
    ASSUME WalkInv, PauseInv, NEW j \in Settled
    PROVE  Ordinal(j) \in 1..Len(allTrades)
  <1> DEFINE upTo == {i \in Places : i <= j}
  <1>1. /\ Places \subseteq 1..Len(evaluations) /\ Len(evaluations) \in Nat
        /\ IsFiniteSet(Settled) /\ j \in Places
    BY PlacesAreFinite
  <1>2. upTo \subseteq Settled /\ j \in upTo
    <2>1. stage = "settle" => j < Len(evaluations)
      BY <1>1 DEF Settled
    <2>2. j \in Int /\ \A i \in Places : i \in Int
      BY <1>1
    <2> QED
      BY <1>1, <2>1, <2>2 DEF Settled
  <1>3. Cardinality(upTo) \in Nat /\ Cardinality(upTo) <= Cardinality(Settled)
        /\ Cardinality(upTo) # 0
    <2> HIDE DEF upTo
    <2>1. IsFiniteSet(upTo) /\ Cardinality(upTo) <= Cardinality(Settled)
      BY <1>1, <1>2, FS_Subset
    <2> QED
      BY <1>2, <2>1, FS_CardinalityType, FS_EmptySet
  <1>4. Ordinal(j) = Cardinality(upTo) /\ Cardinality(Settled) = Len(allTrades)
    BY DEF Ordinal, PauseInv
  <1>5. Cardinality(Settled) \in Nat
    BY <1>1, FS_CardinalityType
  <1> HIDE DEF upTo
  <1> QED
    BY <1>3, <1>4, <1>5

(* A streak is a matter of the evaluations up to its end and their trades.  *)
LEMMA StreakStands ==
    ASSUME NEW j, {i \in Places' : i <= j} = {i \in Places : i <= j},
           \A h \in Places : h <= j => (LostAt(h)' <=> LostAt(h))
    PROVE  Streak(j)' = Streak(j) /\ (FillsStreak(j)' <=> FillsStreak(j))
  <1>1. \A i : i \in Places' /\ i <= j <=> i \in Places /\ i <= j
    OBVIOUS
  <1>2. LossRun(j)' = LossRun(j)
    BY <1>1 DEF LossRun
  <1> QED
    BY <1>2 DEF Streak, FillsStreak

LEMMA OrdinalStands ==
    ASSUME NEW j, {i \in Places' : i <= j} = {i \in Places : i <= j}
    PROVE  Ordinal(j)' = Ordinal(j)
  BY DEF Ordinal

(* An evaluation keeps the clock: it counts the pause down, or ends it when *)
(* it has lasted its length.                                               *)
LEMMA ClockTicks ==
    ASSUME BacktestInv, NEW j \in Places, PauseClock(j),
           Streak(j)' = Streak(j), FillsStreak(j)' <=> FillsStreak(j),
           consecutiveLosses' = LossesAfterTick, cooldown' = CooldownAfterTick,
           Len(evaluations') = Len(evaluations) + 1
    PROVE  PauseClock(j)'
  <1>1. /\ Len(evaluations) \in Nat /\ j \in Nat /\ Streak(j) \in Nat
    BY PlacesAreFinite DEF BacktestInv
  <1>2. /\ consecutiveLosses \in Nat /\ cooldown \in Nat
        /\ consecutiveLosses >= MaxConsecutiveLosses <=> cooldown > 0
        /\ MaxConsecutiveLosses \in Nat \ {0}
        /\ CooldownEvaluations \in Nat \ {0}
    BY ConfigAssumption
    DEF BacktestInv, LevelsInv, RiskInv, RiskTypeOK, StreakPauseTimed
  <1>3. Streak(j) % MaxConsecutiveLosses \in 0..(MaxConsecutiveLosses - 1)
    BY <1>1, <1>2, DivStep
  <1>4. CASE FillsStreak(j)
    BY <1>1, <1>2, <1>4 DEF PauseClock, LossesAfterTick, CooldownAfterTick
  <1>5. CASE ~FillsStreak(j)
    <2>1. consecutiveLosses = Streak(j) % MaxConsecutiveLosses /\ cooldown = 0
      BY <1>2, <1>3, <1>5 DEF PauseClock
    <2> QED
      BY <1>5, <2>1 DEF PauseClock, LossesAfterTick
  <1> QED
    BY <1>4, <1>5

LEMMA LatestExists ==
    ASSUME WalkInv, Settled # {}
    PROVE  \E j \in Settled : IsLatest(j)
  <1>1. Settled \subseteq 1..Len(evaluations) /\ Len(evaluations) \in Nat
    BY PlacesAreFinite
  <1>2. PICK j \in Settled : \A i \in Settled : i <= j
    BY <1>1, LastPosition
  <1> QED
    BY <1>2 DEF IsLatest

LEMMA EvaluateKeepsPause ==
    ASSUME BacktestInv, BarInv, PauseInv, Evaluate PROVE PauseInv'
  <1>1. PICK ev, regime, quality, approved :
            Evaluates(ev, regime, quality, approved)
    BY EvaluateEffect
  <1>2. /\ stage = "evaluate" /\ UNCHANGED allTrades /\ WalkInv
        /\ \A i \in DOMAIN evaluations : evaluations[i].approved \in BOOLEAN
    BY EvaluateEffect DEF BacktestInv, BarInv
  <1> DEFINE n == Len(evaluations)
             e == [index |-> index, regime |-> regime, approved |-> approved]
  <1>3. /\ evaluations' = Append(evaluations, e) /\ approved \in BOOLEAN
        /\ e.approved = approved
        /\ consecutiveLosses' = LossesAfterTick
        /\ cooldown' = CooldownAfterTick
        /\ stage' = IF approved THEN "settle" ELSE "evaluate"
    BY <1>1, <1>2 DEF Evaluates, Assess
  <1> HIDE DEF e
  <1>4. /\ n \in Nat /\ DOMAIN evaluations = 1..n /\ Places \subseteq 1..n
        /\ IsFiniteSet(Places) /\ \A j : Streak(j) \in Nat
    BY <1>2, PlacesAreFinite
  <1>5. /\ DOMAIN evaluations' = 1..(n + 1) /\ Len(evaluations') = n + 1
        /\ evaluations'[n + 1] = e
        /\ \A i \in 1..n : evaluations'[i] = evaluations[i]
    <2>1. /\ Len(evaluations') = n + 1 /\ evaluations'[n + 1] = e
          /\ \A i \in 1..n : evaluations'[i] = evaluations[i]
      BY <1>2, <1>3, AppendToRecord DEF WalkInv, RecordsInv
    <2>2. DOMAIN evaluations' = DOMAIN evaluations \cup {n + 1}
      BY <1>2, <1>3, OwnAfter
    <2> QED
      BY <1>4, <2>1, <2>2
  <1>6. Places' = IF approved THEN Places \cup {n + 1} ELSE Places
    BY <1>3, <1>4, <1>5 DEF Places
  <1> HIDE DEF n
  <1>7. Settled = Places /\ Settled' = Places
    BY <1>2, <1>3, <1>4, <1>5, <1>6 DEF Settled
  <1>8. ASSUME NEW j \in Places
        PROVE  /\ {i \in Places' : i <= j} = {i \in Places : i <= j}
               /\ Streak(j)' = Streak(j)
               /\ FillsStreak(j)' <=> FillsStreak(j)
    <2>1. \A k \in Places : {i \in Places' : i <= k} = {i \in Places : i <= k}
      BY <1>4, <1>6
    <2>2. \A h \in Places : LostAt(h)' <=> LostAt(h)
      BY <1>2, <2>1, OrdinalStands DEF LostAt
    <2> QED
      BY <2>1, <2>2, StreakStands
  <1>9. ASSUME NEW j \in Places, IsLatest(j) PROVE PauseClock(j)'
    BY <1>3, <1>5, <1>8, <1>9, ClockTicks DEF PauseInv, n
  <1>10. \A j \in Places' : IsLatest(j)' => j \in Places /\ IsLatest(j)
    BY <1>7 DEF IsLatest
  <1>11. Settled' = {} => consecutiveLosses' = 0
    BY <1>3, <1>7 DEF PauseInv, LossesAfterTick
  <1>12. Cardinality(Settled') = Len(allTrades')
    BY <1>2, <1>7 DEF PauseInv
  <1>13. CASE ~approved
    <2>1. stage' # "settle" /\ Places' = Places
      BY <1>3, <1>6, <1>13
    <2>2. \A j, next \in Places :
              j < next /\ FillsStreak(j)' => next >= j + CooldownEvaluations
      BY <1>8 DEF PauseInv
    <2> QED
      BY <1>9, <1>10, <1>11, <1>12, <2>1, <2>2 DEF PauseInv
  <1>14. CASE approved
    <2>1. consecutiveLosses' < MaxConsecutiveLosses
      <3>1. LossesAfterTick \in Nat /\ MaxConsecutiveLosses \in Nat
        BY ConfigAssumption
        DEF BacktestInv, LevelsInv, RiskInv, RiskTypeOK, LossesAfterTick
      <3>2. "streak" \notin VetoReasons(ForRisk(ev))
        BY <1>1, <1>14 DEF Evaluates, Approves
      <3>3. ~(LossesAfterTick >= MaxConsecutiveLosses)
        BY <3>2 DEF VetoReasons, Vetoes
      <3> QED
        BY <1>3, <3>1, <3>3
    <2>2. ASSUME NEW j \in Places, FillsStreak(j)
          PROVE  n + 1 >= j + CooldownEvaluations
      <3>1. PICK last \in Places : IsLatest(last)
        BY <1>2, <1>7, LatestExists
      <3>2. j <= last /\ last \in Nat /\ j \in Nat /\ last <= n
            /\ CooldownEvaluations \in Nat /\ MaxConsecutiveLosses \in Nat
        BY <1>4, <1>7, <3>1, ConfigAssumption DEF IsLatest
      <3>3. CASE j = last
        <4>1. FillsStreak(last)' /\ PauseClock(last)'
          BY <1>8, <1>9, <2>2, <3>1, <3>3
        <4> QED
          BY <1>4, <1>5, <2>1, <3>2, <3>3, <4>1 DEF PauseClock
      <3>4. CASE j < last
        <4>1. last >= j + CooldownEvaluations
          BY <2>2, <3>4 DEF PauseInv
        <4> QED
          BY <1>4, <3>2, <4>1
      <3> QED
        BY <3>2, <3>3, <3>4
    <2>3. ASSUME NEW j \in Places', NEW next \in Places', j < next,
                 FillsStreak(j)'
          PROVE  next >= j + CooldownEvaluations
      <3>1. j \in Places
        BY <1>4, <1>6, <1>14, <2>3
      <3>2. CASE next \in Places
        BY <1>8, <2>3, <3>1, <3>2 DEF PauseInv
      <3>3. CASE next = n + 1
        BY <1>8, <2>2, <2>3, <3>1, <3>3
      <3> QED
        BY <1>6, <1>14, <3>2, <3>3
    <2>4. Len(evaluations') \in Places'
      BY <1>5, <1>6, <1>14
    <2> QED
      BY <1>9, <1>10, <1>11, <1>12, <2>1, <2>3, <2>4 DEF PauseInv
  <1> QED
    BY <1>3, <1>13, <1>14

(* A loss lengthens the streak of the trade before, a win ends it.          *)
LEMMA SettleExtendsStreak ==
    ASSUME WalkInv, PauseInv, stage = "settle",
           UNCHANGED evaluations, NEW trade, NEW last, last = Len(evaluations),
           Len(allTrades') = Len(allTrades) + 1,
           \A k \in 1..Len(allTrades) : allTrades'[k] = allTrades[k],
           allTrades'[Len(allTrades) + 1] = trade
    PROVE  /\ \A j \in Settled : /\ Streak(j)' = Streak(j)
                                 /\ FillsStreak(j)' <=> FillsStreak(j)
           /\ WasWin(trade) => Streak(last)' = 0
           /\ ~WasWin(trade) =>
                  /\ Settled = {} => Streak(last)' = 1
                  /\ \A j \in Settled : IsLatest(j) =>
                         Streak(last)' = Streak(j) + 1
  <1> DEFINE m == Len(allTrades)
  <1>1. /\ last \in Nat /\ Places \subseteq 1..last /\ IsFiniteSet(Places)
        /\ last \in Places /\ Settled = Places \ {last} /\ Places' = Places
        /\ IsFiniteSet(Settled) /\ \A j : Ordinal(j) \in Nat /\ Streak(j) \in Nat
    BY PlacesAreFinite DEF PauseInv, Settled, Places
  <1>2. m = Cardinality(Settled) /\ m \in Nat
    BY <1>1, FS_CardinalityType DEF PauseInv
  <1>3. \A j : Ordinal(j)' = Ordinal(j)
    BY <1>1, OrdinalStands
  <1>4. Ordinal(last) = m + 1
    <2>1. {i \in Places : i <= last} = Settled \cup {last} /\ last \notin Settled
      <3>1. \A i \in Places : i <= last
        BY <1>1
      <3>2. Places = Settled \cup {last} /\ last \notin Settled
        BY <1>1
      <3> QED
        BY <3>1, <3>2
    <2>2. Cardinality(Settled \cup {last}) = Cardinality(Settled) + 1
      BY <1>1, <2>1, FS_AddElement
    <2> QED
      BY <1>2, <2>1, <2>2 DEF Ordinal
  <1>5. \A h \in Settled : Ordinal(h) \in 1..m
    BY SettledIsRecorded
  <1>6. /\ \A h \in Settled : LostAt(h)' <=> LostAt(h)
        /\ LostAt(last)' <=> ~WasWin(trade)
    BY <1>2, <1>3, <1>4, <1>5 DEF LostAt, WasWin
  <1> HIDE DEF m
  <1>7. ASSUME NEW j \in Settled
        PROVE  Streak(j)' = Streak(j) /\ (FillsStreak(j)' <=> FillsStreak(j))
    <2>1. \A h \in Places : h <= j => h \in Settled
      BY <1>1
    <2> QED
      BY <1>1, <1>6, <2>1, StreakStands
  <1>8. ASSUME WasWin(trade) PROVE Streak(last)' = 0
    <2>1. LossRun(last)' = {}
      BY <1>1, <1>6, <1>8 DEF LossRun
    <2> QED
      BY <2>1, FS_EmptySet DEF Streak
  <1>9. ASSUME ~WasWin(trade), Settled = {} PROVE Streak(last)' = 1
    <2>1. LossRun(last)' = {last}
      <3>1. Places' = {last}
        BY <1>1, <1>9
      <3>2. last <= last /\ LostAt(last)'
        BY <1>1, <1>6, <1>9
      <3> QED
        BY <3>1, <3>2 DEF LossRun
    <2> QED
      BY <2>1, FS_Singleton DEF Streak
  <1>10. ASSUME ~WasWin(trade), NEW j \in Settled, IsLatest(j)
         PROVE  Streak(last)' = Streak(j) + 1
    <2>1. /\ j \in 1..last /\ j < last /\ \A h \in Settled : h <= j
      BY <1>1, <1>10 DEF IsLatest
    <2>2. ASSUME NEW i
          PROVE  i \in LossRun(last)' <=> i \in LossRun(j) \cup {last}
      <3>1. CASE i = last
        <4>1. \A h \in Places : last <= h /\ h <= last => h = last
          BY <1>1
        <4> QED
          BY <1>1, <1>6, <1>10, <3>1, <4>1 DEF LossRun
      <3>2. CASE i \in Settled
        <4>1. i <= last /\ i <= j /\ i # last /\ i \in Places
          <5>1. i \in Places /\ i # last
            BY <1>1, <3>2
          <5>2. i <= last
            BY <1>1, <5>1
          <5> QED
            BY <2>1, <3>2, <5>1, <5>2
        <4>2. i \in LossRun(last)' <=>
                  \A h \in Places : i <= h /\ h <= last => LostAt(h)'
          BY <1>1, <4>1 DEF LossRun
        <4>3. i \in LossRun(j) <=>
                  \A h \in Places : i <= h /\ h <= j => LostAt(h)
          BY <4>1 DEF LossRun
        <4>4. \A h \in Places : h <= last /\ (h <= j <=> h # last)
          BY <1>1, <2>1
        <4>5. \A h \in Places : h # last => (LostAt(h)' <=> LostAt(h))
          BY <1>1, <1>6
        <4>6. LostAt(last)'
          BY <1>6, <1>10
        <4> QED
          BY <4>1, <4>2, <4>3, <4>4, <4>5, <4>6
      <3>3. CASE i \notin Places
        BY <1>1, <3>3 DEF LossRun
      <3> QED
        BY <1>1, <3>1, <3>2, <3>3
    <2>3. LossRun(last)' = LossRun(j) \cup {last} /\ last \notin LossRun(j)
      <3>1. last \notin LossRun(j)
        BY <1>1, <2>1 DEF LossRun
      <3> QED
        BY <2>2, <3>1
    <2>4. IsFiniteSet(LossRun(j))
      BY <1>1, FS_Subset DEF LossRun
    <2>5. Cardinality(LossRun(j) \cup {last}) = Cardinality(LossRun(j)) + 1
      BY <2>3, <2>4, FS_AddElement
    <2> QED
      BY <2>3, <2>5 DEF Streak
  <1> QED
    BY <1>7, <1>8, <1>9, <1>10

LEMMA SettleKeepsPause ==
    ASSUME BacktestInv, KindsInv, PauseInv, Settle PROVE PauseInv'
  <1>0. PICK last : last = Len(evaluations)
    OBVIOUS
  <1> DEFINE m == Len(allTrades)
             trade == [epoch |-> index, stake |-> assessment.stake,
                       pnl |-> SettledPnl, p |-> opportunity.ev.p]
  <1>1. /\ stage = "settle" /\ stage' = "evaluate" /\ UNCHANGED evaluations
        /\ RecordTradeResult(index, SettledPnl) /\ WalkInv
        /\ allTrades' = Append(allTrades, trade)
    BY DEF Settle, EpochOf, BacktestInv
  <1>2. trade \in AnalyzedTrade /\ allTrades \in Seq(AnalyzedTrade)
    BY SettledPnlType DEF BacktestInv, AnalyzedTrade, KindsInv
  <1>3. trade.pnl = SettledPnl /\ SettledPnl \in Int
    BY SettledPnlType DEF BacktestInv
  <1> HIDE DEF trade
  <1>4. /\ m \in Nat /\ Len(allTrades') = m + 1
        /\ \A k \in 1..m : allTrades'[k] = allTrades[k]
        /\ allTrades'[m + 1] = trade
    BY <1>1, <1>2, AppendProperties, LenProperties
  <1>5. /\ last \in Nat /\ Places \subseteq 1..last /\ IsFiniteSet(Places)
        /\ last \in Places /\ Settled = Places \ {last} /\ Places' = Places
        /\ Settled' = Places
        /\ IsFiniteSet(Settled) /\ \A j : Streak(j) \in Nat
    BY <1>0, <1>1, PlacesAreFinite DEF PauseInv, Settled, Places
  <1>6. /\ \A j \in Settled : /\ Streak(j)' = Streak(j)
                              /\ FillsStreak(j)' <=> FillsStreak(j)
        /\ WasWin(trade) => Streak(last)' = 0
        /\ ~WasWin(trade) =>
               /\ Settled = {} => Streak(last)' = 1
               /\ \A j \in Settled : IsLatest(j) => Streak(last)' = Streak(j) + 1
    BY <1>0, <1>1, <1>4, SettleExtendsStreak
  <1>7. /\ consecutiveLosses \in Nat /\ cooldown \in Nat
        /\ consecutiveLosses >= MaxConsecutiveLosses <=> cooldown > 0
        /\ MaxConsecutiveLosses \in Nat \ {0}
        /\ CooldownEvaluations \in Nat \ {0}
    BY ConfigAssumption
    DEF BacktestInv, LevelsInv, RiskInv, RiskTypeOK, StreakPauseTimed
  <1>8. consecutiveLosses < MaxConsecutiveLosses /\ cooldown = 0
    BY <1>1, <1>7 DEF PauseInv
  <1>9. /\ WasWin(trade) => consecutiveLosses' = 0 /\ cooldown' = 0
        /\ ~WasWin(trade) =>
               /\ consecutiveLosses' = consecutiveLosses + 1
               /\ cooldown' = IF consecutiveLosses + 1 >= MaxConsecutiveLosses
                              THEN CooldownEvaluations ELSE cooldown
    BY <1>1, <1>3 DEF RecordTradeResult, WasWin
  <1> HIDE DEF m
  <1>10. \E s \in Nat : /\ consecutiveLosses = s % MaxConsecutiveLosses
                        /\ ~WasWin(trade) => Streak(last)' = s + 1
    <2>1. CASE Settled = {}
      <3>1. consecutiveLosses = 0 /\ 0 % MaxConsecutiveLosses = 0
        BY <1>7, <2>1 DEF PauseInv
      <3> QED
        BY <1>6, <2>1, <3>1
    <2>2. CASE Settled # {}
      <3>1. PICK j \in Settled : IsLatest(j)
        BY <1>1, <2>2, LatestExists
      <3>2. PauseClock(j)
        BY <1>5, <3>1 DEF PauseInv
      <3>3. consecutiveLosses = Streak(j) % MaxConsecutiveLosses
        BY <1>7, <1>8, <3>2 DEF PauseClock, FillsStreak
      <3> QED
        BY <1>5, <1>6, <3>1, <3>3
    <2> QED
      BY <2>1, <2>2
  <1>11. PauseClock(last)'
    <2>1. CASE WasWin(trade)
      <3>1. Streak(last)' = 0 /\ consecutiveLosses' = 0
            /\ 0 % MaxConsecutiveLosses = 0
        BY <1>6, <1>7, <1>9, <2>1
      <3> QED
        BY <3>1 DEF PauseClock, FillsStreak
    <2>2. CASE ~WasWin(trade)
      <3>1. PICK s \in Nat : /\ consecutiveLosses = s % MaxConsecutiveLosses
                             /\ Streak(last)' = s + 1
        BY <1>10, <2>2
      <3>2. consecutiveLosses' = consecutiveLosses + 1
        BY <1>9, <2>2
      <3>3. CASE consecutiveLosses = MaxConsecutiveLosses - 1
        <4>1. (s + 1) % MaxConsecutiveLosses = 0
          BY <1>7, <3>1, <3>3, DivStep
        <4>2. /\ consecutiveLosses' = MaxConsecutiveLosses
              /\ cooldown' = CooldownEvaluations
          BY <1>7, <1>9, <2>2, <3>3
        <4>3. CooldownEvaluations = CooldownEvaluations - (last - last)
          BY <1>5, <1>7
        <4>4. Len(evaluations') = last
          BY <1>0, <1>1
        <4> QED
          BY <3>1, <4>1, <4>2, <4>3, <4>4 DEF PauseClock, FillsStreak
      <3>4. CASE consecutiveLosses # MaxConsecutiveLosses - 1
        <4>1. (s + 1) % MaxConsecutiveLosses = consecutiveLosses + 1
          BY <1>7, <3>1, <3>4, DivStep
        <4>2. consecutiveLosses + 1 # 0
          BY <1>7
        <4> QED
          BY <3>1, <3>2, <4>1, <4>2 DEF PauseClock, FillsStreak
      <3> QED
        BY <3>3, <3>4
    <2> QED
      BY <2>1, <2>2
  <1>12. \A j \in Places' : IsLatest(j)' => j = last
    BY <1>5 DEF IsLatest
  <1>13. Cardinality(Settled') = Len(allTrades')
    <2>1. Cardinality(Places) = Cardinality(Settled) + 1
      <3>1. Places = Settled \cup {last} /\ last \notin Settled
        BY <1>5
      <3> QED
        BY <1>5, <3>1, FS_AddElement
    <2> QED
      BY <1>4, <1>5, <2>1 DEF PauseInv, m
  <1>14. ASSUME NEW j \in Places', NEW next \in Places', j < next,
                FillsStreak(j)'
         PROVE  next >= j + CooldownEvaluations
    <2>1. j \in Settled
      BY <1>5, <1>14
    <2> QED
      BY <1>5, <1>6, <1>14, <2>1 DEF PauseInv
  <1>15. Settled' # {}
    BY <1>5
  <1> QED
    BY <1>1, <1>11, <1>12, <1>13, <1>14, <1>15 DEF PauseInv

LEMMA PauseInvInit == Init => PauseInv
  <1> SUFFICES ASSUME Init PROVE PauseInv
    OBVIOUS
  <1>1. /\ Places = {} /\ Settled = {} /\ stage = "idle"
        /\ consecutiveLosses = 0 /\ Len(allTrades) = 0
    BY DEF Init, RiskInit, Places, Settled
  <1> QED
    BY <1>1, FS_EmptySet DEF PauseInv

LEMMA PauseInvStep ==
    BacktestInv /\ KindsInv /\ BarInv /\ PauseInv /\ [Next]_vars => PauseInv'
  <1> SUFFICES ASSUME BacktestInv, KindsInv, BarInv, PauseInv, [Next]_vars
               PROVE  PauseInv'
    OBVIOUS
  <1>1. CASE Evaluate
    BY <1>1, EvaluateKeepsPause
  <1>2. CASE Settle
    BY <1>2, SettleKeepsPause
  <1>3. CASE /\ UNCHANGED <<evaluations, allTrades, consecutiveLosses, cooldown>>
             /\ (stage = "settle" <=> stage' = "settle")
    <2>1. Places' = Places /\ Settled' = Settled
      BY <1>3 DEF Places, Settled
    <2>2. \A j : Ordinal(j)' = Ordinal(j)
      BY <2>1 DEF Ordinal
    <2>3. \A j : LostAt(j)' <=> LostAt(j)
      BY <1>3, <2>2 DEF LostAt
    <2>4. \A j : Streak(j)' = Streak(j)
      BY <2>1, <2>3 DEF Streak, LossRun
    <2>5. \A j : /\ FillsStreak(j)' <=> FillsStreak(j)
                 /\ IsLatest(j)' <=> IsLatest(j)
      BY <2>1, <2>4 DEF FillsStreak, IsLatest
    <2>6. \A j : PauseClock(j)' <=> PauseClock(j)
      BY <1>3, <2>4, <2>5 DEF PauseClock
    <2> QED
      BY <1>3, <2>1, <2>5, <2>6 DEF PauseInv
  <1>4. \/ Evaluate \/ Settle
        \/ /\ UNCHANGED <<evaluations, allTrades, consecutiveLosses, cooldown>>
           /\ (stage = "settle" <=> stage' = "settle")
    BY DEF Next, Returned, StartRun, FitWindow, CloseWindow, Report,
           StressRun, recordVars, riskVars, vars
  <1> QED
    BY <1>1, <1>2, <1>3, <1>4

(* Whatever the candles and the models, the record shows a pause after each *)
(* full losing streak: the next trade comes at the earliest as many        *)
(* evaluations later as the pause is long, whatever windows lie between.   *)
THEOREM PausesShowInRecord == Spec => []PauseShowsInRecord
  <1>1. PauseInv => PauseShowsInRecord
    <2> SUFFICES ASSUME PauseInv PROVE PauseShowsInRecord
      OBVIOUS
    <2>1. \A j, next \in Places :
              j < next /\ FillsStreak(j) => next >= j + CooldownEvaluations
      BY DEF PauseInv
    <2> QED
      BY <2>1
      DEF PauseShowsInRecord, Places, Ordinal, LostAt, LossRun, Streak, FillsStreak
  <1> QED
    BY <1>1, BacktestInvariant, KindsInvInit, KindsInvStep, BarInvInit,
       BarInvStep, PauseInvInit, PauseInvStep, PTL DEF Spec

-----------------------------------------------------------------------------
(* The stress tester.                                                       *)

(* One result on a curve.                                                   *)
StressStep(curve, pnl) ==
    LET final == curve.final + pnl
        peak == AtLeast(curve.peak, final)
    IN  [final |-> final, peak |-> peak,
         ruined |-> curve.ruined \/ final <= 0,
         maxDrawdownPct |->
            AtLeast(curve.maxDrawdownPct, ((peak - final) * Scale) \div peak)]

StressStart ==
    [final |-> StartingCapital, peak |-> StartingCapital,
     ruined |-> FALSE, maxDrawdownPct |-> 0]

StressCurve ==
    {c \in [final: Int, peak: Nat \ {0}, ruined: BOOLEAN, maxDrawdownPct: Int] :
        c.ruined <=> c.maxDrawdownPct >= Scale}

LEMMA StressStepKeeps ==
    ASSUME NEW c \in StressCurve, NEW pnl \in Int
    PROVE  StressStep(c, pnl) \in StressCurve
  <1>1. PICK e \in Int : e = c.final + pnl
    BY DEF StressCurve
  <1>2. PICK p \in Nat \ {0} : p = AtLeast(c.peak, e)
    BY <1>1 DEF StressCurve, AtLeast
  <1>3. PICK d \in Int : d = ((p - e) * Scale) \div p
    BY ScaleAssumption
  <1>4. d >= Scale <=> e <= 0
    <2>1. d >= Scale <=> (p - e) * Scale >= p * Scale
      <3>1. PICK x \in Int : x = (p - e) * Scale
        BY ScaleAssumption
      <3>2. d * p <= x /\ x < d * p + p /\ d = x \div p
        BY <1>3, <3>1
      <3>3. CASE d >= Scale
        <4>1. Scale * p <= d * p
          BY <3>3, ScaleAssumption
        <4>2. Scale * p = p * Scale /\ d * p \in Int /\ Scale * p \in Int
          BY ScaleAssumption
        <4> QED
          BY <3>1, <3>2, <3>3, <4>1, <4>2
      <3>4. CASE ~(d >= Scale)
        <4>1. d + 1 <= Scale
          BY <3>4, ScaleAssumption
        <4>2. (d + 1) * p <= Scale * p
          BY <4>1, ScaleAssumption
        <4>3. /\ (d + 1) * p = d * p + p /\ Scale * p = p * Scale
              /\ d * p \in Int /\ Scale * p \in Int
          BY ScaleAssumption
        <4>4. x < p * Scale
          BY <3>2, <4>2, <4>3
        <4> QED
          BY <3>1, <3>4, <4>3, <4>4
      <3> QED
        BY <3>3, <3>4
    <2>2. (p - e) * Scale = p * Scale - e * Scale /\ e * Scale \in Int /\ p * Scale \in Int
      BY ScaleAssumption
    <2>3. e * Scale <= 0 <=> e <= 0
      <3>1. CASE e <= 0
        BY <3>1, ScaleAssumption
      <3>2. CASE e >= 1
        BY <3>2, ScaleAssumption
      <3> QED
        BY <3>1, <3>2
    <2> QED
      BY <2>1, <2>2, <2>3
  <1>5. PICK m \in Int : m = AtLeast(c.maxDrawdownPct, d)
    BY DEF StressCurve, AtLeast
  <1>6. PICK r \in BOOLEAN : r = (c.ruined \/ e <= 0)
    OBVIOUS
  <1>7. r <=> m >= Scale
    <2>1. m >= Scale <=> c.maxDrawdownPct >= Scale \/ d >= Scale
      BY <1>5, ScaleAssumption DEF AtLeast, StressCurve
    <2>2. c.ruined <=> c.maxDrawdownPct >= Scale
      BY DEF StressCurve
    <2> QED
      BY <1>4, <1>6, <2>1, <2>2
  <1>8. StressStep(c, pnl)
          = [final |-> e, peak |-> p, ruined |-> r, maxDrawdownPct |-> m]
    BY <1>1, <1>2, <1>3, <1>5, <1>6 DEF StressStep
  <1> QED
    BY <1>7, <1>8 DEF StressCurve

LEMMA StressedIsCurve ==
    ASSUME NEW path \in Seq(Int)
    PROVE  Stressed(path) \in StressCurve
  <1>1. PICK n \in Nat : /\ n = Len(path) /\ DOMAIN path = 1..n
                         /\ \A k \in 1..n : path[k] \in Int
    BY LenProperties, ElementOfSeq
  <1> DEFINE g == [kc \in (1..n) \X StressCurve |-> StressStep(kc[2], path[kc[1]])]
             Is(it) == it = [s \in SUBSET (1..n) |->
                 IF s = {} THEN StressStart
                 ELSE StressStep(it[s \ {Max(s)}], path[Max(s)])]
             chosen == CHOOSE it : Is(it)
  <1>2. StressStart \in StressCurve
    BY CapitalAssumption, ScaleAssumption DEF StressStart, StressCurve
  <1>3. \A c \in StressCurve, k \in 1..n : StressStep(c, path[k]) \in StressCurve
    BY <1>1, StressStepKeeps
  <1>4. /\ g \in [(1..n) \X StressCurve -> StressCurve]
        /\ \A k \in 1..n, c \in StressCurve : g[<<k, c>>] = StressStep(c, path[k])
    BY <1>3
  <1>5. PICK st \in [0..n -> StressCurve] :
            AreStates(st, g, StressStart, StressCurve, n)
    <2> HIDE DEF g
    <2> QED
      BY <1>2, <1>4, StatesOfFold
  <1>6. \A s \in SUBSET (1..n) :
            s # {} => Max(s) \in 1..n /\ s \ {Max(s)} \in SUBSET (1..n)
    BY MaxIsElement
  <1>7. \E it : Is(it)
    <2>1. PICK it : /\ Solution(it, g, StressStart, n)
                    /\ \A s \in SUBSET (1..n) : it[s] \in StressCurve
      <3> HIDE DEF g
      <3> QED
        BY <1>5 DEF AreStates
    <2> HIDE DEF g
    <2>2. it = [s \in SUBSET (1..n) |->
                   IF s = {} THEN StressStart ELSE g[<<Max(s), it[s \ {Max(s)}]>>]]
      BY <2>1 DEF Solution
    <2>3. \A s \in SUBSET (1..n) :
              it[s] = IF s = {} THEN StressStart
                      ELSE StressStep(it[s \ {Max(s)}], path[Max(s)])
      BY <1>4, <1>6, <2>1, <2>2
    <2>4. Is(it)
      BY <2>2, <2>3
    <2> QED
      BY <2>4
  <1>8. Is(chosen)
    <2> HIDE DEF Is
    <2> QED
      BY <1>7
  <1>9. Stressed(path) = chosen[1..n]
    BY <1>1 DEF Stressed, FoldLeft, MapThenFoldSet, StressStep, StressStart
  <1>10. Follows(chosen, g, StressStart, StressCurve, n)
    <2> HIDE DEF chosen, g
    <2>1. \A s \in SUBSET (1..n) :
              chosen[s] = IF s = {} THEN StressStart
                          ELSE StressStep(chosen[s \ {Max(s)}], path[Max(s)])
      BY <1>8
    <2> QED
      BY <1>4, <1>6, <2>1 DEF Follows
  <1> HIDE DEF chosen, g
  <1> QED
    BY <1>5, <1>9, <1>10 DEF AreStates

(* A replay has a block for each of its places.                             *)
LEMMA BlockOfPlace ==
    ASSUME NEW n \in Nat \ {0}, NEW size \in Nat \ {0}, NEW at \in 1..n
    PROVE  /\ BlockCount(n, size) \in Nat
           /\ 1 + ((at - 1) \div size) \in 1..BlockCount(n, size)
           /\ (at - 1) % size \in Nat
  <1>1. PICK q, r, b \in Int :
            /\ q = (at - 1) \div size /\ r = (at - 1) % size
            /\ b = (n + size - 1) \div size
    OBVIOUS
  <1>2. /\ at - 1 = q * size + r /\ r \in 0..(size - 1)
        /\ n + size - 1 < b * size + size
    BY <1>1
  <1>3. q >= 0
    <2> SUFFICES ASSUME q <= -1 PROVE FALSE
      OBVIOUS
    <2>1. q * size <= -size
      <3>1. PICK d \in Nat : q = -1 - d
        <4>1. -1 - q \in Nat /\ q = -1 - (-1 - q)
          OBVIOUS
        <4> QED
          BY <4>1
      <3>2. (-1 - d) * size = -size - d * size /\ d * size \in Nat
        OBVIOUS
      <3> QED
        BY <3>1, <3>2
    <2>2. q * size \in Int
      OBVIOUS
    <2> QED
      BY <1>2, <2>1, <2>2
  <1>4. q + 1 <= b
    <2> SUFFICES ASSUME b <= q PROVE FALSE
      OBVIOUS
    <2>1. b * size <= q * size
      <3>1. PICK d \in Nat : q = b + d
        <4>1. q - b \in Nat /\ q = b + (q - b)
          OBVIOUS
        <4> QED
          BY <4>1
      <3>2. (b + d) * size = b * size + d * size /\ d * size \in Nat /\ b * size \in Int
        OBVIOUS
      <3> QED
        BY <3>1, <3>2
    <2>2. q * size \in Int /\ b * size \in Int
      OBVIOUS
    <2> QED
      BY <1>2, <2>1, <2>2
  <1> QED
    BY <1>1, <1>2, <1>3, <1>4 DEF BlockCount

(* Every place of a replay is filled from every place of the series by      *)
(* equally many draws.                                                     *)
LEMMA DrawsAreEven ==
    ASSUME NEW n \in Nat \ {0}, NEW size \in Nat \ {0},
           NEW at \in 1..n, NEW place \in 1..n
    PROVE  n * Cardinality({starts \in Starts(n, size) :
                               PathIndices(n, size, starts)[at] = place})
             = Cardinality(Starts(n, size))
  <1>1. PICK block, r, count \in Nat :
            /\ count = BlockCount(n, size) /\ block \in 1..count
            /\ block = 1 + ((at - 1) \div size) /\ r = (at - 1) % size
    BY BlockOfPlace
  <1>2. PICK round : round = [v \in 0..(n - 1) |-> 1 + ((v + r) % n)]
    OBVIOUS
  <1>3. /\ round \in [0..(n - 1) -> 1..n]
        /\ \A v, w \in 0..(n - 1) : round[v] = round[w] => v = w
        /\ \A p \in 1..n : \E v \in 0..(n - 1) : round[v] = p
    <2>1. round \in Bijection(0..(n - 1), 1..n)
      BY <1>2, RoundIsBijection
    <2> QED
      BY <2>1 DEF Bijection, Injection, IsInjective, Surjection
  <1>4. PICK all : all = [1..count -> 0..(n - 1)]
    OBVIOUS
  <1>5. Starts(n, size) = all /\ IsFiniteSet(all)
    <2>1. IsFiniteSet(0..(n - 1))
      BY FS_Interval
    <2> QED
      BY <1>1, <1>4, <2>1, ListsAreFinite DEF Starts
  <1>6. PICK h : h = [starts \in all |-> round[starts[block]]]
    OBVIOUS
  <1>7. h \in [all -> 1..n]
    BY <1>1, <1>3, <1>4, <1>6
  <1>8. \A starts \in all : PathIndices(n, size, starts)[at] = h[starts]
    BY <1>1, <1>2, <1>4, <1>6 DEF PathIndices
  <1> DEFINE Part(p) == {starts \in all : h[starts] = p}
  <1>9. \A p \in 1..n : IsFiniteSet(Part(p)) /\ Cardinality(Part(p)) \in Nat
    BY <1>5, FS_Subset, FS_CardinalityType
  <1>10. ASSUME NEW p \in 1..n, NEW q \in 1..n
         PROVE  Cardinality(Part(p)) = Cardinality(Part(q))
    <2>1. PICK v \in 0..(n - 1), w \in 0..(n - 1) : round[v] = p /\ round[w] = q
      BY <1>3
    <2>2. \A starts \in all :
              /\ starts \in Part(p) <=> starts[block] = v
              /\ starts \in Part(q) <=> starts[block] = w
      BY <1>1, <1>3, <1>4, <1>6, <2>1
    <2>3. PICK swap : swap = [starts \in Part(p) |-> [starts EXCEPT ![block] = w]]
      OBVIOUS
    <2>4. swap \in Bijection(Part(p), Part(q))
      <3>1. ASSUME NEW starts \in Part(p)
            PROVE  swap[starts] \in Part(q)
        <4>1. starts \in all /\ starts[block] = v
          BY <2>2
        <4>2. swap[starts] = [starts EXCEPT ![block] = w]
          BY <2>3
        <4>3. swap[starts] \in all /\ swap[starts][block] = w
          BY <1>1, <1>4, <4>1, <4>2
        <4> QED
          BY <2>2, <4>3
      <3>2. ASSUME NEW s \in Part(p), NEW t \in Part(p), swap[s] = swap[t]
            PROVE  s = t
        <4>1. s \in all /\ t \in all /\ s[block] = t[block]
          BY <2>2
        <4>2. \A i \in 1..count : i # block => s[i] = swap[s][i] /\ t[i] = swap[t][i]
          BY <1>4, <2>3, <4>1
        <4>3. \A i \in 1..count : s[i] = t[i]
          BY <3>2, <4>1, <4>2
        <4> QED
          BY <1>4, <4>1, <4>3
      <3>3. ASSUME NEW t \in Part(q)
            PROVE  \E s \in Part(p) : swap[s] = t
        <4>1. t \in all /\ t[block] = w
          BY <2>2
        <4>2. PICK s : s = [t EXCEPT ![block] = v]
          OBVIOUS
        <4>3. s \in all /\ s[block] = v
          BY <1>1, <1>4, <4>1, <4>2
        <4>4. s \in Part(p)
          BY <2>2, <4>3
        <4>5. swap[s] = [s EXCEPT ![block] = w]
          BY <2>3, <4>4
        <4>6. [s EXCEPT ![block] = w] = t
          BY <1>1, <1>4, <4>1, <4>2
        <4> QED
          BY <4>4, <4>5, <4>6
      <3>4. swap \in [Part(p) -> Part(q)]
        <4> HIDE DEF Part
        <4> QED
          BY <2>3, <3>1
      <3> HIDE DEF Part
      <3> QED
        BY <3>2, <3>3, <3>4 DEF Bijection, Injection, IsInjective, Surjection
    <2> HIDE DEF Part
    <2> QED
      BY <1>9, <2>4, FS_Bijection DEF ExistsBijection
  <1>11. PICK c \in Nat : c = Cardinality(Part(place))
    BY <1>9
  <1>12. \A p \in 1..n : Cardinality({starts \in all : h[starts] = p}) = c
    BY <1>10, <1>11
  <1>13. Cardinality(all) = n * c
    BY <1>5, <1>7, <1>12, EqualParts
  <1>14. {starts \in Starts(n, size) : PathIndices(n, size, starts)[at] = place}
           = Part(place)
    BY <1>5, <1>8
  <1> QED
    BY <1>5, <1>11, <1>13, <1>14

(* Within a block the next place of a replay is filled from the next place  *)
(* of the series, the first coming after the last.                         *)
LEMMA BlocksKeepNeighbors ==
    ASSUME NEW n \in Nat \ {0}, NEW size \in Nat \ {0},
           NEW starts \in Starts(n, size), NEW at \in 1..(n - 1),
           at % size # 0
    PROVE  PathIndices(n, size, starts)[at + 1]
             = 1 + (PathIndices(n, size, starts)[at] % n)
  <1>1. PICK q \in Int, r \in 0..(size - 1) :
            /\ q = (at - 1) \div size /\ r = (at - 1) % size
            /\ at - 1 = q * size + r
    <2>1. /\ (at - 1) \div size \in Int /\ (at - 1) % size \in 0..(size - 1)
          /\ at - 1 = ((at - 1) \div size) * size + ((at - 1) % size)
      OBVIOUS
    <2> QED
      BY <2>1
  <1>2. at \div size = q /\ at % size = r + 1
    <2>1. PICK p \in Int, e \in 0..(size - 1) :
              /\ p = at \div size /\ e = at % size /\ at = p * size + e
      <3>1. /\ at \div size \in Int /\ at % size \in 0..(size - 1)
            /\ at = (at \div size) * size + (at % size)
        OBVIOUS
      <3> QED
        BY <3>1
    <2>2. PICK a, b \in Int : a = p * size /\ b = q * size
      OBVIOUS
    <2>3. a + e = b + r + 1 /\ e >= 1
      BY <1>1, <2>1, <2>2
    <2>4. (p - q) * size = a - b
      BY <2>2
    <2>5. p - q = 0
      <3>1. -size < a - b /\ a - b < size
        BY <2>3
      <3>2. /\ p - q \in Int /\ -size < (p - q) * size
            /\ (p - q) * size < size
        BY <2>4, <3>1
      <3> QED
        BY <3>2, SmallMultiple
    <2>6. p = q /\ a = b
      BY <2>2, <2>5
    <2> QED
      BY <2>1, <2>3, <2>6
  <1>3. PICK v \in 0..(n - 1) : v = starts[1 + q]
    <2>1. at \in 1..n
      OBVIOUS
    <2>2. 1 + q \in 1..BlockCount(n, size)
      BY <1>1, <2>1, BlockOfPlace
    <2> QED
      BY <2>2 DEF Starts
  <1>4. /\ PathIndices(n, size, starts)[at] = 1 + ((v + r) % n)
        /\ PathIndices(n, size, starts)[at + 1] = 1 + ((v + (r + 1)) % n)
    <2>1. at \in 1..n /\ at + 1 \in 1..n /\ (at + 1) - 1 = at
      OBVIOUS
    <2> QED
      BY <1>1, <1>2, <1>3, <2>1 DEF PathIndices
  <1>5. PICK x \in Nat : x = v + r /\ x + 1 = v + (r + 1)
    OBVIOUS
  <1>6. (x + 1) % n = (1 + (x % n)) % n
    <2>1. PICK p \in Int, e \in 0..(n - 1) : x = p * n + e /\ e = x % n
      <3>1. x \div n \in Int /\ x % n \in 0..(n - 1) /\ x = (x \div n) * n + (x % n)
        OBVIOUS
      <3> QED
        BY <3>1
    <2>2. PICK y, z \in Int, u, t \in 0..(n - 1) :
              /\ x + 1 = y * n + u /\ u = (x + 1) % n
              /\ 1 + e = z * n + t /\ t = (1 + e) % n
      <3>1. /\ (x + 1) \div n \in Int /\ (x + 1) % n \in 0..(n - 1)
            /\ x + 1 = ((x + 1) \div n) * n + ((x + 1) % n)
        OBVIOUS
      <3>2. /\ (1 + e) \div n \in Int /\ (1 + e) % n \in 0..(n - 1)
            /\ 1 + e = ((1 + e) \div n) * n + ((1 + e) % n)
        OBVIOUS
      <3> QED
        BY <3>1, <3>2
    <2>3. PICK a, b, c \in Int : a = p * n /\ b = y * n /\ c = z * n
      OBVIOUS
    <2>4. x = a + e /\ x + 1 = b + u /\ 1 + e = c + t
      BY <2>1, <2>2, <2>3
    <2>5. (y - (p + z)) * n = b - (a + c)
      BY <2>3
    <2>6. y - (p + z) = 0
      <3>1. -n < b - (a + c) /\ b - (a + c) < n
        BY <2>4
      <3>2. /\ y - (p + z) \in Int /\ -n < (y - (p + z)) * n
            /\ (y - (p + z)) * n < n
        BY <2>5, <3>1
      <3> QED
        BY <3>2, SmallMultiple
    <2>7. b - (a + c) = 0
      BY <2>5, <2>6
    <2>8. u = t
      BY <2>4, <2>7
    <2> QED
      BY <2>1, <2>2, <2>8
  <1> QED
    BY <1>4, <1>5, <1>6

(* What a stress test leaves is a replay of the caller's series.            *)
StressInv ==
    stage = "stressed" =>
        \E series \in Series, size \in BlockSizes :
            /\ Replayable(series, size)
            /\ \E starts \in Starts(Len(series), size) :
                   stressed = [series |-> series, size |-> size,
                               path |-> Replay(series, size, starts)]

LEMMA StressInvStep == StressInv /\ [Next]_vars => StressInv'
  <1> SUFFICES ASSUME StressInv, [Next]_vars, stage' = "stressed"
               PROVE  StressInv'
    BY DEF StressInv
  <1>1. CASE UNCHANGED vars
    BY <1>1 DEF StressInv, vars
  <1>2. CASE StressRun
    BY <1>2 DEF StressInv, StressRun
  <1>3. CASE Returned
    BY <1>3 DEF StressInv, Returned, vars
  <1>4. CASE StartRun \/ FitWindow \/ Evaluate \/ Settle \/ CloseWindow \/ Report
    BY <1>4 DEF StartRun, FitWindow, Evaluate, Settle, CloseWindow, Report
  <1> QED
    BY <1>1, <1>2, <1>3, <1>4 DEF Next

(* A stress test replays fairly, for every series and length of blocks:     *)
(* each draw is as likely, so each trade is in each place, blocks keep the *)
(* series' order, and only a drawdown of the whole peak ruins.             *)
THEOREM ReplaysAreFair == Spec => []StressUnbiased
  <1>1. Init => StressInv
    BY DEF Init, StressInv
  <1>2. StressInv => StressUnbiased
    <2> SUFFICES ASSUME StressInv, stage = "stressed"
                 PROVE  StressUnbiased
      BY DEF StressUnbiased
    <2>1. PICK series \in Series, size \in BlockSizes :
              /\ Replayable(series, size)
              /\ \E starts \in Starts(Len(series), size) :
                     stressed = [series |-> series, size |-> size,
                                 path |-> Replay(series, size, starts)]
      BY DEF StressInv
    <2>2. PICK drawn \in Starts(Len(series), size) :
              stressed = [series |-> series, size |-> size,
                          path |-> Replay(series, size, drawn)]
      BY <2>1
    <2>3. PICK n \in Nat \ {0} : n = Len(series)
      BY <2>1, BacktestAssumption DEF Replayable
    <2>4. size \in Nat \ {0} /\ series \in Seq(Int) /\ DOMAIN series = 1..n
      BY <2>3, BacktestAssumption
    <2> DEFINE paths == [starts \in Starts(n, size) |->
                            PathIndices(n, size, starts)]
    <2>5. ASSUME NEW at \in 1..n, NEW place \in 1..n
          PROVE  n * Cardinality({starts \in DOMAIN paths :
                                     paths[starts][at] = place})
                   = Cardinality(DOMAIN paths)
      <3>1. DOMAIN paths = Starts(n, size)
        OBVIOUS
      <3>2. {starts \in DOMAIN paths : paths[starts][at] = place}
              = {starts \in Starts(n, size) :
                    PathIndices(n, size, starts)[at] = place}
        OBVIOUS
      <3>3. n * Cardinality({starts \in Starts(n, size) :
                                PathIndices(n, size, starts)[at] = place})
              = Cardinality(Starts(n, size))
        <4> HIDE DEF paths
        <4> QED
          BY <2>4, DrawsAreEven
      <3> HIDE DEF paths
      <3> QED
        BY <3>1, <3>2, <3>3, Zenon
    <2>6. ASSUME NEW starts \in DOMAIN paths, NEW at \in 1..(n - 1),
                 at % size # 0
          PROVE  paths[starts][at + 1] = 1 + (paths[starts][at] % n)
      <3>1. /\ starts \in Starts(n, size)
            /\ paths[starts] = PathIndices(n, size, starts)
        OBVIOUS
      <3> HIDE DEF paths
      <3> QED
        BY <2>4, <2>6, <3>1, BlocksKeepNeighbors
    <2>7. stressed.path \in Seq(Int)
      <3>1. stressed.path = [at \in 1..n |->
                                series[PathIndices(n, size, drawn)[at]]]
        BY <2>2, <2>3, <2>4 DEF Replay
      <3>2. ASSUME NEW at \in 1..n
            PROVE  PathIndices(n, size, drawn)[at] \in 1..n
        <4>1. PICK x \in Int :
                  PathIndices(n, size, drawn)[at] = 1 + (x % n)
          <5>1. /\ 1 + ((at - 1) \div size) \in 1..BlockCount(n, size)
                /\ (at - 1) % size \in Nat
            BY <2>4, BlockOfPlace
          <5>2. drawn[1 + ((at - 1) \div size)] \in Int
            BY <2>2, <2>3, <5>1 DEF Starts
          <5>3. PICK x \in Int :
                    x = drawn[1 + ((at - 1) \div size)] + ((at - 1) % size)
            BY <5>1, <5>2
          <5>4. PathIndices(n, size, drawn)[at] = 1 + (x % n)
            BY <5>3 DEF PathIndices
          <5> QED
            BY <5>4
        <4>2. x % n \in 0..(n - 1)
          OBVIOUS
        <4> QED
          BY <4>1, <4>2
      <3>3. \A at \in 1..n : series[PathIndices(n, size, drawn)[at]] \in Int
        BY <2>4, <3>2
      <3> QED
        BY <3>1, <3>3
    <2>8. Stressed(stressed.path).ruined
            <=> Stressed(stressed.path).maxDrawdownPct >= Scale
      BY <2>7, StressedIsCurve DEF StressCurve
    <2>9. stressed.size = size /\ Len(stressed.series) = n
      BY <2>2, <2>3
    <2> DEFINE drawable == [starts \in Starts(Len(stressed.series), stressed.size) |->
                               PathIndices(Len(stressed.series), stressed.size,
                                           starts)]
    <2>10. drawable = paths
      BY <2>9
    <2>11. /\ \A at, place \in 1..Len(stressed.series) :
                  Len(stressed.series)
                    * Cardinality({starts \in DOMAIN drawable :
                                      drawable[starts][at] = place})
                    = Cardinality(DOMAIN drawable)
           /\ \A starts \in DOMAIN drawable, at \in 1..(Len(stressed.series) - 1) :
                  at % stressed.size # 0 =>
                      drawable[starts][at + 1]
                        = 1 + (drawable[starts][at] % Len(stressed.series))
      <3> HIDE DEF paths, drawable
      <3> QED
        BY <2>5, <2>6, <2>9, <2>10
    <2> QED
      BY <2>8, <2>11, Zenon DEF StressUnbiased
  <1> QED
    BY <1>1, <1>2, StressInvStep, PTL DEF Spec

=============================================================================
