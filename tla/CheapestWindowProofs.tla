------------------------ MODULE CheapestWindowProofs ------------------------
(***************************************************************************)
(* CheapestWindow is right for every cache, interval, duration and price.  *)
(***************************************************************************)
EXTENDS CheapRunsProperties, Induction, SequenceTheorems

\* Rounding covers the duration with whole half-hours, and with no spare one.
LEMMA RoundUpCovers ==
    ASSUME NEW d \in Int
    PROVE  /\ RoundUpToSlot(d) \in Nat
           /\ RoundUpToSlot(d) % Slot = 0
           /\ d <= RoundUpToSlot(d)
           /\ RoundUpToSlot(d) # Slot => RoundUpToSlot(d) < d + Slot
           /\ RoundUpToSlot(d) \div Slot >= 1
<1>1. Slot \in Nat /\ Slot > 0
  BY WindowAssumption
<1> DEFINE r == RoundUpToSlot(d)
<1>2. CASE d <= 0
  <2>1. r = Slot
    BY <1>2 DEF RoundUpToSlot
  <2> QED BY <1>1, <1>2, <2>1
<1>3. CASE d > 0 /\ (d % Slot) # 0
  <2>1. r = d + (Slot - (d % Slot))
    BY <1>3 DEF RoundUpToSlot
  <2>2. (d % Slot) \in 1..(Slot - 1) /\ d = (d \div Slot) * Slot + (d % Slot)
    BY <1>1, <1>3
  <2>3. r = ((d \div Slot) + 1) * Slot /\ d \div Slot \in Nat
    BY <1>1, <1>3, <2>1, <2>2
  <2>4. r % Slot = 0 /\ r \div Slot = (d \div Slot) + 1
    BY <1>1, <2>3
  <2> QED BY <1>1, <1>3, <2>1, <2>2, <2>3, <2>4
<1>4. CASE d > 0 /\ (d % Slot) = 0
  <2>1. r = d
    BY <1>4 DEF RoundUpToSlot
  <2>2. d = (d \div Slot) * Slot /\ d \div Slot \in Nat
    BY <1>1, <1>4
  <2>3. d \div Slot >= 1
    BY <1>1, <1>4, <2>2
  <2> QED BY <1>1, <1>4, <2>1, <2>2, <2>3
<1> QED BY <1>2, <1>3, <1>4

-----------------------------------------------------------------------------
(* Types.                                                                  *)

\* The half-hours kept are finitely many times.
LEMMA KeptTyped ==
    ASSUME ArgTypeOK
    PROVE  /\ Kept \subseteq Int /\ IsFiniteSet(Kept) /\ Cardinality(Kept) \in Nat
           /\ \A f \in Kept : rate[f] \in Int
<1>1. PICK S \in SUBSET Starts : rate \in [S -> Prices]
  BY DEF ArgTypeOK
<1>2. Kept \subseteq Starts
  BY <1>1 DEF Kept
<1>3. Starts \subseteq Int /\ IsFiniteSet(Starts)
  BY WindowAssumption
<1>4. IsFiniteSet(Kept)
  BY <1>2, <1>3, FS_Subset
<1>5. \A f \in Kept : rate[f] \in Int
  BY <1>1, WindowAssumption DEF Kept
<1> QED BY <1>2, <1>3, <1>4, <1>5, FS_CardinalityType

\* A half-hour kept is one, and its price is a number.
LEMMA FiltTyped ==
    ASSUME ArgTypeOK, FiltTypeOK
    PROVE  /\ Len(filt) \in Nat
           /\ \A k \in 1..Len(filt) : filt[k] \in Int /\ PriceOf(k) \in Int
<1>1. filt \in Seq(Kept)
  BY DEF FiltTypeOK
<1>2. Len(filt) \in Nat /\ \A k \in 1..Len(filt) : filt[k] \in Kept
  BY <1>1, LenProperties, ElementOfSeq
<1>3. \A f \in Kept : f \in Int /\ rate[f] \in Int
  BY KeptTyped
<1> QED BY <1>2, <1>3 DEF PriceOf

LEMMA SortedTyped ==
    ASSUME ArgTypeOK, NEW s \in Ascending(Kept)
    PROVE  s \in Seq(Kept) /\ Len(s) \in Nat
<1>1. s \in [1..Cardinality(Kept) -> Kept] /\ Cardinality(Kept) \in Nat
  BY KeptTyped DEF Ascending
<1>2. s \in Seq(Kept)
  BY <1>1, SeqDef
<1> QED BY <1>2, LenProperties

\* Nothing has been passed over before the pass begins.
Fresh == pc \in {"start", "filter"} =>
            /\ i = 0 /\ runStart = 1 /\ sum = 0
            /\ bestStart = 0 /\ bestSum = Inf /\ cum = [k \in {0} |-> 0]

\* No result is announced before the function returns.
Early == /\ pc # "done" => result = ""
         /\ pc \notin {"start", "done"} => slots >= 1

Typed == TypeOK /\ Fresh /\ Early

LEMMA InitTyped == Init => Typed
<1> SUFFICES ASSUME Init PROVE Typed
  OBVIOUS
<1>1. ArgTypeOK
  BY DEF Init, ArgTypeOK
<1>2. filt \in Seq(Kept) /\ Len(filt) = 0
  BY EmptySeq DEF Init
<1>3. cum \in [0..0 -> Int] /\ i = 0
  <2>1. 0..0 = {0} /\ [k \in {0} |-> 0] \in [{0} -> Int]
    OBVIOUS
  <2>2. i = 0 /\ cum = [k \in {0} |-> 0]
    BY DEF Init
  <2> QED BY <2>1, <2>2
<1>4. PassTypeOK
  <2>1. i = 0 /\ runStart = 1 /\ sum = 0
    BY DEF Init
  <2> QED BY <1>2, <1>3, <2>1 DEF PassTypeOK
<1>5. FiltTypeOK /\ BestTypeOK
  <2>1. slots = 0 /\ bestStart = 0 /\ bestSum = Inf
    BY DEF Init
  <2> QED BY <1>2, <2>1 DEF FiltTypeOK, BestTypeOK
<1> QED BY <1>1, <1>4, <1>5 DEF Init, Typed, TypeOK, Fresh, Early

\* No step changes the arguments, hence what is kept.
LEMMA KeptFixed ==
    ASSUME [Next]_vars
    PROVE  /\ UNCHANGED argVars /\ Kept' = Kept
           /\ ArgTypeOK => ArgTypeOK'
<1>1. UNCHANGED argVars
  BY DEF Next, vars, CheckRange, FilterAndSort, Add, Shrink, Compare, Finish
<1> QED BY <1>1 DEF argVars, Kept, From, To, ArgTypeOK

LEMMA StepTyped == Typed /\ [Next]_vars => Typed'
<1> SUFFICES ASSUME Typed, [Next]_vars
             PROVE  Typed'
  OBVIOUS
<1>0. Len(filt) \in Nat /\ \A k \in 1..Len(filt) : PriceOf(k) \in Int
  BY FiltTyped DEF Typed, TypeOK
<1>a. ArgTypeOK' /\ Kept' = Kept
  BY KeptFixed DEF Typed, TypeOK
<1>b. filt \in Seq(Kept) /\ slots \in Nat
  BY DEF Typed, TypeOK, FiltTypeOK
<1>c. /\ i \in 0..Len(filt) /\ runStart \in 1..(i + 1) /\ sum \in Int
      /\ cum \in [0..i -> Int]
  BY DEF Typed, TypeOK, PassTypeOK
<1>d. bestStart \in 0..Len(filt) /\ bestSum \in Int \cup {Inf}
  BY DEF Typed, TypeOK, BestTypeOK
<1>1. CASE CheckRange
  <2>1. duration \in Int /\ Slot \in Nat /\ Slot > 0
    <3>1. duration \in Durations
      BY DEF Typed, TypeOK, ArgTypeOK
    <3> QED BY <3>1, WindowAssumption
  <2>2. RoundUpToSlot(duration) \div Slot \in Nat /\ RoundUpToSlot(duration) \div Slot >= 1
    BY <2>1, RoundUpCovers
  <2>3. UNCHANGED <<filt, i, runStart, sum, bestStart, bestSum, cum>>
    BY <1>1 DEF CheckRange, bestVars
  <2>4. /\ pc = "start" /\ pc' \in {"done", "filter"}
        /\ slots' \in Nat /\ (pc' = "filter" => slots' >= 1 /\ result' = result)
        /\ result' \in {result, "empty range"}
    BY <1>1, <1>b, <2>2 DEF CheckRange, Return
  <2>5. FiltTypeOK' /\ PassTypeOK' /\ BestTypeOK'
    BY <1>a, <1>b, <1>c, <1>d, <2>3, <2>4 DEF FiltTypeOK, PassTypeOK, BestTypeOK
  <2> QED BY <1>a, <2>3, <2>4, <2>5 DEF Typed, TypeOK, Fresh, Early
<1>2. CASE FilterAndSort
  <2>1. filt' \in Seq(Kept) /\ Len(filt') \in Nat
    BY <1>2, SortedTyped DEF FilterAndSort, Typed, TypeOK
  <2>2. /\ i' = 0 /\ runStart' = 1 /\ bestStart' = 0 /\ i = 0
        /\ UNCHANGED <<slots, sum, bestSum, cum>>
    BY <1>2 DEF FilterAndSort, Typed, Fresh, bestVars
  <2>3. i' \in 0..Len(filt') /\ runStart' \in 1..(i' + 1) /\ bestStart' \in 0..Len(filt')
    BY <2>1, <2>2
  <2>4. FiltTypeOK' /\ PassTypeOK' /\ BestTypeOK'
    BY <1>a, <1>b, <1>c, <1>d, <2>1, <2>2, <2>3 DEF FiltTypeOK, PassTypeOK, BestTypeOK
  <2>5. /\ pc' \in {"done", "add"} /\ (pc' = "add" => result' = result)
        /\ result' \in {result, "no rates", "too long"}
        /\ pc = "filter" /\ slots' = slots
    BY <1>2 DEF FilterAndSort, Return
  <2> QED BY <1>a, <2>4, <2>5 DEF Typed, TypeOK, Fresh, Early
<1>3. CASE Add
  <2>1. pc = "add" /\ i + 1 \in 1..Len(filt) /\ PriceOf(i + 1) \in Int /\ i \in Nat
    BY <1>0, <1>3, <1>c DEF Add
  <2>2. cum' \in [0..i' -> Int]
    BY <1>3, <1>c, <2>1 DEF Add
  <2>3. sum' \in {sum + PriceOf(i + 1), PriceOf(i + 1)} /\ runStart' \in {runStart, i + 1}
        /\ i' = i + 1 /\ UNCHANGED <<slots, filt, bestStart, bestSum, result>> /\ pc' = "shrink"
    BY <1>3 DEF Add, bestVars
  <2>4. i' \in 0..Len(filt) /\ runStart' \in 1..(i' + 1) /\ sum' \in Int
    BY <1>0, <1>c, <2>1, <2>3
  <2>5. FiltTypeOK' /\ PassTypeOK' /\ BestTypeOK'
    BY <1>a, <1>b, <1>d, <2>2, <2>3, <2>4 DEF FiltTypeOK, PassTypeOK, BestTypeOK
  <2> QED BY <1>a, <2>1, <2>3, <2>5 DEF Typed, TypeOK, Fresh, Early
<1>4. CASE Shrink
  <2>1. pc = "shrink" /\ Length > slots
        /\ sum' = sum - PriceOf(runStart) /\ runStart' = runStart + 1
        /\ UNCHANGED <<slots, filt, pc, i, bestStart, bestSum, result, cum>>
    BY <1>4 DEF Shrink, bestVars
  <2>2. runStart <= i /\ runStart \in 1..Len(filt)
    BY <1>0, <1>b, <1>c, <2>1 DEF Length
  <2>3. runStart' \in 1..(i' + 1) /\ sum' \in Int
    BY <1>0, <1>c, <2>1, <2>2
  <2>4. FiltTypeOK' /\ PassTypeOK' /\ BestTypeOK'
    BY <1>a, <1>b, <1>c, <1>d, <2>1, <2>3 DEF FiltTypeOK, PassTypeOK, BestTypeOK
  <2> QED BY <1>a, <2>1, <2>4 DEF Typed, TypeOK, Fresh, Early
<1>5. CASE Compare
  <2>1. /\ pc = "shrink" /\ pc' = "add"
        /\ UNCHANGED <<slots, filt, i, runStart, sum, result, cum>>
        /\ \/ Length = slots /\ bestStart' = runStart /\ bestSum' = sum
           \/ bestStart' = bestStart /\ bestSum' = bestSum
    BY <1>5 DEF Compare, bestVars
  <2>2. slots >= 1
    BY <2>1 DEF Typed, Early
  <2>3. bestStart' \in 0..Len(filt) /\ bestSum' \in Int \cup {Inf}
    <3>1. CASE Length = slots /\ bestStart' = runStart /\ bestSum' = sum
      BY <1>0, <1>b, <1>c, <2>2, <3>1 DEF Length
    <3> QED BY <1>d, <2>1, <3>1
  <2>4. FiltTypeOK' /\ PassTypeOK' /\ BestTypeOK'
    BY <1>a, <1>b, <1>c, <2>1, <2>3 DEF FiltTypeOK, PassTypeOK, BestTypeOK
  <2> QED BY <1>a, <2>1, <2>4 DEF Typed, TypeOK, Fresh, Early
<1>6. CASE Finish
  <2>1. /\ pc = "add" /\ pc' = "done" /\ result' \in {"too long", "found"}
        /\ UNCHANGED <<slots, filt, i, runStart, sum, bestStart, bestSum, cum>>
    BY <1>6 DEF Finish, Return, bestVars
  <2>2. FiltTypeOK' /\ PassTypeOK' /\ BestTypeOK'
    BY <1>a, <1>b, <1>c, <1>d, <2>1 DEF FiltTypeOK, PassTypeOK, BestTypeOK
  <2> QED BY <1>a, <2>1, <2>2 DEF Typed, TypeOK, Fresh, Early
<1>7. CASE UNCHANGED vars
  <2>1. UNCHANGED <<slots, filt, pc, i, runStart, sum, bestStart, bestSum, result, cum>>
    BY <1>7 DEF vars, bestVars
  <2>2. FiltTypeOK' /\ PassTypeOK' /\ BestTypeOK'
    BY <1>a, <1>b, <1>c, <1>d, <2>1 DEF FiltTypeOK, PassTypeOK, BestTypeOK
  <2> QED BY <1>a, <2>1, <2>2 DEF Typed, TypeOK, Fresh, Early
<1> QED BY <1>1, <1>2, <1>3, <1>4, <1>5, <1>6, <1>7 DEF Next

\* Every index of the pass stays inside the half-hours kept, whatever is cached.
THEOREM TypeCorrect == Spec => []TypeOK
<1>1. Typed => TypeOK
  BY DEF Typed
<1> QED BY <1>1, InitTyped, StepTyped, PTL DEF Spec

-----------------------------------------------------------------------------
(* The pass.                                                               *)

\* The facts about types the steps below start from.
LEMMA PassTypes ==
    ASSUME Typed
    PROVE  /\ Len(filt) \in Nat /\ slots \in Nat
           /\ \A k \in 1..Len(filt) : filt[k] \in Int /\ PriceOf(k) \in Int
           /\ i \in 0..Len(filt) /\ runStart \in 1..(i + 1) /\ sum \in Int
           /\ \A k \in 0..i : cum[k] \in Int
           /\ pc \notin {"start", "done"} => slots >= 1
BY FiltTyped DEF Typed, TypeOK, FiltTypeOK, PassTypeOK, Early

\* The prices in cum add up half-hour by half-hour.
CumInv == cum[0] = 0 /\ \A k \in 1..i : cum[k] = cum[k - 1] + PriceOf(k)

LEMMA CumInit == Init => CumInv
<1> SUFFICES ASSUME Init PROVE CumInv
  OBVIOUS
<1>1. i = 0 /\ cum[0] = 0
  BY DEF Init
<1> QED BY <1>1 DEF CumInv

\* Add extends cum and leaves what it had.
LEMMA CumExtended ==
    ASSUME Typed, Add
    PROVE  /\ \A k \in 0..i : cum'[k] = cum[k]
           /\ cum'[i + 1] = cum[i] + PriceOf(i + 1)
BY PassTypes DEF Add

LEMMA CumStep == Typed /\ CumInv /\ [Next]_vars => CumInv'
<1> SUFFICES ASSUME Typed, CumInv, [Next]_vars
             PROVE  CumInv'
  OBVIOUS
<1>1. CASE Add
  <2>1. i \in Nat /\ i' = i + 1 /\ UNCHANGED <<rate, filt>>
    BY <1>1, PassTypes DEF Add, argVars
  <2>2. ASSUME NEW k \in 1..(i + 1)
        PROVE  cum'[k] = cum'[k - 1] + PriceOf(k)
    <3>1. CASE k = i + 1
      BY <1>1, <2>1, <3>1, CumExtended
    <3>2. CASE k # i + 1
      <4>1. k \in 1..i /\ k \in 0..i /\ k - 1 \in 0..i
        BY <2>1, <3>2
      <4> QED BY <1>1, <4>1, CumExtended DEF CumInv
    <3> QED BY <3>1, <3>2
  <2>3. cum'[0] = 0
    <3>1. 0 \in 0..i
      BY <2>1
    <3> QED BY <1>1, <3>1, CumExtended DEF CumInv
  <2> QED BY <2>1, <2>2, <2>3 DEF CumInv, PriceOf
<1>2. CASE CheckRange \/ Shrink \/ Compare \/ Finish \/ UNCHANGED vars
  BY <1>2 DEF CheckRange, Shrink, Compare, Finish, vars, argVars, CumInv, PriceOf
<1>3. CASE FilterAndSort
  <2>1. i = 0 /\ i' = 0 /\ cum' = cum
    BY <1>3 DEF FilterAndSort, Typed, Fresh
  <2> QED BY <2>1 DEF CumInv
<1> QED BY <1>1, <1>2, <1>3 DEF Next

LEMMA PassInit == Init => PassInv
BY DEF Init, PassInv

LEMMA PassStep == Typed /\ CumInv /\ PassInv /\ [Next]_vars => PassInv'
<1> SUFFICES ASSUME Typed, CumInv, PassInv, [Next]_vars
             PROVE  PassInv'
  OBVIOUS
<1>1. CASE CheckRange \/ Finish
  BY <1>1 DEF CheckRange, Finish, Return, PassInv
<1>2. CASE FilterAndSort
  <2>1. /\ i = 0 /\ i' = 0 /\ runStart' = 1 /\ sum' = 0 /\ cum'[0] = 0
        /\ slots' = slots /\ slots >= 1 /\ slots \in Nat
        /\ pc' \in {"done", "add"}
    BY <1>2, PassTypes DEF FilterAndSort, Return, Typed, Fresh, CumInv
  <2>2. Linked(1, 0)'
    BY DEF Linked
  <2>3. Length' = 0
    BY <2>1 DEF Length
  <2>4. Linked(runStart, i)'
    BY <2>1, <2>2 DEF Linked
  <2> QED BY <2>1, <2>3, <2>4 DEF PassInv
<1>3. CASE Add
  <2>1. /\ i \in Nat /\ i + 1 \in 1..Len(filt) /\ i' = i + 1 /\ pc = "add" /\ pc' = "shrink"
        /\ UNCHANGED <<rate, filt, slots>> /\ slots >= 1 /\ slots \in Nat
        /\ runStart \in 1..(i + 1) /\ PriceOf(i + 1) \in Int /\ \A k \in 0..i : cum[k] \in Int
        /\ \A k : Follows(k)' <=> Follows(k)
    BY <1>3, PassTypes DEF Add, argVars, Follows
  <2>2. /\ \A k \in 0..i : cum'[k] = cum[k]
        /\ cum'[i + 1] = cum[i] + PriceOf(i + 1)
    BY <1>3, CumExtended
  <2>3. CASE Follows(i + 1) \/ i = 0
    <3>1. runStart' = runStart /\ sum' = sum + PriceOf(i + 1)
      BY <1>3, <2>3 DEF Add
    <3>2. \A k \in (runStart + 1)..(i + 1) : Follows(k)
      <4>1. ASSUME NEW k \in (runStart + 1)..(i + 1)
            PROVE  k \in (runStart + 1)..i \/ (k = i + 1 /\ i # 0)
        BY <2>1
      <4> QED BY <2>1, <2>3, <4>1 DEF PassInv, Linked
    <3>3. Linked(runStart, i)'
      BY <2>1, <3>1, <3>2 DEF Linked
    <3>4. runStart - 1 \in 0..i
      BY <2>1
    <3>5. sum' = cum'[i'] - cum'[runStart' - 1]
      <4>1. sum = cum[i] - cum[runStart - 1] /\ cum[i] \in Int /\ cum[runStart - 1] \in Int
        BY <2>1, <3>4 DEF PassInv
      <4> QED BY <2>1, <2>2, <3>1, <3>4, <4>1
    <3>6. Length' < slots => runStart = 1 \/ ~Follows(runStart)
      BY <2>1, <3>1 DEF Length, PassInv
    <3>7. ~(i' < runStart')
      BY <2>1, <3>1
    <3> QED BY <2>1, <3>1, <3>3, <3>5, <3>6, <3>7 DEF PassInv
  <2>4. CASE ~(Follows(i + 1) \/ i = 0)
    <3>1. runStart' = i + 1 /\ sum' = PriceOf(i + 1)
      BY <1>3, <2>4 DEF Add
    <3>2. Linked(runStart, i)'
      BY <2>1, <3>1 DEF Linked
    <3>3. sum' = cum'[i'] - cum'[runStart' - 1]
      <4>1. i \in 0..i /\ i + 1 - 1 = i
        BY <2>1
      <4> QED BY <2>1, <2>2, <3>1, <4>1
    <3>4. ~(i' < runStart')
      BY <2>1, <3>1
    <3> QED BY <2>1, <2>4, <3>1, <3>2, <3>3, <3>4 DEF PassInv
  <2> QED BY <2>3, <2>4
<1>4. CASE Shrink
  <2>1. /\ pc = "shrink" /\ Length > slots /\ slots >= 1 /\ slots \in Nat
        /\ sum' = sum - PriceOf(runStart) /\ runStart' = runStart + 1
        /\ UNCHANGED <<rate, filt, slots, pc, i, cum>>
        /\ i \in Nat /\ runStart \in 1..(i + 1) /\ \A k \in 0..i : cum[k] \in Int
        /\ \A k : Follows(k)' <=> Follows(k)
    BY <1>4, PassTypes DEF Shrink, argVars, Follows
  <2>2. runStart \in 1..i /\ Length' = Length - 1 /\ Length' >= slots
    BY <2>1 DEF Length
  <2>3. Linked(runStart, i)'
    BY <2>1, <2>2 DEF Linked, PassInv
  <2>4. sum' = cum'[i'] - cum'[runStart' - 1]
    <3>1. cum[runStart] = cum[runStart - 1] + PriceOf(runStart)
      BY <2>2 DEF CumInv
    <3>2. sum = cum[i] - cum[runStart - 1] /\ cum[runStart - 1] \in Int /\ cum[i] \in Int
          /\ cum[runStart] \in Int
      BY <2>1, <2>2 DEF PassInv
    <3>3. PriceOf(runStart) \in Int
      BY <2>2, PassTypes
    <3>4. runStart + 1 - 1 = runStart
      BY <2>1
    <3> QED BY <2>1, <3>1, <3>2, <3>3, <3>4
  <2>5. ~(i' < runStart') /\ ~(Length' < slots)
    BY <2>1, <2>2 DEF Length
  <2> QED BY <2>1, <2>3, <2>4, <2>5 DEF PassInv
<1>5. CASE Compare
  <2>1. /\ pc = "shrink" /\ pc' = "add" /\ Length <= slots
        /\ UNCHANGED <<rate, filt, slots, i, runStart, sum, cum>>
    BY <1>5 DEF Compare, argVars
  <2> QED BY <2>1 DEF PassInv, Linked, Follows, Length
<1>6. CASE UNCHANGED vars
  BY <1>6 DEF vars, argVars, PassInv, Linked, Follows, Length
<1> QED BY <1>1, <1>2, <1>3, <1>4, <1>5, <1>6 DEF Next

-----------------------------------------------------------------------------
(* The best window.                                                        *)

\* A window ends at the present half-hour only if it is the one of the pass.
LEMMA WindowEndingHere ==
    ASSUME Typed, PassInv, pc = "shrink", Length <= slots,
           NEW a \in 1..Len(filt), a + slots - 1 = i
    PROVE  IsWindow(a) <=> (Length = slots /\ a = runStart)
<1>1. /\ Len(filt) \in Nat /\ i \in 0..Len(filt) /\ runStart \in 1..(i + 1)
      /\ slots \in Nat /\ slots >= 1
  BY PassTypes
<1>2. CASE Length = slots
  <2>1. a = runStart
    BY <1>1, <1>2 DEF Length
  <2> QED BY <1>1, <1>2, <2>1 DEF IsWindow, PassInv
<1>3. CASE Length # slots
  <2>1. a < runStart /\ Length < slots
    BY <1>1, <1>3 DEF Length
  <2>2. ~Follows(runStart) /\ runStart \in (a + 1)..(a + slots - 1)
    <3>1. runStart # 1 /\ ~Follows(runStart)
      BY <1>1, <2>1 DEF PassInv
    <3>2. runStart <= i
      BY <1>1 DEF PassInv
    <3> QED BY <1>1, <2>1, <3>1, <3>2
  <2> QED BY <1>3, <2>2 DEF IsWindow, Linked
<1> QED BY <1>2, <1>3

\* A known best window is not worse for what cum is extended with.
LEMMA BestKept ==
    ASSUME Typed, NEW e \in 0..i, slots >= 1, BestUpTo(e),
           UNCHANGED <<filt, slots, bestStart, bestSum>>,
           \A k \in 0..i : cum'[k] = cum[k]
    PROVE  BestUpTo(e)'
<1>1. Len(filt) \in Nat /\ slots \in Nat /\ i \in Nat
  BY PassTypes
<1>2. ASSUME NEW a \in 1..Len(filt), a + slots - 1 <= e
      PROVE  Cost(a)' = Cost(a)
  <2>1. a + slots - 1 \in 0..i /\ a - 1 \in 0..i
    BY <1>1, <1>2
  <2> QED BY <2>1 DEF Cost
<1>3. \A a : IsWindow(a)' <=> IsWindow(a)
  BY DEF IsWindow, Linked, Follows
<1>4. CASE bestStart = 0
  BY <1>3, <1>4 DEF BestUpTo
<1>5. CASE bestStart # 0
  <2>1. /\ bestSum \in Int /\ IsWindow(bestStart) /\ bestStart + slots - 1 <= e
        /\ bestSum = Cost(bestStart)
        /\ \A a \in 1..Len(filt) : IsWindow(a) /\ a + slots - 1 <= e =>
              \/ bestSum < Cost(a)
              \/ bestSum = Cost(a) /\ bestStart <= a
    BY <1>5 DEF BestUpTo
  <2>2. bestStart \in 1..Len(filt)
    BY <2>1 DEF IsWindow
  <2> QED BY <1>2, <1>3, <1>5, <2>1, <2>2 DEF BestUpTo
<1> QED BY <1>4, <1>5

\* Compare makes the best window up to here of the best one up to before.
LEMMA CompareFindsBest ==
    ASSUME Typed, PassInv, BestInv, Compare
    PROVE  BestUpTo(i)'
<1>1. /\ Len(filt) \in Nat /\ i \in 1..Len(filt) /\ runStart \in 1..i
      /\ slots \in Nat /\ slots >= 1 /\ sum \in Int /\ \A k \in 0..i : cum[k] \in Int
  BY PassTypes DEF Compare, PassInv
<1>2. /\ pc = "shrink" /\ Length <= slots /\ BestUpTo(i - 1)
      /\ UNCHANGED <<filt, slots, i, cum>>
  BY DEF Compare, BestInv
<1>3. \A a : (IsWindow(a)' <=> IsWindow(a)) /\ Cost(a)' = Cost(a)
  BY <1>2 DEF IsWindow, Linked, Follows, Cost
<1>4. ASSUME NEW a \in 1..Len(filt), IsWindow(a), a + slots - 1 <= i, a + slots - 1 # i
      PROVE  a + slots - 1 <= i - 1
  BY <1>1, <1>4
<1>5. CASE Length = slots /\ Better(sum)
  <2>1. bestStart' = runStart /\ bestSum' = sum
    BY <1>5 DEF Compare
  <2>2. runStart + slots - 1 = i
    BY <1>1, <1>5 DEF Length
  <2>3. IsWindow(runStart)
    BY <1>1, <1>2, <1>5, <2>2, WindowEndingHere
  <2>4. sum = Cost(runStart)
    BY <1>2, <2>2 DEF PassInv, Cost
  <2>5. ASSUME NEW a \in 1..Len(filt), IsWindow(a), a + slots - 1 <= i
        PROVE  sum < Cost(a) \/ (sum = Cost(a) /\ runStart <= a)
    <3>1. CASE a + slots - 1 = i
      <4>1. a = runStart
        BY <1>2, <2>5, <3>1, WindowEndingHere
      <4> QED BY <1>1, <2>4, <4>1
    <3>2. CASE a + slots - 1 # i
      <4>1. a + slots - 1 <= i - 1
        BY <1>4, <2>5, <3>2
      <4>2. bestSum \in Int /\ bestSum <= Cost(a)
        <5>1. Cost(a) \in Int
          <6>1. a + slots - 1 \in 0..i /\ a - 1 \in 0..i
            BY <1>1, <4>1
          <6> QED BY <1>1, <6>1 DEF Cost
        <5> QED BY <1>2, <2>5, <4>1, <5>1 DEF BestUpTo
      <4>3. sum < bestSum
        BY <1>5, <4>2, WindowAssumption DEF Better
      <4>4. Cost(a) \in Int
        <5>1. a + slots - 1 \in 0..i /\ a - 1 \in 0..i
          BY <1>1, <4>1
        <5> QED BY <1>1, <5>1 DEF Cost
      <4> QED BY <1>1, <4>2, <4>3, <4>4
    <3> QED BY <3>1, <3>2
  <2> QED BY <1>1, <1>2, <1>3, <2>1, <2>2, <2>3, <2>4, <2>5 DEF BestUpTo
<1>6. CASE ~(Length = slots /\ Better(sum))
  <2>1. bestStart' = bestStart /\ bestSum' = bestSum
    BY <1>6 DEF Compare, bestVars
  <2>2. CASE bestStart = 0
    <3>1. bestSum = Inf /\ Length # slots
      BY <1>2, <1>6, <2>2 DEF BestUpTo, Better
    <3>2. \A a \in 1..Len(filt) : a + slots - 1 <= i => ~IsWindow(a)
      <4> SUFFICES ASSUME NEW a \in 1..Len(filt), IsWindow(a), a + slots - 1 <= i
                   PROVE  FALSE
        OBVIOUS
      <4>1. a + slots - 1 # i
        BY <1>2, <3>1, WindowEndingHere
      <4>2. a + slots - 1 <= i - 1
        BY <1>4, <4>1
      <4> QED BY <1>2, <2>2, <4>2 DEF BestUpTo
    <3> QED BY <1>2, <1>3, <2>1, <2>2, <3>1, <3>2 DEF BestUpTo
  <2>3. CASE bestStart # 0
    <3>1. /\ bestSum \in Int /\ IsWindow(bestStart) /\ bestStart + slots - 1 <= i - 1
          /\ bestSum = Cost(bestStart)
          /\ \A a \in 1..Len(filt) : IsWindow(a) /\ a + slots - 1 <= i - 1 =>
                \/ bestSum < Cost(a)
                \/ bestSum = Cost(a) /\ bestStart <= a
      BY <1>2, <2>3 DEF BestUpTo
    <3>2. bestStart \in 1..Len(filt)
      BY <3>1 DEF IsWindow
    <3>3. ASSUME NEW a \in 1..Len(filt), IsWindow(a), a + slots - 1 <= i
          PROVE  bestSum < Cost(a) \/ (bestSum = Cost(a) /\ bestStart <= a)
      <4>1. CASE a + slots - 1 = i
        <5>1. Length = slots /\ a = runStart
          BY <1>2, <3>3, <4>1, WindowEndingHere
        <5>2. sum = Cost(a)
          BY <1>2, <4>1, <5>1 DEF PassInv, Cost
        <5>3. bestSum <= sum
          <6>1. ~(sum < bestSum)
            BY <1>6, <5>1 DEF Better
          <6> QED BY <1>1, <3>1, <6>1
        <5>4. bestStart <= a
          BY <1>1, <3>1, <3>2, <4>1
        <5> QED BY <1>1, <3>1, <5>2, <5>3, <5>4
      <4>2. CASE a + slots - 1 # i
        BY <1>4, <3>1, <3>3, <4>2
      <4> QED BY <4>1, <4>2
    <3>4. bestStart + slots - 1 <= i
      BY <1>1, <3>1, <3>2
    <3> QED BY <1>2, <1>3, <2>1, <2>3, <3>1, <3>3, <3>4 DEF BestUpTo
  <2> QED BY <2>2, <2>3
<1> QED BY <1>5, <1>6

LEMMA BestInit == Init => BestInv
BY DEF Init, BestInv

LEMMA BestStep == Typed /\ PassInv /\ BestInv /\ [Next]_vars => BestInv'
<1> SUFFICES ASSUME Typed, PassInv, BestInv, [Next]_vars
             PROVE  BestInv'
  OBVIOUS
<1>1. CASE CheckRange \/ Finish
  BY <1>1 DEF CheckRange, Finish, Return, BestInv
<1>2. CASE FilterAndSort
  <2>1. /\ i' = 0 /\ bestStart' = 0 /\ bestSum' = Inf /\ pc' # "shrink"
        /\ slots' = slots /\ slots \in Nat /\ slots >= 1
    BY <1>2, PassTypes DEF FilterAndSort, Return, Typed, Fresh, bestVars
  <2>2. filt' \in Seq(Kept) /\ Len(filt') \in Nat
    BY <1>2, SortedTyped DEF FilterAndSort, Typed, TypeOK
  <2>3. \A a \in 1..Len(filt') : ~(a + slots' - 1 <= i')
    BY <2>1, <2>2
  <2>4. BestUpTo(i)'
    BY <2>1, <2>3 DEF BestUpTo
  <2> QED BY <2>1, <2>4 DEF BestInv
<1>3. CASE Add
  <2>1. /\ pc' = "shrink" /\ i' = i + 1 /\ i \in Nat /\ slots >= 1
        /\ UNCHANGED <<filt, slots, bestStart, bestSum>> /\ BestUpTo(i)
    BY <1>3, PassTypes DEF Add, bestVars, BestInv
  <2>2. PICK e \in 0..i : e = i
    BY <2>1
  <2>3. \A k \in 0..i : cum'[k] = cum[k]
    BY <1>3, CumExtended
  <2>4. BestUpTo(e)'
    BY <2>1, <2>2, <2>3, BestKept
  <2>5. i' - 1 = e
    BY <2>1, <2>2
  <2> QED BY <2>1, <2>4, <2>5 DEF BestInv
<1>4. CASE Shrink
  BY <1>4 DEF Shrink, bestVars, BestInv, BestUpTo, IsWindow, Linked, Follows, Cost
<1>5. CASE Compare
  <2>1. pc' = "add"
    BY <1>5 DEF Compare
  <2> QED BY <1>5, <2>1, CompareFindsBest DEF BestInv
<1>6. CASE UNCHANGED vars
  BY <1>6 DEF vars, bestVars, BestInv, BestUpTo, IsWindow, Linked, Follows, Cost
<1> QED BY <1>1, <1>2, <1>3, <1>4, <1>5, <1>6 DEF Next

-----------------------------------------------------------------------------
(* The answer, by indices.                                                 *)

\* What the caller gets is the cheapest gapless window of the rounded-up
\* duration among the half-hours kept, the earliest of several.
FoundIsCheapest == result = "found" => bestStart # 0 /\ BestUpTo(Len(filt))

\* An error is returned only if no window of that length exists.
ErrorMeansNone == result \in {"no rates", "too long"} =>
                      \A a \in 1..Len(filt) : ~IsWindow(a)

Answer == FoundIsCheapest /\ ErrorMeansNone

LEMMA AnswerInit == Init => Answer
BY DEF Init, Answer, FoundIsCheapest, ErrorMeansNone

LEMMA AnswerStep == Typed /\ BestInv /\ Answer /\ [Next]_vars => Answer'
<1> SUFFICES ASSUME Typed, BestInv, Answer, [Next]_vars
             PROVE  Answer'
  OBVIOUS
<1>1. CASE CheckRange \/ Add \/ Shrink \/ Compare
  <2>1. result' \in {"", "empty range"}
    BY <1>1 DEF CheckRange, Add, Shrink, Compare, Return, Typed, Early
  <2> QED BY <2>1 DEF Answer, FoundIsCheapest, ErrorMeansNone
<1>2. CASE FilterAndSort
  <2>1. filt' \in Seq(Kept) /\ Len(filt') \in Nat /\ slots \in Nat /\ slots' = slots
        /\ slots >= 1
    BY <1>2, SortedTyped, PassTypes DEF FilterAndSort, Typed, TypeOK
  <2>2. result' # "found" /\ (result' # "" => filt' = <<>> \/ Len(filt') < slots)
    BY <1>2 DEF FilterAndSort, Return, Typed, Early
  <2>3. filt' = <<>> => Len(filt') = 0
    BY EmptySeq
  <2>4. result' # "" => \A a \in 1..Len(filt') : ~(a + slots' - 1 <= Len(filt'))
    <3>1. PICK n \in Nat : n = Len(filt')
      BY <2>1
    <3>2. PICK m \in Nat : m = slots /\ m = slots' /\ m >= 1
      BY <2>1
    <3>3. ASSUME result' # ""
          PROVE  n < m
      <4>1. CASE filt' = <<>>
        <5>1. n = 0
          BY <3>1, <4>1, <2>3
        <5> QED BY <3>2, <5>1
      <4>2. CASE Len(filt') < slots
        BY <3>1, <3>2, <4>2
      <4> QED BY <2>2, <3>3, <4>1, <4>2
    <3>4. ASSUME n < m, NEW a \in 1..n
          PROVE  ~(a + m - 1 <= n)
      BY <3>4
    <3> QED BY <3>1, <3>2, <3>3, <3>4
  <2>5. \A a : IsWindow(a)' => a + slots' - 1 <= Len(filt')
    BY DEF IsWindow
  <2> QED BY <2>2, <2>4, <2>5 DEF Answer, FoundIsCheapest, ErrorMeansNone
<1>3. CASE Finish
  <2>1. /\ BestUpTo(Len(filt)) /\ result' = IF bestStart = 0 THEN "too long" ELSE "found"
        /\ UNCHANGED <<filt, slots, bestStart, bestSum, cum>>
    BY <1>3 DEF Finish, Return, BestInv, bestVars
  <2>2. BestUpTo(Len(filt))'
    BY <2>1 DEF BestUpTo, IsWindow, Linked, Follows, Cost
  <2>3. CASE bestStart = 0
    <3>1. \A a \in 1..Len(filt) : ~IsWindow(a)
      BY <2>1, <2>3 DEF BestUpTo, IsWindow
    <3> QED BY <2>1, <2>3, <3>1 DEF Answer, FoundIsCheapest, ErrorMeansNone,
                                    IsWindow, Linked, Follows
  <2>4. CASE bestStart # 0
    BY <2>1, <2>2, <2>4 DEF Answer, FoundIsCheapest, ErrorMeansNone
  <2> QED BY <2>3, <2>4
<1>4. CASE UNCHANGED vars
  BY <1>4 DEF vars, bestVars, Answer, FoundIsCheapest, ErrorMeansNone, BestUpTo, IsWindow,
              Linked, Follows, Cost
<1> QED BY <1>1, <1>2, <1>3, <1>4 DEF Next

-----------------------------------------------------------------------------
(* Windows of indices and windows of time.                                 *)

\* What was asked for: the number of half-hours that the duration rounds up to.
SlotsInv == pc # "start" /\ result # "empty range" =>
                slots = RoundUpToSlot(duration) \div Slot

\* What is passed over: everything kept, in order.
SortedInv == pc \in {"add", "shrink", "done"} /\ result # "empty range" =>
                filt \in Ascending(Kept)

\* The pass ends with the last half-hour.
PassedInv == result = "found" => i = Len(filt)

ArgsInv == SlotsInv /\ SortedInv /\ PassedInv

LEMMA ArgsInit == Init => ArgsInv
BY DEF Init, ArgsInv, SlotsInv, SortedInv, PassedInv

LEMMA ArgsStep == Typed /\ ArgsInv /\ [Next]_vars => ArgsInv'
<1> SUFFICES ASSUME Typed, ArgsInv, [Next]_vars
             PROVE  ArgsInv'
  OBVIOUS
<1>0. Kept' = Kept /\ UNCHANGED duration
  BY KeptFixed DEF argVars
<1>1. CASE CheckRange
  BY <1>0, <1>1 DEF CheckRange, Return, ArgsInv, SlotsInv, SortedInv, PassedInv, RoundUpToSlot
<1>2. CASE FilterAndSort
  <2>1. /\ pc = "filter" /\ result = "" /\ filt' \in Ascending(Kept)
        /\ slots' = slots /\ result' \in {"", "no rates", "too long"}
    BY <1>2 DEF FilterAndSort, Return, Typed, Early
  <2> QED BY <1>0, <2>1 DEF ArgsInv, SlotsInv, SortedInv, PassedInv, RoundUpToSlot, Ascending
<1>3. CASE Add \/ Shrink \/ Compare
  <2>1. /\ pc \in {"add", "shrink"} /\ pc' \in {"add", "shrink"} /\ result = ""
        /\ UNCHANGED <<slots, filt, result>>
    BY <1>3 DEF Add, Shrink, Compare, Typed, Early
  <2> QED BY <1>0, <2>1 DEF ArgsInv, SlotsInv, SortedInv, PassedInv, RoundUpToSlot, Ascending
<1>4. CASE Finish
  <2>1. /\ pc = "add" /\ result = "" /\ result' \in {"too long", "found"}
        /\ i = Len(filt) /\ UNCHANGED <<slots, filt, i>>
    BY <1>4 DEF Finish, Return, Typed, Early
  <2> QED BY <1>0, <2>1 DEF ArgsInv, SlotsInv, SortedInv, PassedInv, RoundUpToSlot, Ascending
<1>5. CASE UNCHANGED vars
  BY <1>0, <1>5 DEF vars, ArgsInv, SlotsInv, SortedInv, PassedInv, RoundUpToSlot, Ascending
<1> QED BY <1>1, <1>2, <1>3, <1>4, <1>5 DEF Next

\* filt in numbers: its half-hours ascend, none is left out, none overlap.
Sorted == /\ Slot \in Nat /\ Slot > 0 /\ slots \in Nat /\ slots >= 1
          /\ Len(filt) \in Nat /\ From \in Int /\ To \in Int
          /\ Kept = {f \in DOMAIN rate : From <= f /\ f + Slot <= To}
          /\ DOMAIN rate \subseteq Int
          /\ \A k \in 1..Len(filt) : filt[k] \in Kept /\ filt[k] \in Int /\ rate[filt[k]] \in Int
          /\ \A k, l \in 1..Len(filt) : k < l => filt[k] + Slot <= filt[l]
          /\ \A f \in Kept : \E k \in 1..Len(filt) : filt[k] = f

LEMMA SortedInNumbers ==
    ASSUME Typed, filt \in Ascending(Kept), slots >= 1
    PROVE  Sorted
<1>1. filt \in Ascending(Kept)
  OBVIOUS
<1>2. PICK S \in SUBSET Starts : rate \in [S -> Prices]
  BY DEF Typed, TypeOK, ArgTypeOK
<1>3. interval \in Int \X Int /\ Slot \in Nat /\ Slot > 0 /\ Starts \subseteq Int
      /\ Prices \subseteq Int
  <2>1. interval \in Intervals
    BY DEF Typed, TypeOK, ArgTypeOK
  <2>2. Slot \in Nat /\ Slot > 0
    BY WindowAssumption
  <2> QED BY <2>1, <2>2, WindowAssumption
<1>4. Cardinality(Kept) \in Nat /\ Kept \subseteq S
  BY <1>2, KeptTyped DEF Typed, TypeOK, Kept
<1>5. /\ filt \in [1..Cardinality(Kept) -> Kept]
      /\ \A k, l \in 1..Cardinality(Kept) : k < l => filt[k] < filt[l]
      /\ \A f \in Kept : \E k \in 1..Cardinality(Kept) : filt[k] = f
  BY <1>1 DEF Ascending
<1>6. Len(filt) = Cardinality(Kept)
  <2>1. filt \in Seq(Kept)
    BY <1>1, SortedTyped DEF Typed, TypeOK
  <2>2. DOMAIN filt = 1..Len(filt) /\ Len(filt) \in Nat
    BY <2>1, LenProperties
  <2>3. 1..Len(filt) = 1..Cardinality(Kept)
    BY <1>5, <2>2
  <2>4. \A m, n \in Nat : m < n => 1..m # 1..n
    <3>1. ASSUME NEW m \in Nat, NEW n \in Nat, m < n
          PROVE  n \in 1..n /\ n \notin 1..m
      <4>1. n >= 1 /\ n > m
        BY <3>1
      <4> QED BY <4>1
    <3> QED BY <3>1
  <2> QED BY <1>4, <2>2, <2>3, <2>4
<1>7. \A k \in 1..Len(filt) : filt[k] \in Kept /\ filt[k] \in Starts /\ rate[filt[k]] \in Prices
  BY <1>2, <1>4, <1>5, <1>6
<1>8. ASSUME NEW k \in 1..Len(filt), NEW l \in 1..Len(filt), k < l
      PROVE  filt[k] + Slot <= filt[l]
  BY <1>5, <1>6, <1>7, <1>8, StartsAssumption
<1>9. slots \in Nat
  BY DEF Typed, TypeOK, FiltTypeOK
<1>10. From \in Int /\ To \in Int
  BY <1>3 DEF From, To
<1>11. \A f \in Kept : \E k \in 1..Len(filt) : filt[k] = f
  BY <1>5, <1>6
<1>12. DOMAIN rate \subseteq Int
  BY <1>2, <1>3
<1> QED BY <1>3, <1>4, <1>6, <1>7, <1>8, <1>9, <1>10, <1>11, <1>12 DEF Sorted, Kept

\* There was something to pass over.
Answered == result \in {"found", "no rates", "too long"}

LEMMA AnswerSorted ==
    ASSUME Typed, ArgsInv, Answered, slots >= 1
    PROVE  Sorted
<1>1. pc = "done"
  BY DEF Typed, Early, TypeOK, Answered
<1>2. filt \in Ascending(Kept)
  BY <1>1 DEF ArgsInv, SortedInv, Answered
<1> QED BY <1>2, SortedInNumbers

\* Half-hours that touch are next to each other in filt.
LEMMA Neighbours ==
    ASSUME Sorted, NEW k \in 1..Len(filt), NEW l \in 1..Len(filt), filt[l] = filt[k] + Slot
    PROVE  l = k + 1 /\ Follows(l)
<1>1. /\ Len(filt) \in Nat /\ Slot \in Nat /\ Slot > 0
      /\ \A j \in 1..Len(filt) : filt[j] \in Int
      /\ \A j, m \in 1..Len(filt) : j < m => filt[j] + Slot <= filt[m]
  BY DEF Sorted
<1>6. filt[k] \in Int /\ filt[l] \in Int /\ filt[l] = filt[k] + Slot
  BY <1>1
<1>2. k < l
  <2>1. ASSUME l = k PROVE FALSE
    <3>1. filt[k] = filt[k] + Slot
      BY <1>6, <2>1
    <3> QED BY <1>1, <1>6, <3>1
  <2>2. ASSUME l < k PROVE FALSE
    <3>1. filt[l] + Slot <= filt[k]
      BY <1>1, <2>2
    <3> QED BY <1>1, <1>6, <3>1
  <2> QED BY <2>1, <2>2
<1>3. ASSUME k + 1 < l PROVE FALSE
  <2>1. PICK m \in 1..Len(filt) : k < m /\ m < l
    <3>1. k + 1 \in 1..Len(filt) /\ k < k + 1
      BY <1>1, <1>3
    <3> QED BY <1>3, <3>1
  <2>2. filt[k] + Slot <= filt[m] /\ filt[m] + Slot <= filt[l]
    BY <1>1, <2>1
  <2> QED BY <1>1, <2>2
<1>4. l = k + 1
  BY <1>2, <1>3
<1>5. l > 1 /\ l - 1 = k
  BY <1>4
<1> QED BY <1>4, <1>5 DEF Follows

\* Half-hours that follow on one another are a half-hour apart.
LEMMA LinkedSteps ==
    ASSUME Sorted, NEW a \in 1..Len(filt), NEW b \in a..Len(filt), Linked(a, b),
           NEW j \in 0..(b - a)
    PROVE  a + j \in 1..Len(filt) /\ filt[a + j] = filt[a] + j * Slot
<1>1. /\ Len(filt) \in Nat /\ Slot \in Nat
      /\ \A k \in (a + 1)..b : filt[k] = filt[k - 1] + Slot
      /\ \A k \in 1..Len(filt) : filt[k] \in Int
  BY DEF Linked, Follows, Sorted
<1> DEFINE E == {n \in Nat : n <= b - a => filt[a + n] = filt[a] + n * Slot}
<1>2. 0 \in E
  BY <1>1
<1>3. ASSUME NEW n \in Nat, n \in E PROVE n + 1 \in E
  <2> SUFFICES ASSUME n + 1 <= b - a PROVE filt[a + (n + 1)] = filt[a] + (n + 1) * Slot
    OBVIOUS
  <2>1. filt[a + n] = filt[a] + n * Slot
    BY <1>1, <1>3
  <2>2. a + (n + 1) \in (a + 1)..b /\ a + (n + 1) - 1 = a + n /\ a + n \in 1..Len(filt)
    BY <1>1
  <2>3. filt[a + (n + 1)] = filt[a + n] + Slot
    BY <1>1, <2>2
  <2>4. (n + 1) * Slot = n * Slot + Slot /\ n * Slot \in Int
    BY <1>1
  <2> QED BY <1>1, <2>1, <2>3, <2>4
<1> HIDE DEF E
<1>4. Nat \subseteq E
  BY <1>2, <1>3, SetInduction
<1>5. j \in Nat /\ j <= b - a
  BY <1>1
<1>6. filt[a + j] = filt[a] + j * Slot
  BY <1>4, <1>5 DEF E
<1> QED BY <1>1, <1>6

LEMMA WindowSteps ==
    ASSUME Sorted, NEW a, IsWindow(a), NEW j \in 0..(slots - 1)
    PROVE  a + j \in 1..Len(filt) /\ filt[a + j] = filt[a] + j * Slot
<1>1. /\ a \in 1..Len(filt) /\ slots \in Nat /\ slots >= 1 /\ Len(filt) \in Nat
      /\ a + slots - 1 <= Len(filt) /\ Linked(a, a + slots - 1)
  BY DEF IsWindow, Sorted
<1>2. PICK b \in a..Len(filt) : b = a + slots - 1
  BY <1>1
<1>3. j \in 0..(b - a) /\ Linked(a, b)
  BY <1>1, <1>2
<1> QED BY <1>1, <1>3, LinkedSteps

\* A window of indices is one of time.
LEMMA WindowFits ==
    ASSUME Sorted, NEW a, IsWindow(a)
    PROVE  filt[a] \in DOMAIN rate /\ Fits(filt[a])
<1>1. a \in 1..Len(filt) /\ filt[a] \in Kept /\ slots \in Nat /\ slots >= 1 /\ Slot \in Nat
  BY DEF IsWindow, Sorted
<1>2. \A j \in 0..(slots - 1) : filt[a] + j * Slot \in Kept
  BY WindowSteps DEF Sorted
<1>3. Stretch(filt[a], slots) \subseteq DOMAIN rate
  BY <1>2 DEF Stretch, Sorted
<1>4. filt[a] + (slots - 1) * Slot + Slot <= To /\ filt[a] \in Int
  <2>1. slots - 1 \in 0..(slots - 1)
    BY <1>1
  <2> QED BY <1>1, <1>2, <2>1 DEF Sorted
<1>5. (slots - 1) * Slot + Slot = slots * Slot /\ (slots - 1) * Slot \in Int
  BY <1>1
<1>6. filt[a] + slots * Slot <= To
  BY <1>4, <1>5, <1>1
<1> QED BY <1>1, <1>3, <1>6 DEF Fits, Sorted

\* And the other way round: nothing kept lies between two half-hours that follow
\* on one another.
LEMMA FitsIsWindow ==
    ASSUME Sorted, NEW f \in DOMAIN rate, Fits(f)
    PROVE  \E a \in 1..Len(filt) : filt[a] = f /\ IsWindow(a)
<1>1. /\ f \in Int /\ slots \in Nat /\ slots >= 1 /\ Slot \in Nat /\ Slot > 0
      /\ Len(filt) \in Nat /\ To \in Int /\ From \in Int
      /\ From <= f /\ f + slots * Slot <= To
  BY DEF Sorted, Fits
<1>2. ASSUME NEW j \in 0..(slots - 1) PROVE f + j * Slot \in Kept
  <2>1. f + j * Slot \in DOMAIN rate
    BY <1>2 DEF Fits, Stretch
  <2>2. j * Slot >= 0 /\ j * Slot + Slot <= slots * Slot /\ j * Slot \in Int
        /\ slots * Slot \in Int
    <3>1. slots * Slot = j * Slot + (slots - j) * Slot /\ j \in Nat /\ slots - j \in Nat
          /\ slots - j >= 1
      BY <1>1
    <3>2. (slots - j) * Slot >= Slot /\ j * Slot >= 0
      BY <1>1, <3>1
    <3> QED BY <1>1, <3>1, <3>2
  <2>3. From <= f + j * Slot /\ f + j * Slot + Slot <= To
    BY <1>1, <2>2
  <2> QED BY <2>1, <2>3 DEF Sorted
<1>3. PICK a \in 1..Len(filt) : filt[a] = f
  <2>1. 0 \in 0..(slots - 1) /\ f + 0 * Slot = f
    BY <1>1
  <2>2. f \in Kept
    BY <1>2, <2>1
  <2> QED BY <2>2 DEF Sorted
<1> DEFINE E == {n \in Nat : n < slots => a + n <= Len(filt) /\ filt[a + n] = f + n * Slot}
<1>4. 0 \in E
  BY <1>1, <1>3
<1>5. ASSUME NEW n \in Nat, n \in E PROVE n + 1 \in E
  <2> SUFFICES ASSUME n + 1 < slots
               PROVE  a + (n + 1) <= Len(filt) /\ filt[a + (n + 1)] = f + (n + 1) * Slot
    OBVIOUS
  <2>1. a + n \in 1..Len(filt) /\ filt[a + n] = f + n * Slot /\ n * Slot \in Int
    BY <1>1, <1>5
  <2>2. (n + 1) * Slot = n * Slot + Slot /\ n + 1 \in 0..(slots - 1)
    BY <1>1
  <2>3. PICK k \in 1..Len(filt) : filt[k] = f + (n + 1) * Slot
    BY <1>2, <2>2 DEF Sorted
  <2>4. PICK l \in 1..Len(filt) : l = a + n
    BY <2>1
  <2>5. filt[k] = filt[l] + Slot
    <3>1. filt[l] = f + n * Slot
      BY <2>1, <2>4
    <3> QED BY <1>1, <2>1, <2>2, <2>3, <3>1
  <2>6. k = l + 1
    BY <2>5, Neighbours
  <2>7. k = a + (n + 1) /\ k <= Len(filt)
    BY <1>1, <2>4, <2>6
  <2> QED BY <2>3, <2>7
<1> HIDE DEF E
<1>6. Nat \subseteq E
  BY <1>4, <1>5, SetInduction
<1>7. \A n \in 0..(slots - 1) : a + n <= Len(filt) /\ filt[a + n] = f + n * Slot
  BY <1>1, <1>6 DEF E
<1>8. a + slots - 1 <= Len(filt)
  <2>1. slots - 1 \in 0..(slots - 1) /\ a + (slots - 1) = a + slots - 1
    BY <1>1
  <2> QED BY <1>7, <2>1
<1>9. ASSUME NEW k \in (a + 1)..(a + slots - 1) PROVE Follows(k)
  <2>1. PICK n \in Nat : n = k - a - 1
    BY <1>1
  <2>2. n \in 0..(slots - 1) /\ n + 1 \in 0..(slots - 1) /\ a + n = k - 1 /\ a + (n + 1) = k
        /\ k > 1
    BY <1>1, <2>1
  <2>3. filt[k - 1] = f + n * Slot /\ filt[k] = f + (n + 1) * Slot
    BY <1>7, <2>2
  <2>4. (n + 1) * Slot = n * Slot + Slot /\ n * Slot \in Int
    BY <1>1
  <2> QED BY <1>1, <2>2, <2>3, <2>4 DEF Follows
<1> QED BY <1>3, <1>8, <1>9 DEF IsWindow, Linked

-----------------------------------------------------------------------------
(* What a window costs.                                                    *)

\* Total adds up price by price.
LEMMA TotalsAddUp ==
    ASSUME NEW f \in Int, NEW n \in Nat, \A k \in 0..(n - 1) : rate[f + k * Slot] \in Int
    PROVE  /\ Total(f, 0) = 0
           /\ \A m \in 0..n : Total(f, m) \in Int
           /\ \A m \in 0..(n - 1) : Total(f, m + 1) = Total(f, m) + rate[f + m * Slot]
<1> DEFINE price == [k \in Nat |-> IF k < n THEN rate[f + k * Slot] ELSE 0]
           step  == [a \in Nat \X Int |-> a[2] + price[a[1]]]
<1>1. price \in [Nat -> Int] /\ \A k \in 0..(n - 1) : price[k] = rate[f + k * Slot]
  <2>1. ASSUME NEW k \in Nat PROVE (IF k < n THEN rate[f + k * Slot] ELSE 0) \in Int
    <3>1. k < n => k \in 0..(n - 1)
      OBVIOUS
    <3> QED BY <3>1
  <2> QED BY <2>1
<1> HIDE DEF price
<1>2. PICK g \in [Nat -> Int] : g[0] = 0 /\ \A k \in Nat : g[k + 1] = g[k] + price[k]
  <2>1. IsStep(Int, step) /\ 0 \in Int
    BY <1>1 DEF IsStep
  <2> HIDE DEF step
  <2>2. PICK g : IsRecursion(g, Int, 0, step)
    BY <2>1, Recursion
  <2>3. g \in [Nat -> Int] /\ g[0] = 0 /\ \A k \in Nat : g[k + 1] = step[<<k, g[k]>>]
    BY <2>2 DEF IsRecursion
  <2> QED BY <2>3 DEF step
<1>3. ASSUME NEW m \in 0..n PROVE Total(f, m) = g[m]
  <2> DEFINE body(c, k) == IF k = 0 THEN 0 ELSE c[k - 1] + rate[f + (k - 1) * Slot]
             h == [k \in 0..m |-> g[k]]
             c == CHOOSE d : d = [k \in 0..m |-> body(d, k)]
  <2>1. h = [k \in 0..m |-> body(h, k)]
    <3>1. ASSUME NEW k \in 0..m PROVE h[k] = body(h, k)
      <4>1. CASE k = 0
        BY <1>2, <4>1
      <4>2. CASE k # 0
        <5>1. k - 1 \in Nat /\ k - 1 \in 0..(n - 1) /\ k - 1 \in 0..m /\ (k - 1) + 1 = k
          BY <4>2
        <5>2. g[k] = g[k - 1] + rate[f + (k - 1) * Slot]
          BY <1>1, <1>2, <5>1
        <5> QED BY <4>2, <5>1, <5>2
      <4> QED BY <4>1, <4>2
    <3> QED BY <3>1
  <2>2. c = [k \in 0..m |-> body(c, k)]
    <3> HIDE DEF h, body
    <3> QED BY <2>1
  <2>3. Total(f, m) = c[m]
    BY DEF Total
  <2> HIDE DEF c
  <2> DEFINE E == {k \in Nat : k <= m => c[k] = g[k]}
  <2>4. \A k \in 0..m : c[k] = body(c, k)
    <3> HIDE DEF body
    <3> QED BY <2>2
  <2>5. 0 \in E
    BY <1>2, <2>4
  <2>6. ASSUME NEW k \in Nat, k \in E PROVE k + 1 \in E
    <3> SUFFICES ASSUME k + 1 <= m PROVE c[k + 1] = g[k + 1]
      OBVIOUS
    <3>1. k + 1 \in 0..m /\ k + 1 # 0 /\ (k + 1) - 1 = k /\ k \in 0..(n - 1) /\ c[k] = g[k]
      BY <2>6
    <3>2. c[k + 1] = c[k] + rate[f + k * Slot]
      BY <2>4, <3>1
    <3> QED BY <1>1, <1>2, <3>1, <3>2
  <2> HIDE DEF E
  <2>7. m \in E
    BY <2>5, <2>6, SetInduction
  <2> QED BY <2>3, <2>7 DEF E
<1>4. \A m \in 0..n : Total(f, m) \in Int
  BY <1>2, <1>3
<1>5. Total(f, 0) = 0
  BY <1>2, <1>3
<1>6. ASSUME NEW m \in 0..(n - 1) PROVE Total(f, m + 1) = Total(f, m) + rate[f + m * Slot]
  <2>1. m \in 0..n /\ m + 1 \in 0..n /\ m \in Nat
    OBVIOUS
  <2> QED BY <1>1, <1>2, <1>3, <2>1
<1> QED BY <1>4, <1>5, <1>6

\* The prices of a window, one by one, add up to what cum grows by.
LEMMA TotalIsCost ==
    ASSUME Typed, CumInv, Sorted, i = Len(filt), NEW a, IsWindow(a)
    PROVE  Total(filt[a], slots) = Cost(a) /\ Cost(a) \in Int
<1>1. /\ a \in 1..Len(filt) /\ a + slots - 1 <= Len(filt) /\ slots \in Nat /\ slots >= 1
      /\ Len(filt) \in Nat /\ filt[a] \in Int
  BY DEF IsWindow, Sorted
<1>2. ASSUME NEW n \in 0..slots
      PROVE  a - 1 + n \in 0..i /\ cum[a - 1 + n] \in Int
  BY <1>1, PassTypes
<1>3. ASSUME NEW n \in 0..(slots - 1)
      PROVE  /\ rate[filt[a] + n * Slot] \in Int
             /\ cum[a - 1 + (n + 1)] = cum[a - 1 + n] + rate[filt[a] + n * Slot]
  <2>1. a + n \in 1..Len(filt) /\ filt[a + n] = filt[a] + n * Slot
    BY WindowSteps
  <2>2. PICK k \in 1..i : k = a + n
    BY <2>1
  <2>3. a - 1 + (n + 1) = k /\ a - 1 + n = k - 1
    BY <1>1, <2>2
  <2>4. cum[k] = cum[k - 1] + PriceOf(k)
    BY <2>2 DEF CumInv
  <2>5. PriceOf(k) = rate[filt[a] + n * Slot] /\ PriceOf(k) \in Int
    BY <2>1, <2>2 DEF PriceOf, Sorted
  <2> QED BY <2>3, <2>4, <2>5
<1>4. /\ Total(filt[a], 0) = 0
      /\ \A m \in 0..slots : Total(filt[a], m) \in Int
      /\ \A m \in 0..(slots - 1) :
            Total(filt[a], m + 1) = Total(filt[a], m) + rate[filt[a] + m * Slot]
  BY <1>1, <1>3, TotalsAddUp
<1> DEFINE E == {n \in Nat : n <= slots => Total(filt[a], n) = cum[a - 1 + n] - cum[a - 1]}
<1>5. a - 1 + 0 = a - 1 /\ cum[a - 1] \in Int
  <2>1. 0 \in 0..slots /\ a - 1 + 0 = a - 1
    BY <1>1
  <2> QED BY <1>2, <2>1
<1>6. 0 \in E
  BY <1>4, <1>5
<1>7. ASSUME NEW n \in Nat, n \in E PROVE n + 1 \in E
  <2> SUFFICES ASSUME n + 1 <= slots
               PROVE  Total(filt[a], n + 1) = cum[a - 1 + (n + 1)] - cum[a - 1]
    OBVIOUS
  <2>1. n \in 0..(slots - 1) /\ n \in 0..slots /\ n + 1 \in 0..slots
    BY <1>1
  <2>2. Total(filt[a], n) = cum[a - 1 + n] - cum[a - 1]
    BY <1>7, <2>1
  <2>3. cum[a - 1 + n] \in Int /\ cum[a - 1 + (n + 1)] \in Int
    BY <1>2, <2>1
  <2>4. Total(filt[a], n + 1) = Total(filt[a], n) + rate[filt[a] + n * Slot]
    BY <1>4, <2>1
  <2> QED BY <1>3, <1>5, <2>1, <2>2, <2>3, <2>4
<1> HIDE DEF E
<1>8. slots \in E
  BY <1>1, <1>6, <1>7, SetInduction
<1>9. slots \in 0..slots /\ a - 1 + slots = a + slots - 1
  BY <1>1
<1> QED BY <1>2, <1>5, <1>8, <1>9 DEF E, Cost

\* What holds when the function returns.
Returned == Typed /\ CumInv /\ Answer /\ ArgsInv

LEMMA ReturnedInvariant == Spec => []Returned
<1>1. Init => Returned /\ PassInv /\ BestInv
  BY InitTyped, CumInit, AnswerInit, ArgsInit, PassInit, BestInit DEF Returned
<1>2. (Returned /\ PassInv /\ BestInv) /\ [Next]_vars => (Returned /\ PassInv /\ BestInv)'
  BY StepTyped, CumStep, AnswerStep, ArgsStep, PassStep, BestStep DEF Returned
<1> QED BY <1>1, <1>2, PTL DEF Spec

\* The half-hours asked for cover the duration, and not one more is taken.
LEMMA SlotsCover ==
    ASSUME Typed, ArgsInv, Answered
    PROVE  /\ slots \in Nat /\ slots >= 1 /\ duration <= slots * Slot
           /\ slots > 1 => (slots - 1) * Slot < duration
<1>1. slots = RoundUpToSlot(duration) \div Slot
  BY DEF ArgsInv, SlotsInv, Answered, Typed, Early, TypeOK
<1>2. Slot \in Nat /\ Slot > 0
  BY WindowAssumption
<1>3. duration \in Int
  <2>1. duration \in Durations
    BY DEF Typed, TypeOK, ArgTypeOK
  <2> QED BY <2>1, WindowAssumption
<1> DEFINE r == RoundUpToSlot(duration)
<1>4. /\ r \in Nat /\ (r % Slot) = 0 /\ duration <= r /\ (r # Slot => r < duration + Slot)
      /\ r \div Slot >= 1 /\ slots = r \div Slot
  BY <1>1, <1>3, RoundUpCovers
<1> HIDE DEF r
<1>5. r = slots * Slot /\ slots \in Nat
  BY <1>2, <1>4
<1>6. ASSUME slots > 1 PROVE r # Slot /\ (slots - 1) * Slot = r - Slot
  BY <1>2, <1>5, <1>6
<1> QED BY <1>2, <1>3, <1>4, <1>5, <1>6

\* An error means that no window of time fits, however the half-hours are spread.
THEOREM RefusesOnlyMisfitsHolds == Spec => []RefusesOnlyMisfits
<1>1. ASSUME Returned PROVE RefusesOnlyMisfits
  <2> SUFFICES ASSUME result \in {"no rates", "too long"}, NEW f \in DOMAIN rate, Fits(f)
               PROVE  FALSE
    BY DEF RefusesOnlyMisfits
  <2>1. Answered
    BY DEF Answered
  <2>2. slots >= 1
    BY <1>1, <2>1, SlotsCover DEF Returned
  <2>3. Sorted
    BY <1>1, <2>1, <2>2, AnswerSorted DEF Returned
  <2>4. PICK a \in 1..Len(filt) : IsWindow(a)
    BY <2>3, FitsIsWindow
  <2> QED BY <1>1, <2>4 DEF Returned, Answer, ErrorMeansNone
<1> QED BY <1>1, ReturnedInvariant, PTL

\* The window returned costs what its half-hours cost together, and every other
\* window of time that fits costs more, or as much and starts later.
THEOREM ReturnsTheCheapestHolds == Spec => []ReturnsTheCheapest
<1>1. ASSUME Returned PROVE ReturnsTheCheapest
  <2> SUFFICES ASSUME result = "found"
               PROVE  LET best == filt[bestStart]
                      IN  /\ duration <= slots * Slot
                          /\ slots > 1 => (slots - 1) * Slot < duration
                          /\ Fits(best) /\ Total(best, slots) = bestSum
                          /\ \A f \in DOMAIN rate : Fits(f) =>
                                \/ bestSum < Total(f, slots)
                                \/ bestSum = Total(f, slots) /\ best <= f
    BY DEF ReturnsTheCheapest
  <2>1. Answered
    BY DEF Answered
  <2>2. /\ slots \in Nat /\ slots >= 1 /\ duration <= slots * Slot
        /\ slots > 1 => (slots - 1) * Slot < duration
    BY <1>1, <2>1, SlotsCover DEF Returned
  <2>3. Sorted
    BY <1>1, <2>1, <2>2, AnswerSorted DEF Returned
  <2>4. Typed /\ CumInv /\ i = Len(filt) /\ bestStart # 0 /\ BestUpTo(Len(filt))
    BY <1>1 DEF Returned, Answer, FoundIsCheapest, ArgsInv, PassedInv
  <2>5. /\ IsWindow(bestStart) /\ bestSum = Cost(bestStart) /\ bestStart \in 1..Len(filt)
        /\ \A a \in 1..Len(filt) : IsWindow(a) /\ a + slots - 1 <= Len(filt) =>
              \/ bestSum < Cost(a)
              \/ bestSum = Cost(a) /\ bestStart <= a
    BY <2>4 DEF BestUpTo, IsWindow
  <2>6. Fits(filt[bestStart]) /\ Total(filt[bestStart], slots) = bestSum
    BY <2>3, <2>4, <2>5, WindowFits, TotalIsCost
  <2>7. ASSUME NEW f \in DOMAIN rate, Fits(f)
        PROVE  bestSum < Total(f, slots) \/ (bestSum = Total(f, slots) /\ filt[bestStart] <= f)
    <3>1. PICK a \in 1..Len(filt) : filt[a] = f /\ IsWindow(a)
      BY <2>3, <2>7, FitsIsWindow
    <3>2. Total(f, slots) = Cost(a)
      BY <2>3, <2>4, <3>1, TotalIsCost
    <3>3. bestSum < Cost(a) \/ (bestSum = Cost(a) /\ bestStart <= a)
      BY <2>5, <3>1 DEF IsWindow
    <3>4. bestStart <= a => filt[bestStart] <= f
      <4>1. CASE bestStart = a
        BY <2>3, <3>1, <4>1 DEF Sorted
      <4>2. CASE bestStart < a
        <5>1. filt[bestStart] + Slot <= filt[a] /\ filt[bestStart] \in Int /\ filt[a] \in Int
              /\ Slot \in Nat
          BY <2>3, <2>5, <4>2 DEF Sorted
        <5> QED BY <3>1, <5>1
      <4> QED BY <2>3, <2>5, <4>1, <4>2 DEF Sorted
    <3> QED BY <3>2, <3>3, <3>4
  <2> QED BY <2>2, <2>6, <2>7
<1> QED BY <1>1, ReturnedInvariant, PTL

-----------------------------------------------------------------------------
(* The runs below a threshold.                                             *)

Run    == [start : Int, end : Int, slots : Nat \ {0}, sum : Int, min : Int]
States == [out : Seq(Run), cur : Run \cup {NoRun}]
Begun  == [out |-> <<>>, cur |-> NoRun]

\* Flush adds the run under way, if there is one.
LEMMA FlushCases ==
    ASSUME NEW s \in States
    PROVE  /\ s.out \in Seq(Run) /\ Len(s.out) \in Nat /\ s.cur \in Run \cup {NoRun}
           /\ s.cur = NoRun => Flush(s) = s.out
           /\ s.cur # NoRun => /\ s.cur \in Run
                               /\ Flush(s) \in Seq(Run) /\ Len(Flush(s)) = Len(s.out) + 1
                               /\ Flush(s)[Len(s.out) + 1] = s.cur
                               /\ \A j \in 1..Len(s.out) : Flush(s)[j] = s.out[j]
<1>1. s.out \in Seq(Run) /\ s.cur \in Run \cup {NoRun}
  BY DEF States
<1>2. Len(s.out) \in Nat
  BY <1>1, LenProperties
<1>3. CASE s.cur = NoRun
  BY <1>1, <1>2, <1>3 DEF Flush
<1>4. CASE s.cur # NoRun
  <2>1. s.cur \in Run /\ Flush(s) = Append(s.out, s.cur)
    BY <1>1, <1>4 DEF Flush
  <2> QED BY <1>1, <1>2, <1>4, <2>1, AppendProperties
<1> QED BY <1>3, <1>4

LEMMA RunIsThere == NoRun \notin Run
BY DEF NoRun, Run

\* What a half-hour does to the state of the pass.
LEMMA AfterRateCases ==
    ASSUME Sorted, NEW T \in Int, NEW s \in States, NEW k \in 1..Len(filt)
    PROVE  /\ AfterRate(s, k, T) \in States
           /\ LET n == AfterRate(s, k, T)
              IN  \/ ~(PriceOf(k) < T) /\ n.out = Flush(s) /\ n.cur = NoRun
                  \/ /\ PriceOf(k) < T /\ Follows(k) /\ s.cur # NoRun
                     /\ n.out = s.out /\ n.cur = Lengthen(s.cur, k) /\ n.cur # NoRun
                  \/ /\ PriceOf(k) < T /\ (~Follows(k) \/ s.cur = NoRun)
                     /\ n.out = Flush(s) /\ n.cur = FirstOf(k) /\ n.cur # NoRun
<1>1. filt[k] \in Int /\ PriceOf(k) \in Int /\ Slot \in Nat
  BY DEF Sorted, PriceOf
<1>2. Flush(s) \in Seq(Run) /\ s.out \in Seq(Run)
  BY FlushCases
<1>3. FirstOf(k) \in Run
  BY <1>1 DEF FirstOf, Run
<1>4. s.cur \in Run => Lengthen(s.cur, k) \in Run
  <2> SUFFICES ASSUME s.cur \in Run PROVE Lengthen(s.cur, k) \in Run
    OBVIOUS
  <2>1. /\ s.cur.start \in Int /\ s.cur.slots \in Nat \ {0} /\ s.cur.sum \in Int
        /\ s.cur.min \in Int
    BY DEF Run
  <2>2. /\ filt[k] + Slot \in Int /\ s.cur.slots + 1 \in Nat \ {0}
        /\ s.cur.sum + PriceOf(k) \in Int
    <3>1. s.cur.slots + 1 \in Nat \ {0}
      BY <2>1
    <3>2. filt[k] + Slot \in Int
      BY <1>1
    <3>3. s.cur.sum + PriceOf(k) \in Int
      BY <1>1, <2>1
    <3> QED BY <3>1, <3>2, <3>3
  <2>3. (IF PriceOf(k) < s.cur.min THEN PriceOf(k) ELSE s.cur.min) \in Int
    <3>1. PriceOf(k) \in Int /\ s.cur.min \in Int
      BY <1>1, <2>1
    <3> QED BY <3>1, Zenon
  <2> QED BY <2>1, <2>2, <2>3 DEF Lengthen, Run
<1>5. CASE ~(PriceOf(k) < T)
  BY <1>2, <1>5 DEF AfterRate, States
<1>6. CASE PriceOf(k) < T /\ Follows(k) /\ s.cur # NoRun
  <2>1. s.cur \in Run
    BY <1>6, FlushCases
  <2>2. AfterRate(s, k, T) = [s EXCEPT !.cur = Lengthen(s.cur, k)]
    BY <1>6 DEF AfterRate
  <2>3. AfterRate(s, k, T) = [out |-> s.out, cur |-> Lengthen(s.cur, k)]
    BY <2>2 DEF States
  <2> QED BY <1>2, <1>4, <1>6, <2>1, <2>3, RunIsThere DEF States
<1>7. CASE PriceOf(k) < T /\ ~(Follows(k) /\ s.cur # NoRun)
  <2>1. AfterRate(s, k, T) = [out |-> Flush(s), cur |-> FirstOf(k)]
    BY <1>7 DEF AfterRate
  <2> QED BY <1>2, <1>3, <1>7, <2>1, RunIsThere DEF States
<1> QED BY <1>5, <1>6, <1>7

\* p is what the pass goes through.
IsPass(p, T) == /\ p \in [0..Len(filt) -> States] /\ p[0] = Begun
                /\ \A k \in 1..Len(filt) : p[k] = AfterRate(p[k - 1], k, T)

LEMMA PassExists ==
    ASSUME Sorted, NEW T \in Int
    PROVE  \E p : IsPass(p, T) /\ ContiguousRunsBelow(T) = Flush(p[Len(filt)])
<1> DEFINE N == Len(filt)
           step == [a \in Nat \X States |-> IF a[1] < N THEN AfterRate(a[2], a[1] + 1, T)
                                                        ELSE a[2]]
           body(c, k) == IF k = 0 THEN [out |-> <<>>, cur |-> NoRun]
                         ELSE AfterRate(c[k - 1], k, T)
           c == CHOOSE d : d = [k \in 0..N |-> body(d, k)]
<1>1. N \in Nat
  BY DEF Sorted
<1>2. Begun \in States
  BY EmptySeq DEF Begun, States
<1>3. ASSUME NEW k \in Nat, NEW s \in States
      PROVE  (IF k < N THEN AfterRate(s, k + 1, T) ELSE s) \in States
  <2>1. CASE k < N
    <3>1. k + 1 \in 1..Len(filt)
      BY <1>1, <2>1
    <3> QED BY <2>1, <3>1, AfterRateCases
  <2>2. CASE ~(k < N)
    BY <2>2
  <2> QED BY <2>1, <2>2
<1>4. PICK g \in [Nat -> States] :
         g[0] = Begun /\ \A k \in Nat : k < N => g[k + 1] = AfterRate(g[k], k + 1, T)
  <2>1. IsStep(States, step)
    <3> HIDE DEF N
    <3> QED BY <1>3 DEF IsStep
  <2>2. PICK g : IsRecursion(g, States, Begun, step)
    <3> HIDE DEF step
    <3> QED BY <1>2, <2>1, Recursion
  <2>3. g \in [Nat -> States] /\ g[0] = Begun /\ \A k \in Nat : g[k + 1] = step[<<k, g[k]>>]
    <3> HIDE DEF step
    <3> QED BY <2>2 DEF IsRecursion
  <2>4. \A k \in Nat : k < N => g[k + 1] = AfterRate(g[k], k + 1, T)
    <3> HIDE DEF N
    <3> QED BY <2>3
  <2> QED BY <2>3, <2>4
<1>5. ASSUME NEW k \in 1..N PROVE k - 1 \in Nat /\ k - 1 \in 0..N /\ k - 1 < N /\ (k - 1) + 1 = k
  BY <1>1
<1> DEFINE h == [k \in 0..N |-> g[k]]
<1> HIDE DEF N
<1>6. ASSUME NEW k \in 1..N PROVE h[k] = AfterRate(h[k - 1], k, T)
  <2>1. g[k] = AfterRate(g[k - 1], k, T)
    BY <1>4, <1>5
  <2> QED BY <1>1, <1>5, <2>1
<1>7. h \in [0..N -> States] /\ h[0] = Begun
  BY <1>1, <1>4
<1>8. h = [k \in 0..N |-> body(h, k)]
  <2>1. ASSUME NEW k \in 0..N PROVE h[k] = body(h, k)
    <3>1. CASE k = 0
      BY <1>7, <3>1 DEF Begun
    <3>2. CASE k # 0
      <4>1. k \in 1..N
        BY <1>1, <3>2
      <4> HIDE DEF h
      <4> QED BY <1>6, <3>2, <4>1
    <3> HIDE DEF h, body
    <3> QED BY <3>1, <3>2
  <2> HIDE DEF body
  <2> QED BY <2>1
<1>9. c = [k \in 0..N |-> body(c, k)]
  <2> HIDE DEF h, body
  <2> QED BY <1>8
<1>10. ContiguousRunsBelow(T) = Flush(c[N])
  BY DEF ContiguousRunsBelow, N
<1> HIDE DEF c, h
<1>11. \A k \in 0..N : c[k] = body(c, k) /\ h[k] = body(h, k)
  <2> HIDE DEF body
  <2> QED BY <1>8, <1>9
<1> DEFINE E == {k \in Nat : k <= N => c[k] = h[k]}
<1>12. 0 \in E
  BY <1>1, <1>11
<1>13. ASSUME NEW k \in Nat, k \in E PROVE k + 1 \in E
  <2> SUFFICES ASSUME k + 1 <= N PROVE c[k + 1] = h[k + 1]
    OBVIOUS
  <2>1. k + 1 \in 0..N /\ k + 1 # 0 /\ (k + 1) - 1 = k /\ c[k] = h[k]
    BY <1>1, <1>13
  <2>2. c[k + 1] = AfterRate(c[k], k + 1, T) /\ h[k + 1] = AfterRate(h[k], k + 1, T)
    BY <1>11, <2>1
  <2> QED BY <2>1, <2>2
<1> HIDE DEF E
<1>14. N \in E
  BY <1>1, <1>12, <1>13, SetInduction
<1>15. ContiguousRunsBelow(T) = Flush(h[N])
  BY <1>1, <1>10, <1>14 DEF E
<1> QED BY <1>6, <1>7, <1>15 DEF IsPass, N

\* r is the run of the half-hours filt[a..b], all below T.
IsRun(r, a, b, T) ==
    /\ a \in 1..Len(filt) /\ b \in a..Len(filt) /\ Linked(a, b)
    /\ \A j \in a..b : PriceOf(j) < T
    /\ r.start = filt[a] /\ r.end = filt[b] + Slot /\ r.slots = b - a + 1
    /\ r.sum = Total(filt[a], b - a + 1)
    /\ \E j \in a..b : r.min = PriceOf(j)
    /\ \A j \in a..b : r.min <= PriceOf(j)

\* A run may begin with filt[a], and end with filt[b].
Opens(a, T)  == a = 1 \/ ~Follows(a) \/ ~(PriceOf(a - 1) < T)
Closes(b, T) == b = Len(filt) \/ ~Follows(b + 1) \/ ~(PriceOf(b + 1) < T)

LEMMA FirstIsRun ==
    ASSUME Sorted, NEW T \in Int, NEW k \in 1..Len(filt), PriceOf(k) < T
    PROVE  IsRun(FirstOf(k), k, k, T)
<1>1. filt[k] \in Int /\ PriceOf(k) \in Int /\ Slot \in Nat /\ Len(filt) \in Nat
  BY DEF Sorted, PriceOf
<1>2. Total(filt[k], 1) = PriceOf(k)
  <2>1. \A m \in 0..(1 - 1) : rate[filt[k] + m * Slot] \in Int
    BY <1>1 DEF PriceOf
  <2>2. /\ Total(filt[k], 0) = 0
        /\ \A m \in 0..(1 - 1) : Total(filt[k], m + 1) = Total(filt[k], m) + rate[filt[k] + m * Slot]
    BY <1>1, <2>1, TotalsAddUp
  <2>3. Total(filt[k], 0 + 1) = Total(filt[k], 0) + rate[filt[k] + 0 * Slot]
    BY <2>2
  <2>4. 0 + 1 = 1 /\ filt[k] + 0 * Slot = filt[k]
    BY <1>1
  <2> QED BY <1>1, <2>2, <2>3, <2>4 DEF PriceOf
<1>3. k \in k..Len(filt) /\ k - k + 1 = 1 /\ \A j \in k..k : j = k
  BY <1>1
<1>4. Linked(k, k)
  BY <1>1 DEF Linked
<1> QED BY <1>1, <1>2, <1>3, <1>4 DEF IsRun, FirstOf

LEMMA LengthenedIsRun ==
    ASSUME Sorted, NEW T \in Int, NEW k \in 1..Len(filt), PriceOf(k) < T, Follows(k),
           NEW r \in Run, NEW a \in 1..(k - 1), IsRun(r, a, k - 1, T)
    PROVE  IsRun(Lengthen(r, k), a, k, T)
<1>1. /\ Len(filt) \in Nat /\ Slot \in Nat
      /\ \A j \in 1..Len(filt) : filt[j] \in Int /\ PriceOf(j) \in Int
  BY DEF Sorted, PriceOf
<1>2. /\ a \in 1..Len(filt) /\ k \in a..Len(filt) /\ a <= k - 1
      /\ \A j \in a..(k - 1) : PriceOf(j) < T
      /\ r.start = filt[a] /\ r.slots = k - 1 - a + 1 /\ r.sum = Total(filt[a], k - 1 - a + 1)
      /\ r.min \in Int
  BY <1>1 DEF IsRun, Run
<1>3. Linked(a, k)
  BY <1>1 DEF IsRun, Linked
<1>4. \A j \in 0..(k - a) : a + j \in 1..Len(filt) /\ filt[a + j] = filt[a] + j * Slot
  BY <1>2, <1>3, LinkedSteps
<1>5. PICK n \in Nat : n = k - a /\ a + n = k
  BY <1>2
<1>6. \A j \in 0..((n + 1) - 1) : rate[filt[a] + j * Slot] \in Int
  <2>1. ASSUME NEW j \in 0..((n + 1) - 1)
        PROVE  rate[filt[a] + j * Slot] \in Int
    <3>1. j \in 0..(k - a)
      BY <1>5
    <3>2. PICK l \in 1..Len(filt) : l = a + j
      BY <1>4, <3>1
    <3>3. filt[l] = filt[a] + j * Slot /\ rate[filt[l]] \in Int
      BY <1>1, <1>4, <3>1, <3>2 DEF PriceOf
    <3> QED BY <3>3
  <2> QED BY <2>1
<1>7. Total(filt[a], n + 1) = Total(filt[a], n) + PriceOf(k)
  <2>0. PICK N \in Nat : N = n + 1
    OBVIOUS
  <2>1. \A m \in 0..(N - 1) :
           Total(filt[a], m + 1) = Total(filt[a], m) + rate[filt[a] + m * Slot]
    <3>1. \A j \in 0..(N - 1) : rate[filt[a] + j * Slot] \in Int
      BY <1>6, <2>0
    <3>2. filt[a] \in Int
      BY <1>1, <1>2
    <3> QED BY <3>1, <3>2, TotalsAddUp
  <2>2. n \in 0..(N - 1) /\ n \in 0..(k - a)
    BY <1>5, <2>0
  <2>3. filt[k] = filt[a] + n * Slot
    BY <1>4, <1>5, <2>2
  <2> QED BY <2>1, <2>2, <2>3 DEF PriceOf
<1> DEFINE q == Lengthen(r, k)
<1>8. /\ q.start = filt[a] /\ q.end = filt[k] + Slot /\ q.slots = k - a + 1
      /\ q.sum = Total(filt[a], k - a + 1)
  <2>1. k - 1 - a + 1 = n /\ k - a + 1 = n + 1
    BY <1>2, <1>5
  <2>2. /\ q.start = r.start /\ q.end = filt[k] + Slot /\ q.slots = r.slots + 1
        /\ q.sum = r.sum + PriceOf(k)
    BY DEF Lengthen
  <2> QED BY <1>2, <1>7, <2>1, <2>2
<1>9. \A j \in a..k : j \in a..(k - 1) \/ j = k
  BY <1>2
<1>10. k \in a..k /\ a..(k - 1) \subseteq a..k
  BY <1>2
<1>11. q.min = IF PriceOf(k) < r.min THEN PriceOf(k) ELSE r.min
  BY DEF Lengthen
<1>12. PriceOf(k) \in Int /\ \A j \in a..(k - 1) : PriceOf(j) \in Int
  BY <1>1, <1>2
<1>13. /\ \E j \in a..(k - 1) : r.min = PriceOf(j)
       /\ \A j \in a..(k - 1) : r.min <= PriceOf(j)
  BY DEF IsRun
<1> HIDE DEF q
<1>14. \E j \in a..k : q.min = PriceOf(j)
  BY <1>10, <1>11, <1>13
<1>15. \A j \in a..k : q.min <= PriceOf(j)
  BY <1>2, <1>9, <1>11, <1>12, <1>13
<1>16. \A j \in a..k : PriceOf(j) < T
  BY <1>2, <1>9
<1> QED BY <1>2, <1>3, <1>8, <1>14, <1>15, <1>16 DEF IsRun, q

\* The time f is in the run r.
Holds(r, f) == r.start <= f /\ f < r.end

\* Of the half-hours up to filt[k], those below T are in the runs told in R or in
\* the one under way, and the runs come one after the other.
Whole(R, k, T)   == \A j \in 1..Len(R) : \E a \in 1..k : \E b \in a..k :
                       IsRun(R[j], a, b, T) /\ Opens(a, T) /\ Closes(b, T)
Ordered(R)       == \A j, l \in 1..Len(R) : j < l => R[j].end < R[l].start
Found(R, f)      == \E j \in 1..Len(R) : Holds(R[j], f)

PassAt(s, k, T) ==
    /\ s \in States /\ Whole(s.out, k, T) /\ Ordered(s.out)
    /\ s.cur # NoRun => \E a \in 1..k : IsRun(s.cur, a, k, T) /\ Opens(a, T)
    /\ s.cur = NoRun => k = 0 \/ ~(PriceOf(k) < T)
    /\ \A j \in 1..Len(s.out) : IF s.cur = NoRun THEN k >= 1 /\ s.out[j].end <= filt[k]
                                ELSE s.out[j].end < s.cur.start
    /\ \A l \in 1..k : PriceOf(l) < T =>
          Found(s.out, filt[l]) \/ (s.cur # NoRun /\ Holds(s.cur, filt[l]))

\* All runs up to filt[k], told.
Told(R, k, T) == /\ R \in Seq(Run) /\ Whole(R, k, T) /\ Ordered(R)
                 /\ \A j \in 1..Len(R) : k >= 1 /\ R[j].end <= filt[k] + Slot
                 /\ \A l \in 1..k : PriceOf(l) < T => Found(R, filt[l])

\* Times of runs are numbers, and a run has some length.
LEMMA RunSpan ==
    ASSUME Sorted, NEW T, NEW r, NEW a, NEW b, IsRun(r, a, b, T)
    PROVE  /\ r.start \in Int /\ r.end \in Int /\ r.start < r.end
           /\ filt[a] \in Int /\ filt[b] \in Int /\ filt[a] <= filt[b]
<1>1. /\ a \in 1..Len(filt) /\ b \in a..Len(filt) /\ Slot \in Nat /\ Slot > 0
      /\ Len(filt) \in Nat /\ r.start = filt[a] /\ r.end = filt[b] + Slot
  BY DEF IsRun, Sorted
<1>2. filt[a] \in Int /\ filt[b] \in Int
  BY <1>1 DEF Sorted
<1>3. CASE a = b
  BY <1>1, <1>2, <1>3
<1>4. CASE a < b
  <2>1. filt[a] + Slot <= filt[b]
    BY <1>1, <1>4 DEF Sorted
  <2> QED BY <1>1, <1>2, <2>1
<1> QED BY <1>1, <1>3, <1>4

\* Flush tells all runs, if the one under way may end here.
LEMMA FlushTells ==
    ASSUME Sorted, NEW T \in Int, NEW k \in 0..Len(filt), NEW s, PassAt(s, k, T),
           s.cur # NoRun => Closes(k, T)
    PROVE  /\ Told(Flush(s), k, T)
           /\ s.cur = NoRun => \A j \in 1..Len(Flush(s)) : Flush(s)[j].end <= filt[k]
<1> DEFINE R == Flush(s)
           n == Len(s.out)
<1>1. s \in States /\ Len(filt) \in Nat /\ Slot \in Nat /\ Slot > 0
  BY DEF PassAt, Sorted
<1>2. /\ s.out \in Seq(Run) /\ n \in Nat
      /\ s.cur = NoRun => R = s.out
      /\ s.cur # NoRun => /\ s.cur \in Run
                          /\ R \in Seq(Run) /\ Len(R) = n + 1 /\ R[n + 1] = s.cur
                          /\ \A j \in 1..n : R[j] = s.out[j]
  BY <1>1, FlushCases
<1> HIDE DEF R
<1>3. CASE s.cur = NoRun
  <2>1. R = s.out
    BY <1>2, <1>3
  <2>2. \A j \in 1..Len(R) : k >= 1 /\ R[j].end <= filt[k]
    BY <1>3, <2>1 DEF PassAt
  <2>3. ASSUME NEW j \in 1..Len(R) PROVE k >= 1 /\ R[j].end <= filt[k] + Slot
    <3>1. PICK a \in 1..k : \E b \in a..k : IsRun(R[j], a, b, T)
      BY <2>1 DEF PassAt, Whole
    <3>2. R[j].end \in Int
      BY <3>1, RunSpan
    <3>3. k \in 1..Len(filt) /\ filt[k] \in Int
      BY <1>1, <3>1 DEF Sorted
    <3> QED BY <1>1, <2>2, <3>2, <3>3
  <2>4. \A l \in 1..k : PriceOf(l) < T => Found(R, filt[l])
    BY <1>3, <2>1 DEF PassAt
  <2>5. R \in Seq(Run) /\ Whole(R, k, T) /\ Ordered(R)
    BY <1>2, <2>1 DEF PassAt
  <2> QED BY <1>3, <2>2, <2>3, <2>4, <2>5 DEF Told, R
<1>4. CASE s.cur # NoRun
  <2>1. /\ R \in Seq(Run) /\ Len(R) = n + 1 /\ R[n + 1] = s.cur
        /\ \A j \in 1..n : R[j] = s.out[j]
    BY <1>2, <1>4
  <2>2. \A j \in 1..Len(R) : j \in 1..n \/ j = n + 1
    BY <1>2, <2>1
  <2>3. PICK a \in 1..k : IsRun(s.cur, a, k, T) /\ Opens(a, T)
    BY <1>4 DEF PassAt
  <2>4. k \in a..k /\ k >= 1 /\ k \in 1..Len(filt) /\ filt[k] \in Int
    BY <1>1, <2>3 DEF Sorted
  <2>5. Whole(R, k, T)
    <3>1. ASSUME NEW j \in 1..Len(R)
          PROVE  \E c \in 1..k : \E b \in c..k :
                    IsRun(R[j], c, b, T) /\ Opens(c, T) /\ Closes(b, T)
      <4>1. CASE j \in 1..n
        BY <2>1, <4>1 DEF PassAt, Whole
      <4>2. CASE j = n + 1
        BY <1>4, <2>1, <2>3, <2>4, <4>2
      <4> QED BY <2>2, <4>1, <4>2
    <3> QED BY <3>1 DEF Whole
  <2>6. \A j \in 1..n : s.out[j].end < s.cur.start
    BY <1>4 DEF PassAt
  <2>7. Ordered(R)
    <3>1. ASSUME NEW j \in 1..Len(R), NEW l \in 1..Len(R), j < l
          PROVE  R[j].end < R[l].start
      <4>1. j \in 1..n
        BY <1>2, <2>1, <3>1
      <4>2. CASE l \in 1..n
        BY <2>1, <3>1, <4>1, <4>2 DEF PassAt, Ordered
      <4>3. CASE l = n + 1
        BY <2>1, <2>6, <4>1, <4>3
      <4> QED BY <2>2, <4>2, <4>3
    <3> QED BY <3>1 DEF Ordered
  <2>8. ASSUME NEW j \in 1..Len(R) PROVE k >= 1 /\ R[j].end <= filt[k] + Slot
    <3>1. s.cur.start \in Int /\ s.cur.end \in Int /\ s.cur.start < s.cur.end
          /\ s.cur.end = filt[k] + Slot
      BY <2>3, RunSpan DEF IsRun
    <3>2. CASE j \in 1..n
      <4>1. R[j].end \in Int
        <5>1. \E c, b : IsRun(R[j], c, b, T)
          BY <2>5 DEF Whole
        <5> QED BY <5>1, RunSpan
      <4>2. R[j].end < s.cur.start
        BY <2>1, <2>6, <3>2
      <4>3. R[j].end <= s.cur.end
        BY <3>1, <4>1, <4>2
      <4> QED BY <2>4, <3>1, <4>3
    <3>3. CASE j = n + 1
      BY <1>1, <2>1, <2>4, <3>1, <3>3
    <3> QED BY <2>2, <3>2, <3>3
  <2>9. ASSUME NEW l \in 1..k, PriceOf(l) < T PROVE Found(R, filt[l])
    <3>1. CASE Found(s.out, filt[l])
      <4>1. PICK j \in 1..n : Holds(s.out[j], filt[l])
        BY <3>1 DEF Found
      <4>2. j \in 1..Len(R) /\ R[j] = s.out[j]
        BY <1>2, <2>1
      <4> QED BY <4>1, <4>2 DEF Found
    <3>2. CASE Holds(s.cur, filt[l])
      <4>1. n + 1 \in 1..Len(R)
        BY <1>2, <2>1
      <4> QED BY <2>1, <3>2, <4>1 DEF Found
    <3> QED BY <2>9, <3>1, <3>2 DEF PassAt
  <2> QED BY <1>4, <2>1, <2>5, <2>7, <2>8, <2>9 DEF Told, R
<1> QED BY <1>3, <1>4

LEMMA RunTimes ==
    ASSUME NEW R \in Seq(Run), NEW j \in 1..Len(R)
    PROVE  R[j] \in Run /\ R[j].start \in Int /\ R[j].end \in Int
<1>1. R[j] \in Run
  BY ElementOfSeq, LenProperties
<1> QED BY <1>1 DEF Run

LEMMA WholeFurther ==
    ASSUME NEW T, NEW k \in Nat, NEW m \in Nat, k <= m, NEW R, Whole(R, k, T)
    PROVE  Whole(R, m, T)
<1>1. 1..k \subseteq 1..m /\ \A a \in 1..k : a..k \subseteq a..m
  OBVIOUS
<1> QED BY <1>1 DEF Whole

\* A half-hour that is not below T ends the run under way.
LEMMA PassOver ==
    ASSUME Sorted, NEW T \in Int, NEW m \in 1..Len(filt), NEW s, PassAt(s, m - 1, T),
           ~(PriceOf(m) < T), NEW n \in States, n.out = Flush(s), n.cur = NoRun
    PROVE  PassAt(n, m, T)
<1>1. PICK k \in 0..Len(filt) : k = m - 1 /\ m = k + 1 /\ k \in Nat /\ k <= m
  BY DEF Sorted
<1>2. Told(Flush(s), k, T)
  <2>1. Closes(k, T)
    BY <1>1 DEF Closes
  <2> QED BY <1>1, <2>1, FlushTells
<1> DEFINE R == Flush(s)
<1> HIDE DEF R
<1>3. /\ n.out = R /\ R \in Seq(Run) /\ Whole(R, m, T) /\ Ordered(R)
      /\ \A j \in 1..Len(R) : k >= 1 /\ R[j].end <= filt[k] + Slot
      /\ \A l \in 1..k : PriceOf(l) < T => Found(R, filt[l])
  BY <1>1, <1>2, WholeFurther DEF Told, R
<1>4. ASSUME NEW j \in 1..Len(R) PROVE m >= 1 /\ R[j].end <= filt[m]
  <2>1. R[j].end \in Int /\ R[j].end <= filt[k] + Slot /\ k \in 1..Len(filt) /\ k < m
    BY <1>1, <1>3, RunTimes
  <2>2. filt[k] + Slot <= filt[m] /\ filt[k] \in Int /\ filt[m] \in Int /\ Slot \in Nat
    BY <2>1 DEF Sorted
  <2> QED BY <2>1, <2>2
<1>5. \A l \in 1..m : PriceOf(l) < T => l \in 1..k
  <2>1. \A l \in 1..m : l \in 1..k \/ l = m
    BY <1>1
  <2> QED BY <2>1
<1> QED BY <1>3, <1>4, <1>5 DEF PassAt

\* A half-hour below T that follows on the run under way lengthens it.
LEMMA PassAlong ==
    ASSUME Sorted, NEW T \in Int, NEW m \in 1..Len(filt), NEW s, PassAt(s, m - 1, T),
           PriceOf(m) < T, Follows(m), s.cur # NoRun,
           NEW n \in States, n.out = s.out, n.cur = Lengthen(s.cur, m), n.cur # NoRun
    PROVE  PassAt(n, m, T)
<1>1. PICK k \in Nat : k = m - 1 /\ m = k + 1 /\ k <= m
  OBVIOUS
<1>2. /\ s \in States /\ Whole(s.out, k, T) /\ Ordered(s.out)
      /\ \A j \in 1..Len(s.out) : s.out[j].end < s.cur.start
      /\ \A l \in 1..k : PriceOf(l) < T => Found(s.out, filt[l]) \/ Holds(s.cur, filt[l])
  BY <1>1 DEF PassAt
<1>3. s.cur \in Run
  BY <1>2, FlushCases
<1>4. PICK a \in 1..k : IsRun(s.cur, a, k, T) /\ Opens(a, T)
  BY <1>1 DEF PassAt
<1>5. IsRun(n.cur, a, m, T)
  BY <1>1, <1>3, <1>4, LengthenedIsRun
<1>6. /\ n.cur.start \in Int /\ n.cur.end \in Int /\ s.cur.start \in Int /\ s.cur.end \in Int
      /\ filt[a] \in Int /\ filt[k] \in Int /\ filt[m] \in Int /\ filt[a] <= filt[m]
  BY <1>4, <1>5, RunSpan
<1>7. /\ n.cur.start = filt[a] /\ s.cur.start = filt[a]
      /\ n.cur.end = filt[m] + Slot /\ s.cur.end = filt[k] + Slot
  BY <1>4, <1>5 DEF IsRun
<1>8. filt[m] = filt[k] + Slot /\ Slot \in Nat /\ Slot > 0
  BY <1>1 DEF Follows, Sorted
<1>9. ASSUME NEW l \in 1..m, PriceOf(l) < T
      PROVE  Found(n.out, filt[l]) \/ Holds(n.cur, filt[l])
  <2>1. CASE l = m
    BY <1>6, <1>7, <1>8, <2>1 DEF Holds
  <2>2. CASE l # m
    <3>1. l \in 1..k
      BY <1>1, <2>2
    <3>2. CASE Holds(s.cur, filt[l])
      <4>1. filt[l] \in Int
        <5>1. l \in 1..Len(filt)
          BY DEF Sorted
        <5> QED BY <5>1 DEF Sorted
      <4>2. n.cur.start <= filt[l] /\ filt[l] < s.cur.end
        BY <1>7, <3>2 DEF Holds
      <4>3. s.cur.end <= n.cur.end
        BY <1>6, <1>7, <1>8
      <4>4. s.cur.end \in Int /\ n.cur.end \in Int
        BY <1>6
      <4>5. filt[l] < n.cur.end
        BY <4>1, <4>2, <4>3, <4>4
      <4> QED BY <4>2, <4>5 DEF Holds
    <3>3. Found(s.out, filt[l]) \/ Holds(s.cur, filt[l])
      BY <1>2, <1>9, <3>1
    <3>4. CASE Found(s.out, filt[l])
      BY <3>4
    <3> QED BY <3>2, <3>3, <3>4
  <2> QED BY <2>1, <2>2
<1>10. Whole(n.out, m, T)
  BY <1>1, <1>2, WholeFurther
<1>11. a \in 1..m
  BY <1>1
<1> QED BY <1>2, <1>4, <1>5, <1>7, <1>9, <1>10, <1>11 DEF PassAt

\* Any other half-hour below T starts a run.
LEMMA PassAnew ==
    ASSUME Sorted, NEW T \in Int, NEW m \in 1..Len(filt), NEW s, PassAt(s, m - 1, T),
           PriceOf(m) < T, ~Follows(m) \/ s.cur = NoRun,
           NEW n \in States, n.out = Flush(s), n.cur = FirstOf(m), n.cur # NoRun
    PROVE  PassAt(n, m, T)
<1>1. PICK k \in 0..Len(filt) : k = m - 1 /\ m = k + 1 /\ k \in Nat /\ k <= m
  BY DEF Sorted
<1>2. s.cur # NoRun => Closes(k, T)
  BY <1>1 DEF Closes
<1>3. PICK R : R = Flush(s)
  OBVIOUS
<1>11. /\ Told(R, k, T)
       /\ s.cur = NoRun => \A j \in 1..Len(R) : R[j].end <= filt[k]
  <2>1. PassAt(s, k, T)
    BY <1>1
  <2> QED BY <1>2, <1>3, <2>1, FlushTells
<1>12. Whole(R, k, T)
  BY <1>11 DEF Told
<1>4. /\ n.out = R /\ R \in Seq(Run) /\ Whole(R, m, T) /\ Ordered(R)
      /\ \A j \in 1..Len(R) : k >= 1 /\ R[j].end <= filt[k] + Slot
      /\ \A l \in 1..k : PriceOf(l) < T => Found(R, filt[l])
  <2>1. Whole(R, m, T)
    BY <1>1, <1>12, WholeFurther
  <2> QED BY <1>3, <1>11, <2>1 DEF Told
<1>5. IsRun(n.cur, m, m, T)
  BY FirstIsRun
<1>6. n.cur.start = filt[m] /\ n.cur.end = filt[m] + Slot /\ filt[m] \in Int
      /\ Slot \in Nat /\ Slot > 0
  BY <1>5 DEF IsRun, Sorted
<1>7. Opens(m, T)
  <2>1. CASE ~Follows(m)
    BY <2>1 DEF Opens
  <2>2. CASE s.cur = NoRun
    <3>1. k = 0 \/ ~(PriceOf(k) < T)
      BY <1>1, <2>2 DEF PassAt
    <3> QED BY <1>1, <3>1 DEF Opens
  <2> QED BY <2>1, <2>2
<1>8. ASSUME NEW j \in 1..Len(R) PROVE R[j].end < n.cur.start
  <2>1. R[j].end \in Int /\ R[j].end <= filt[k] + Slot /\ k \in 1..Len(filt) /\ k < m
    BY <1>1, <1>4, RunTimes
  <2>2. filt[k] + Slot <= filt[m] /\ filt[k] \in Int
    BY <2>1 DEF Sorted
  <2>3. CASE s.cur = NoRun
    <3>1. R[j].end <= filt[k]
      BY <1>11, <2>3
    <3>2. filt[k] < filt[m] /\ filt[k] \in Int /\ filt[m] \in Int
      BY <1>6, <2>2
    <3>3. R[j].end \in Int
      BY <2>1
    <3>4. R[j].end < filt[m]
      BY <3>1, <3>2, <3>3
    <3> QED BY <1>6, <3>4
  <2>4. CASE ~Follows(m)
    <3>1. filt[m] # filt[k] + Slot
      <4>1. m > 1 /\ m - 1 = k
        BY <1>1, <2>1
      <4> QED BY <2>4, <4>1 DEF Follows
    <3>2. PICK x \in Int, y \in Int : x = filt[k] + Slot /\ y = filt[m]
      BY <1>6, <2>2
    <3>3. x <= y /\ x # y
      BY <2>2, <3>1, <3>2
    <3>4. R[j].end \in Int /\ R[j].end <= x
      BY <2>1, <3>2
    <3>5. R[j].end < y
      BY <3>3, <3>4
    <3> QED BY <1>6, <3>2, <3>5
  <2> QED BY <2>3, <2>4
<1>9. ASSUME NEW l \in 1..m, PriceOf(l) < T
      PROVE  Found(R, filt[l]) \/ Holds(n.cur, filt[l])
  <2>1. CASE l = m
    BY <1>6, <2>1 DEF Holds
  <2>2. CASE l # m
    BY <1>1, <1>4, <1>9, <2>2
  <2> QED BY <2>1, <2>2
<1>10. m \in 1..m
  OBVIOUS
<1> QED BY <1>4, <1>5, <1>7, <1>8, <1>9, <1>10 DEF PassAt

\* All runs below T are told.
LEMMA RunsTold ==
    ASSUME Sorted, NEW T \in Int
    PROVE  Told(ContiguousRunsBelow(T), Len(filt), T)
<1>1. PICK p : IsPass(p, T) /\ ContiguousRunsBelow(T) = Flush(p[Len(filt)])
  BY PassExists
<1>2. Len(filt) \in Nat
  BY DEF Sorted
<1> DEFINE E == {k \in Nat : k <= Len(filt) => PassAt(p[k], k, T)}
<1>3. 0 \in E
  <2>1. p[0] = Begun /\ Begun \in States
    BY <1>1, EmptySeq DEF IsPass, Begun, States
  <2>2. Begun.out = <<>> /\ Begun.cur = NoRun /\ Len(<<>>) = 0
    BY EmptySeq DEF Begun
  <2>3. PassAt(Begun, 0, T)
    BY <2>1, <2>2 DEF PassAt, Whole, Ordered
  <2> QED BY <2>1, <2>3
<1>4. ASSUME NEW k \in Nat, k \in E PROVE k + 1 \in E
  <2> SUFFICES ASSUME k + 1 <= Len(filt) PROVE PassAt(p[k + 1], k + 1, T)
    OBVIOUS
  <2>1. PICK m \in 1..Len(filt) : m = k + 1 /\ m - 1 = k
    BY <1>2
  <2>2. PassAt(p[k], k, T)
    BY <1>2, <1>4
  <2>3. p[m] = AfterRate(p[k], m, T) /\ p[k] \in States
    BY <1>1, <2>1, <2>2 DEF IsPass, PassAt
  <2> DEFINE s == p[k]
             n == AfterRate(s, m, T)
  <2>4. n \in States
    BY <2>3, AfterRateCases
  <2>5. \/ ~(PriceOf(m) < T) /\ n.out = Flush(s) /\ n.cur = NoRun
        \/ /\ PriceOf(m) < T /\ Follows(m) /\ s.cur # NoRun
           /\ n.out = s.out /\ n.cur = Lengthen(s.cur, m) /\ n.cur # NoRun
        \/ /\ PriceOf(m) < T /\ (~Follows(m) \/ s.cur = NoRun)
           /\ n.out = Flush(s) /\ n.cur = FirstOf(m) /\ n.cur # NoRun
    BY <2>3, AfterRateCases
  <2>6. PassAt(s, m - 1, T)
    BY <2>1, <2>2
  <2> HIDE DEF n, s
  <2>7. PassAt(n, m, T)
    BY <2>4, <2>5, <2>6, PassOver, PassAlong, PassAnew
  <2> QED BY <2>1, <2>3, <2>7 DEF n, s
<1> HIDE DEF E
<1>5. Len(filt) \in E
  BY <1>2, <1>3, <1>4, SetInduction
<1>6. PassAt(p[Len(filt)], Len(filt), T)
  BY <1>2, <1>5 DEF E
<1>7. Closes(Len(filt), T) /\ Len(filt) \in 0..Len(filt)
  BY <1>2 DEF Closes
<1> QED BY <1>1, <1>6, <1>7, FlushTells

-----------------------------------------------------------------------------
(* The runs told are the blocks.                                           *)

\* The half-hours of a run, as times and as indices.
LEMMA RunStretch ==
    ASSUME Sorted, NEW T \in Int, NEW r, NEW a, NEW b, IsRun(r, a, b, T)
    PROVE  /\ Stretch(r.start, r.slots) = {filt[j] : j \in a..b}
           /\ a..b \subseteq 1..Len(filt)
           /\ r.slots \in 1..Len(filt) /\ r.end = r.start + r.slots * Slot
<1>1. /\ a \in 1..Len(filt) /\ b \in a..Len(filt) /\ Linked(a, b)
      /\ r.start = filt[a] /\ r.end = filt[b] + Slot /\ r.slots = b - a + 1
      /\ Len(filt) \in Nat /\ Slot \in Nat /\ filt[a] \in Int
  BY DEF IsRun, Sorted
<1>2. PICK d \in Nat : d = b - a /\ a + d = b /\ r.slots = d + 1 /\ r.slots - 1 = d
  BY <1>1
<1>3. \A j \in 0..d : a + j \in 1..Len(filt) /\ filt[a + j] = filt[a] + j * Slot
  BY <1>1, <1>2, LinkedSteps
<1>4. Stretch(r.start, r.slots) = {filt[a] + j * Slot : j \in 0..d}
  BY <1>1, <1>2 DEF Stretch
<1>5. ASSUME NEW j \in 0..d PROVE filt[a] + j * Slot \in {filt[l] : l \in a..b}
  <2>1. PICK l \in a..b : l = a + j
    BY <1>1, <1>2
  <2>2. filt[l] = filt[a] + j * Slot
    BY <1>3, <2>1
  <2> QED BY <2>2
<1>6. ASSUME NEW l \in a..b PROVE filt[l] \in {filt[a] + j * Slot : j \in 0..d}
  <2>1. PICK j \in 0..d : l = a + j
    <3>1. l - a \in 0..d /\ l = a + (l - a)
      BY <1>1, <1>2
    <3> QED BY <3>1
  <2>2. filt[l] = filt[a] + j * Slot
    BY <1>3, <2>1
  <2> QED BY <2>2
<1>7. Stretch(r.start, r.slots) = {filt[j] : j \in a..b}
  <2>1. \A x \in {filt[a] + j * Slot : j \in 0..d} : x \in {filt[l] : l \in a..b}
    BY <1>5
  <2>2. \A x \in {filt[l] : l \in a..b} : x \in {filt[a] + j * Slot : j \in 0..d}
    BY <1>6
  <2> QED BY <1>4, <2>1, <2>2
<1>8. r.end = r.start + r.slots * Slot
  <2>1. d \in 0..d
    OBVIOUS
  <2>2. filt[b] = filt[a] + d * Slot
    BY <1>2, <1>3, <2>1
  <2>3. (d + 1) * Slot = d * Slot + Slot /\ d * Slot \in Int
    BY <1>1
  <2> QED BY <1>1, <1>2, <2>2, <2>3
<1>9. r.slots \in 1..Len(filt) /\ a..b \subseteq 1..Len(filt)
  BY <1>1
<1> QED BY <1>7, <1>8, <1>9

LEMMA BelowIs ==
    ASSUME NEW T, NEW f
    PROVE  f \in Below(T) <=> \E k \in 1..Len(filt) : filt[k] = f /\ PriceOf(k) < T
BY DEF Below

\* A run that opens and closes is a block.
LEMMA RunIsBlock ==
    ASSUME Sorted, NEW T \in Int, NEW r, NEW a, NEW b, IsRun(r, a, b, T),
           Opens(a, T), Closes(b, T)
    PROVE  r.start \in Below(T) /\ IsBlock(r.start, r.slots, T)
<1>1. /\ a \in 1..Len(filt) /\ b \in a..Len(filt) /\ b \in 1..Len(filt) /\ a \in a..b /\ b \in a..b
      /\ \A j \in a..b : PriceOf(j) < T
      /\ r.start = filt[a] /\ r.end = filt[b] + Slot
      /\ Len(filt) \in Nat /\ Slot \in Nat /\ filt[a] \in Int
  BY DEF IsRun, Sorted
<1>2. /\ Stretch(r.start, r.slots) = {filt[j] : j \in a..b}
      /\ a..b \subseteq 1..Len(filt) /\ r.end = r.start + r.slots * Slot
  BY RunStretch
<1>3. r.start \in Below(T)
  BY <1>1, BelowIs
<1>4. Stretch(r.start, r.slots) \subseteq Below(T)
  <2>1. \A j \in a..b : filt[j] \in Below(T)
    BY <1>1, <1>2, BelowIs
  <2> QED BY <1>2, <2>1
<1>5. ASSUME r.start - Slot \in Below(T) PROVE FALSE
  <2>1. PICK k \in 1..Len(filt) : filt[k] = filt[a] - Slot /\ PriceOf(k) < T
    BY <1>1, <1>5, BelowIs
  <2>2. filt[a] = filt[k] + Slot
    BY <1>1, <2>1
  <2>3. a = k + 1 /\ Follows(a)
    BY <1>1, <2>2, Neighbours
  <2>4. a # 1 /\ a - 1 = k
    BY <2>3
  <2> QED BY <2>1, <2>3, <2>4 DEF Opens
<1>6. ASSUME r.end \in Below(T) PROVE FALSE
  <2>1. PICK k \in 1..Len(filt) : filt[k] = filt[b] + Slot /\ PriceOf(k) < T
    BY <1>1, <1>6, BelowIs
  <2>2. k = b + 1 /\ Follows(k)
    BY <1>1, <2>1, Neighbours
  <2>3. b # Len(filt)
    BY <1>1, <2>2
  <2> QED BY <2>1, <2>2, <2>3 DEF Closes
<1>7. r.start + r.slots * Slot \notin Below(T)
  BY <1>2, <1>6
<1> QED BY <1>3, <1>4, <1>5, <1>7 DEF IsBlock

\* No two blocks begin with the same half-hour.
LEMMA OneBlock ==
    ASSUME NEW T, NEW f, NEW n \in Nat, NEW m \in Nat, n < m, IsBlock(f, n, T), IsBlock(f, m, T)
    PROVE  FALSE
<1>1. n \in 0..(m - 1)
  OBVIOUS
<1>2. f + n * Slot \in Stretch(f, m)
  BY <1>1 DEF Stretch
<1> QED BY <1>2 DEF IsBlock

\* The half-hours a run holds are its own.
LEMMA HeldIsInside ==
    ASSUME Sorted, NEW T, NEW r, NEW a, NEW b, IsRun(r, a, b, T),
           NEW k \in 1..Len(filt), Holds(r, filt[k])
    PROVE  a <= k /\ k <= b
<1>1. /\ Len(filt) \in Nat /\ Slot \in Nat /\ Slot > 0
      /\ \A l \in 1..Len(filt) : filt[l] \in Int
      /\ \A l, m \in 1..Len(filt) : l < m => filt[l] + Slot <= filt[m]
  BY DEF Sorted
<1>5. a \in 1..Len(filt) /\ b \in 1..Len(filt)
  <2>1. a \in 1..Len(filt) /\ b \in a..Len(filt)
    BY DEF IsRun
  <2> QED BY <1>1, <2>1
<1>2. filt[a] <= filt[k] /\ filt[k] < filt[b] + Slot
  BY DEF Holds, IsRun
<1>3. ASSUME k < a PROVE FALSE
  <2>1. filt[k] + Slot <= filt[a] /\ filt[k] \in Int /\ filt[a] \in Int
    BY <1>1, <1>3, <1>5
  <2> QED BY <1>1, <1>2, <2>1
<1>4. ASSUME b < k PROVE FALSE
  <2>1. filt[b] + Slot <= filt[k] /\ filt[k] \in Int /\ filt[b] \in Int
    BY <1>1, <1>4, <1>5
  <2> QED BY <1>1, <1>2, <2>1
<1> QED BY <1>1, <1>3, <1>4, <1>5

\* A block is told.
LEMMA BlockIsTold ==
    ASSUME Sorted, NEW T \in Int, NEW R, Told(R, Len(filt), T),
           NEW f \in Below(T), NEW n \in 1..Len(filt), IsBlock(f, n, T)
    PROVE  \E j \in 1..Len(R) : R[j].start = f /\ R[j].slots = n
<1>1. PICK k \in 1..Len(filt) : filt[k] = f /\ PriceOf(k) < T
  BY BelowIs
<1>2. PICK j \in 1..Len(R) : Holds(R[j], f)
  BY <1>1 DEF Told, Found
<1>3. PICK a \in 1..Len(filt) : \E b \in a..Len(filt) :
         IsRun(R[j], a, b, T) /\ Opens(a, T) /\ Closes(b, T)
  BY DEF Told, Whole
<1>4. PICK b \in a..Len(filt) : IsRun(R[j], a, b, T) /\ Opens(a, T) /\ Closes(b, T)
  BY <1>3
<1>5. /\ Len(filt) \in Nat /\ Slot \in Nat /\ Slot > 0 /\ b \in 1..Len(filt) /\ k \in Nat /\ a \in Nat
      /\ \A l \in 1..Len(filt) : filt[l] \in Int
      /\ \A l, m \in 1..Len(filt) : l < m => filt[l] + Slot <= filt[m]
  BY DEF Sorted
<1>6. /\ R[j].start = filt[a] /\ R[j].end = filt[b] + Slot /\ Linked(a, b)
      /\ \A l \in a..b : PriceOf(l) < T
  BY <1>4 DEF IsRun
<1>7. a <= k /\ k <= b
  BY <1>1, <1>2, <1>4, HeldIsInside
<1>10. ASSUME a < k PROVE FALSE
  <2>1. k \in (a + 1)..b /\ k - 1 \in a..b /\ k - 1 \in 1..Len(filt)
    BY <1>5, <1>7, <1>10
  <2>2. filt[k] = filt[k - 1] + Slot
    BY <1>6, <2>1 DEF Linked, Follows
  <2>3. filt[k - 1] = f - Slot /\ PriceOf(k - 1) < T
    <3>1. filt[k - 1] \in Int /\ PriceOf(k - 1) < T
      BY <1>5, <1>6, <2>1
    <3>2. f = filt[k - 1] + Slot
      BY <1>1, <2>2
    <3>3. filt[k - 1] = f - Slot
      <4>1. PICK x \in Int : x = filt[k - 1]
        BY <3>1
      <4>2. Slot \in Int /\ f = x + Slot
        BY <1>5, <3>2, <4>1
      <4>3. x = f - Slot
        BY <4>2
      <4> QED BY <4>1, <4>3
    <3> QED BY <3>1, <3>3
  <2>4. f - Slot \in Below(T)
    BY <2>1, <2>3, BelowIs
  <2> QED BY <2>4 DEF IsBlock
<1>11. a = k
  BY <1>5, <1>7, <1>10
<1>12. R[j].start = f
  BY <1>1, <1>6, <1>11
<1>13. IsBlock(f, R[j].slots, T) /\ R[j].slots \in Nat
  BY <1>4, <1>12, RunIsBlock, RunStretch
<1>14. R[j].slots = n
  BY <1>13, OneBlock
<1> QED BY <1>12, <1>14

\* The half-hours are in order while they are passed over.
LEMMA GivenSorted ==
    ASSUME Returned, Given
    PROVE  Sorted
<1>1. pc = "add" /\ slots >= 1 /\ result = ""
  BY DEF Given, Returned, Typed, Early
<1>2. filt \in Ascending(Kept)
  BY <1>1 DEF Returned, ArgsInv, SortedInv
<1> QED BY <1>1, <1>2, SortedInNumbers DEF Returned

LEMMA ThresholdsAreNumbers ==
    ASSUME NEW T \in Thresholds
    PROVE  T \in Int
<1>1. Prices \subseteq Int
  BY WindowAssumption
<1>2. CASE T \in Prices
  BY <1>1, <1>2
<1>3. CASE \E p \in Prices : T = p + 1
  BY <1>1, <1>3
<1> QED BY <1>2, <1>3 DEF Thresholds

\* What is announced of a run is true of its half-hours.
LEMMA RunIsTrue ==
    ASSUME Sorted, NEW T \in Int, NEW r, NEW a, NEW b, IsRun(r, a, b, T)
    PROVE  LET H == Stretch(r.start, r.slots)
           IN  /\ r.end = r.start + r.slots * Slot
               /\ r.sum = Total(r.start, r.slots)
               /\ r.min \in {rate[h] : h \in H}
               /\ \A h \in H : r.min <= rate[h]
<1>1. /\ Stretch(r.start, r.slots) = {filt[j] : j \in a..b}
      /\ r.end = r.start + r.slots * Slot
  BY RunStretch
<1>2. r.sum = Total(r.start, r.slots)
  BY DEF IsRun
<1>3. PICK j \in a..b : r.min = rate[filt[j]]
  BY DEF IsRun, PriceOf
<1>4. \A l \in a..b : r.min <= rate[filt[l]]
  BY DEF IsRun, PriceOf
<1> QED BY <1>1, <1>2, <1>3, <1>4

\* The runs announced are the maximal gapless blocks of half-hours below the
\* threshold, each once and in order, with what their half-hours cost in all and
\* at the least.
THEOREM RunsAreMaximalHolds == Spec => []RunsAreMaximal
<1>1. ASSUME Returned PROVE RunsAreMaximal
  <2> SUFFICES ASSUME Given, NEW T \in Thresholds
               PROVE  LET runs == ContiguousRunsBelow(T)
                      IN  /\ \A k, l \in 1..Len(runs) : k < l => runs[k].end < runs[l].start
                          /\ {<<runs[k].start, runs[k].slots>> : k \in 1..Len(runs)} =
                             {b \in Below(T) \X (1..Len(filt)) : IsBlock(b[1], b[2], T)}
                          /\ \A k \in 1..Len(runs) :
                                LET r == runs[k]  H == Stretch(r.start, r.slots)
                                IN  /\ r.end = r.start + r.slots * Slot
                                    /\ r.sum = Total(r.start, r.slots)
                                    /\ r.min \in {rate[h] : h \in H}
                                    /\ \A h \in H : r.min <= rate[h]
    BY DEF RunsAreMaximal
  <2> DEFINE R == ContiguousRunsBelow(T)
             Blocks == {b \in Below(T) \X (1..Len(filt)) : IsBlock(b[1], b[2], T)}
  <2>1. Sorted /\ T \in Int
    BY <1>1, GivenSorted, ThresholdsAreNumbers
  <2>2. Told(R, Len(filt), T)
    BY <2>1, RunsTold
  <2> HIDE DEF R
  <2>3. \A k, l \in 1..Len(R) : k < l => R[k].end < R[l].start
    BY <2>2 DEF Told, Ordered
  <2>4. ASSUME NEW k \in 1..Len(R)
        PROVE  \E a, b : IsRun(R[k], a, b, T) /\ Opens(a, T) /\ Closes(b, T)
    BY <2>2 DEF Told, Whole
  <2>5. ASSUME NEW k \in 1..Len(R) PROVE <<R[k].start, R[k].slots>> \in Blocks
    <3>1. /\ R[k].start \in Below(T) /\ R[k].slots \in 1..Len(filt)
          /\ IsBlock(R[k].start, R[k].slots, T)
      BY <2>1, <2>4, RunIsBlock, RunStretch
    <3> QED BY <3>1
  <2>6. ASSUME NEW b \in Blocks PROVE \E k \in 1..Len(R) : b = <<R[k].start, R[k].slots>>
    <3>1. PICK f \in Below(T), n \in 1..Len(filt) : b = <<f, n>> /\ IsBlock(f, n, T)
      OBVIOUS
    <3>2. PICK k \in 1..Len(R) : R[k].start = f /\ R[k].slots = n
      BY <2>1, <2>2, <3>1, BlockIsTold
    <3> QED BY <3>1, <3>2
  <2>7. {<<R[k].start, R[k].slots>> : k \in 1..Len(R)} = Blocks
    <3> HIDE DEF Blocks
    <3> QED BY <2>5, <2>6
  <2>8. ASSUME NEW k \in 1..Len(R)
        PROVE  LET r == R[k]  H == Stretch(r.start, r.slots)
               IN  /\ r.end = r.start + r.slots * Slot
                   /\ r.sum = Total(r.start, r.slots)
                   /\ r.min \in {rate[h] : h \in H}
                   /\ \A h \in H : r.min <= rate[h]
    BY <2>1, <2>4, RunIsTrue
  <2> QED BY <2>3, <2>7, <2>8 DEF R
<1> QED BY <1>1, ReturnedInvariant, PTL

-----------------------------------------------------------------------------
(* The next half-hour below a threshold.                                   *)

LEMMA MinIsLeast ==
    ASSUME NEW S \in SUBSET Nat, S # {}
    PROVE  Min(S) \in S /\ \A x \in S : Min(S) <= x
<1>1. \E x \in S : \A y \in S : x <= y
  BY LeastExists
<1> QED BY <1>1 DEF Min

\* The half-hours below T that are not over at t.
Coming(T, t) == {k \in 1..Len(filt) : filt[k] + Slot > t /\ PriceOf(k) < T}

LEMMA NextIsFirst ==
    ASSUME NEW T, NEW t
    PROVE  LET k == NextBelowThreshold(T, t)
           IN  IF Coming(T, t) = {} THEN k = NoRate
               ELSE k \in Coming(T, t) /\ \A l \in Coming(T, t) : k <= l
<1>1. NextBelowThreshold(T, t) = IF Coming(T, t) # {} THEN Min(Coming(T, t)) ELSE 0
  BY DEF NextBelowThreshold, SelectInSeq, Coming, PriceOf
<1>2. Coming(T, t) \in SUBSET Nat
  BY DEF Coming
<1> QED BY <1>1, <1>2, MinIsLeast DEF NoRate

\* A half-hour below T to come is in a run that is not over, and so is the last
\* of a run that is not over.
LEMMA ComingIsTold ==
    ASSUME Sorted, NEW T \in Int, NEW t \in Int, NEW R, Told(R, Len(filt), T),
           NEW k \in Coming(T, t)
    PROVE  \E j \in 1..Len(R) : Holds(R[j], filt[k]) /\ R[j].end > t
<1>1. k \in 1..Len(filt) /\ filt[k] + Slot > t /\ PriceOf(k) < T
  BY DEF Coming
<1>2. PICK j \in 1..Len(R) : Holds(R[j], filt[k])
  BY <1>1 DEF Told, Found
<1>3. PICK a, b : IsRun(R[j], a, b, T)
  BY DEF Told, Whole
<1>4. k <= b /\ b \in 1..Len(filt) /\ R[j].end = filt[b] + Slot
  <2>1. k <= b
    BY <1>1, <1>2, <1>3, HeldIsInside
  <2>2. a \in 1..Len(filt) /\ b \in a..Len(filt) /\ R[j].end = filt[b] + Slot
    BY <1>3 DEF IsRun
  <2>3. Len(filt) \in Nat
    BY DEF Sorted
  <2> QED BY <2>1, <2>2, <2>3
<1>5. filt[k] \in Int /\ filt[b] \in Int /\ Slot \in Nat
  BY <1>1, <1>4 DEF Sorted
<1>6. filt[k] <= filt[b]
  <2>1. CASE k = b
    BY <1>5, <2>1
  <2>2. CASE k < b
    <3>1. filt[k] + Slot <= filt[b]
      BY <1>1, <1>4, <2>2 DEF Sorted
    <3> QED BY <1>5, <3>1
  <2> QED BY <1>1, <1>4, <2>1, <2>2
<1>7. R[j].end > t
  BY <1>1, <1>4, <1>5, <1>6
<1> QED BY <1>2, <1>7

LEMMA RunToCome ==
    ASSUME Sorted, NEW T \in Int, NEW t \in Int, NEW R, Told(R, Len(filt), T),
           NEW j \in 1..Len(R), R[j].end > t
    PROVE  \E b \in Coming(T, t) : R[j].end = filt[b] + Slot
<1>1. PICK a, b : IsRun(R[j], a, b, T)
  BY DEF Told, Whole
<1>2. /\ b \in 1..Len(filt) /\ R[j].end = filt[b] + Slot
      /\ b \in a..b /\ PriceOf(b) < T
  BY <1>1 DEF IsRun, Sorted
<1>3. b \in Coming(T, t)
  BY <1>2 DEF Coming
<1> QED BY <1>2, <1>3

\* The first half-hour to come is in the first run that is not over, and is its
\* start or the one under way.
LEMMA FirstAgrees ==
    ASSUME Sorted, NEW T \in Int, NEW t \in Int, NEW R, Told(R, Len(filt), T),
           NEW k \in Coming(T, t), \A l \in Coming(T, t) : k <= l
    PROVE  \E j \in 1..Len(R) :
              /\ R[j].end > t
              /\ \A l \in 1..Len(R) : R[l].end > t => j <= l
              /\ Holds(R[j], filt[k])
              /\ filt[k] = R[j].start \/ filt[k] <= t
<1>1. k \in 1..Len(filt) /\ filt[k] + Slot > t /\ PriceOf(k) < T
  BY DEF Coming
<1>2. PICK j \in 1..Len(R) : Holds(R[j], filt[k]) /\ R[j].end > t
  BY ComingIsTold
<1>3. /\ Len(filt) \in Nat /\ Slot \in Nat /\ Slot > 0 /\ k \in Nat
      /\ \A l \in 1..Len(filt) : filt[l] \in Int
      /\ \A l, m \in 1..Len(filt) : l < m => filt[l] + Slot <= filt[m]
  <2>1. k \in Nat
    BY <1>1
  <2> QED BY <2>1 DEF Sorted
<1>4. R \in Seq(Run) /\ Len(R) \in Nat /\ Ordered(R)
  BY LenProperties DEF Told
<1>5. ASSUME NEW l \in 1..Len(R), R[l].end > t, l < j PROVE FALSE
  <2>1. PICK b \in Coming(T, t) : R[l].end = filt[b] + Slot
    BY <1>5, RunToCome
  <2>2. b \in 1..Len(filt) /\ k <= b
    BY <2>1 DEF Coming
  <2>3. R[l].end < R[j].start /\ R[j].start <= filt[k]
    BY <1>2, <1>5, <1>4 DEF Ordered, Holds
  <2>4. R[l].end \in Int /\ R[j].start \in Int
    BY <1>4, RunTimes
  <2>5. filt[b] + Slot < filt[k]
    <3>1. filt[k] \in Int
      BY <1>1, <1>3
    <3> QED BY <2>1, <2>3, <2>4, <3>1
  <2>6. CASE k = b
    BY <1>1, <1>3, <2>5, <2>6
  <2>7. CASE k < b
    <3>1. filt[k] + Slot <= filt[b]
      BY <1>1, <1>3, <2>2, <2>7
    <3> QED BY <1>1, <1>3, <2>2, <2>5, <3>1
  <2> QED BY <1>3, <2>2, <2>6, <2>7
<1>6. \A l \in 1..Len(R) : R[l].end > t => j <= l
  BY <1>4, <1>5
<1>7. ASSUME filt[k] # R[j].start PROVE filt[k] <= t
  <2>1. PICK a, b : IsRun(R[j], a, b, T)
    BY DEF Told, Whole
  <2>2. /\ a \in 1..Len(filt) /\ b \in 1..Len(filt) /\ a <= k /\ k <= b
    <3>1. a <= k /\ k <= b
      BY <1>1, <1>2, <2>1, HeldIsInside
    <3>2. a \in 1..Len(filt) /\ b \in a..Len(filt)
      BY <2>1 DEF IsRun
    <3> QED BY <1>3, <3>1, <3>2
  <2>3. a # k
    BY <1>7, <2>1 DEF IsRun
  <2>4. k \in (a + 1)..b /\ k - 1 \in a..b /\ k - 1 \in 1..Len(filt) /\ ~(k <= k - 1)
    BY <1>1, <1>3, <2>2, <2>3
  <2>5. filt[k] = filt[k - 1] + Slot /\ PriceOf(k - 1) < T
    BY <2>1, <2>4 DEF IsRun, Linked, Follows
  <2>6. k - 1 \notin Coming(T, t)
    BY <2>4
  <2>7. ~(filt[k - 1] + Slot > t)
    BY <2>4, <2>5, <2>6 DEF Coming
  <2> QED BY <1>1, <1>3, <2>5, <2>7
<1> QED BY <1>2, <1>6, <1>7

\* What the bot answers to "next" agrees with the runs it announces.
THEOREM NextAgreesWithRunsHolds == Spec => []NextAgreesWithRuns
<1>1. ASSUME Returned PROVE NextAgreesWithRuns
  <2> SUFFICES ASSUME Given, NEW T \in Thresholds, NEW t \in From..To
               PROVE  LET runs  == ContiguousRunsBelow(T)
                          ahead == {j \in 1..Len(runs) : runs[j].end > t}
                          k     == NextBelowThreshold(T, t)
                      IN  IF ahead = {} THEN k = NoRate
                          ELSE \E j \in ahead :
                                 /\ \A l \in ahead : j <= l
                                 /\ k # NoRate
                                 /\ runs[j].start <= filt[k] /\ filt[k] < runs[j].end
                                 /\ filt[k] = runs[j].start \/ filt[k] <= t
    BY DEF NextAgreesWithRuns
  <2> DEFINE R == ContiguousRunsBelow(T)
             k == NextBelowThreshold(T, t)
             ahead == {j \in 1..Len(R) : R[j].end > t}
  <2>1. Sorted /\ T \in Int /\ t \in Int
    BY <1>1, GivenSorted, ThresholdsAreNumbers DEF Sorted
  <2>2. Told(R, Len(filt), T)
    BY <2>1, RunsTold
  <2>3. IF Coming(T, t) = {} THEN k = NoRate
        ELSE k \in Coming(T, t) /\ \A l \in Coming(T, t) : k <= l
    BY NextIsFirst
  <2> HIDE DEF R, k
  <2>4. CASE Coming(T, t) = {}
    <3>1. ahead = {}
      BY <2>1, <2>2, <2>4, RunToCome
    <3> QED BY <2>3, <2>4, <3>1 DEF R, k
  <2>5. CASE Coming(T, t) # {}
    <3>1. k \in Coming(T, t) /\ \A l \in Coming(T, t) : k <= l
      BY <2>3, <2>5
    <3>2. PICK j \in 1..Len(R) :
             /\ R[j].end > t
             /\ \A l \in 1..Len(R) : R[l].end > t => j <= l
             /\ Holds(R[j], filt[k])
             /\ filt[k] = R[j].start \/ filt[k] <= t
      BY <2>1, <2>2, <3>1, FirstAgrees
    <3>3. k # NoRate
      BY <3>1 DEF Coming, NoRate
    <3>4. j \in ahead /\ \A l \in ahead : j <= l
      BY <3>2
    <3>5. R[j].start <= filt[k] /\ filt[k] < R[j].end
      BY <3>2 DEF Holds
    <3>6. ahead # {}
      BY <3>4
    <3> QED BY <3>2, <3>3, <3>4, <3>5, <3>6 DEF R, k
  <2> QED BY <2>4, <2>5
<1> QED BY <1>1, ReturnedInvariant, PTL
=============================================================================
