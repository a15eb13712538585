-------------------------- MODULE WidthSearchProofs --------------------------
(***************************************************************************)
(* The width search keeps its answer between its bounds, for every size of *)
(* block, every limit and any sequence of successes and failures of the    *)
(* router.  The bounds alone are not inductive: what is tried next has to  *)
(* be known as a function of the bounds, and that all widths are even when *)
(* the wires are unidirectional.                                           *)
(***************************************************************************)
EXTENDS WidthSearch, TLAPS

\* Until the search begins nothing has been found.
Fresh ==
  /\ pc \in {"place", "fixed"} =>
       current = Start /\ low = NoWidth /\ high = NoWidth /\ final = NoWidth
  /\ pc = "fixed" => FixedWidth # NoWidth

IsEven(w) == w = NoWidth \/ w % 2 = 0

Evens ==
  Unidirectional =>
    /\ current % 2 = 0 \/ current < 1
    /\ IsEven(low) /\ IsEven(high) /\ IsEven(final) /\ IsEven(routing.width)
    /\ IsEven(saved.width)

\* What is known of the bounds, and of the next width, during the search.
Bounds ==
  pc = "search" /\ final = NoWidth =>
    /\ current >= 0
    /\ high # NoWidth => high >= 1 /\ saved.width = high /\ saved.legal
    /\ low # NoWidth => low >= 1 /\ low \in failed
    /\ low # NoWidth /\ high # NoWidth =>
         low < current /\ current < high /\ low + Multiplier < high
    /\ low = NoWidth /\ high # NoWidth => current = Rounded(high \div 2)
    /\ low # NoWidth /\ high = NoWidth => current = Rounded(low * 2)

\* A final width always has its routing.
FinalSaved ==
  pc \in {"search", "searched", "verify", "restore"} /\ final # NoWidth =>
    final >= 1 /\ saved.legal /\ saved.width = final

\* With few connections per switch block the width below it has failed.
Narrowest ==
  Fs <= 3 /\ pc \in {"search", "searched"} /\ final # NoWidth =>
    (Admissible(final - Multiplier) => final - Multiplier \in failed)

IInv == TypeOK /\ Fresh /\ Evens /\ Bounds /\ FinalSaved /\ Narrowest

USE DEF NoWidth

-----------------------------------------------------------------------------
(* The options *)

\* The options of a run are of their types ...
LEMMA OptionTypes ==
  ASSUME opts \in Options
  PROVE  /\ FixedWidth \in Nat \cup {NoWidth}
         /\ Unidirectional \in BOOLEAN /\ PlaceAlways \in BOOLEAN /\ Verify \in BOOLEAN
  BY WidthAssumption DEF Option, FixedWidth, Unidirectional, PlaceAlways, Verify

\* ... and no step changes them.
LEMMA SameOptions ==
  ASSUME [Next]_vars
  PROVE  /\ opts' = opts /\ FixedWidth' = FixedWidth /\ Unidirectional' = Unidirectional
         /\ PlaceAlways' = PlaceAlways /\ Verify' = Verify /\ Multiplier' = Multiplier
  <1>1. opts' = opts
    BY DEF Next, Step, Stopped, vars, Place, RouteFixed, GiveUp, StopBelowFs, Succeed, Fail, Found,
       Searched, VerifyAttempt, Verified, Restore, Check
  <1>2. QED
    BY <1>1 DEF FixedWidth, Unidirectional, PlaceAlways, Verify, Multiplier

-----------------------------------------------------------------------------
(* Halving, doubling and rounding *)

\* Widths go up and down in steps of two in a unidirectional architecture, of one else.
LEMMA MultiplierValue == Multiplier \in {1, 2} /\ (Unidirectional <=> Multiplier = 2)
  BY WidthAssumption DEF Multiplier

\* Rounding adds at most one, and makes widths even where they have to be.
LEMMA RoundedValue ==
  ASSUME NEW w \in Int
  PROVE  /\ Rounded(w) \in Int
         /\ ~Unidirectional => Rounded(w) = w
         /\ Unidirectional => /\ Rounded(w) % 2 = 0
                              /\ Rounded(w) = w \/ Rounded(w) = w + 1
                              /\ w % 2 = 0 => Rounded(w) = w
  BY MultiplierValue, WidthAssumption, SMT DEF Rounded, Multiplier

\* The middle of two bounds that are more than one step apart is between them.
LEMMA MiddleBetween ==
  ASSUME NEW l \in Nat, NEW h \in Nat, l + Multiplier < h,
         Unidirectional => l % 2 = 0 /\ h % 2 = 0
  PROVE  l < Rounded((h + l) \div 2) /\ Rounded((h + l) \div 2) < h
  <1>1. CASE ~Unidirectional
    BY <1>1, MultiplierValue, RoundedValue, SMT
  <1>2. CASE Unidirectional
    <2>1. /\ Multiplier = 2 /\ l % 2 = 0 /\ h % 2 = 0 /\ (h + l) \div 2 \in Int
      BY <1>2, MultiplierValue, SMT
    <2>2. PICK m \in Int : m = Rounded((h + l) \div 2)
      BY <2>1, RoundedValue
    <2>3. /\ m % 2 = 0
          /\ m = (h + l) \div 2 \/ m = (h + l) \div 2 + 1
      BY <1>2, <2>1, <2>2, RoundedValue
    <2>4. QED
      BY <2>1, <2>2, <2>3, SMT
  <1>3. QED
    BY <1>1, <1>2

\* The search starts at an even width.
LEMMA StartValue == Start \in Nat /\ Start >= 1 /\ Start % 2 = 0
  BY WidthAssumption, SMT DEF Start

-----------------------------------------------------------------------------
(* The invariant is inductive *)

\* The invariant of the bounds holds at the start, and every step of the search keeps it.
LEMMA InitIInv == Init => IInv
  <1>1. SUFFICES ASSUME Init PROVE IInv
    OBVIOUS
  <1>2. TypeOK
    <2>1. /\ opts \in Options /\ {low, high, final} \subseteq Width
          /\ {success, prevSuccess, prev2Success} \subseteq BOOLEAN
      BY <1>1 DEF Init, Width
    <2>5. current \in Int /\ attempts \in {0, 1}
      BY <1>1, StartValue DEF Init
    <2>2. NoRouting \in Routing
      BY DEF NoRouting, Routing, Width
    <2>3. {placement, placeFile} \subseteq Nat /\ {routing, saved} \subseteq Routing
      BY <1>1, <2>2 DEF Init
    <2>4. QED
      BY <1>1, <2>1, <2>3, <2>5 DEF Init, TypeOK
  <1>3. Fresh /\ Bounds /\ FinalSaved /\ Narrowest
    BY <1>1 DEF Init, Fresh, Bounds, FinalSaved, Narrowest
  <1>4. Evens
    BY <1>1, StartValue DEF Init, Evens, IsEven, NoRouting
  <1>5. QED
    BY <1>2, <1>3, <1>4 DEF IInv

\* What an attempt does to the routing and to the history.
LEMMA AttemptValue ==
  ASSUME TypeOK, NEW routed \in BOOLEAN, Attempt(routed), current >= 1
  PROVE  /\ placement' \in Nat
         /\ routing' \in Routing /\ routing'.width = current /\ routing'.legal = routed
         /\ failed' \subseteq Nat /\ success' = routed
         /\ routed => failed' = { w \in failed : w < current }
         /\ ~routed => failed' = failed \cup {current}
  <1>1. current \in Nat /\ placement \in Nat /\ failed \subseteq Nat
    BY SMT DEF TypeOK
  <1>2. placement' \in Nat
    BY <1>1, SMT DEF Attempt
  <1>3. QED
    BY <1>1, <1>2 DEF Attempt, Routing, Width

\* What is known when a width is tried.
LEMMA AttemptingValue ==
  ASSUME IInv, Attempting
  PROVE  /\ pc = "search" /\ final = NoWidth /\ current \in Nat /\ current >= 1
         /\ low \in Width /\ high \in Width
         /\ Unidirectional => current % 2 = 0
  <1>1. current \in Int /\ low \in Width /\ high \in Width /\ Fs \in Nat /\ Fs >= 1
    BY WidthAssumption DEF IInv, TypeOK, Attempting
  <1>2. current * 3 >= Fs
    BY <1>1, SMT DEF Attempting, BelowFs
  <1>3. current >= 1
    BY <1>1, <1>2, SMT
  <1>4. Unidirectional => current % 2 = 0
    BY <1>1, <1>3, SMT DEF IInv, Evens
  <1>5. QED
    BY <1>1, <1>3, <1>4, SMT DEF Attempting

\* A width that can be routed.
LEMMA SucceedIInv == ASSUME IInv, Succeed PROVE IInv'
  <1>1. /\ pc = "search" /\ final = NoWidth /\ current \in Nat /\ current >= 1
        /\ low \in Width /\ high \in Width
        /\ Unidirectional => current % 2 = 0
    BY AttemptingValue DEF Succeed
  <1>2. /\ placement' \in Nat /\ failed' \subseteq Nat
        /\ routing' \in Routing /\ routing'.width = current /\ routing'.legal = TRUE
        /\ failed' = { w \in failed : w < current }
    BY <1>1, AttemptValue DEF Succeed, IInv
  <1>3. /\ high' = current /\ low' = low /\ pc' = "search" /\ saved' = routing'
        /\ final' = IF CannotGoLower \/ Close(current, low) THEN current ELSE final
        /\ current' = Rounded(IF low # NoWidth THEN (current + low) \div 2 ELSE current \div 2)
        /\ UNCHANGED << opts, prevSuccess, prev2Success, placeFile >>
        /\ success' = TRUE /\ attempts' \in {0, 1}
        /\ Unidirectional' = Unidirectional /\ Multiplier' = Multiplier
    <2>1. Succeed => [Next]_vars
      BY DEF Next, Step
    <2>2. attempts' \in {0, 1}
      BY SMT DEF Succeed, Counted, IInv, TypeOK
    <2>3. QED
      BY <1>1, <2>1, <2>2, SameOptions DEF Succeed, Attempt
  <1>4. /\ current' \in Int
        /\ Unidirectional => current' % 2 = 0
    <2>1. (IF low # NoWidth THEN (current + low) \div 2 ELSE current \div 2) \in Int
      BY <1>1, SMT DEF Width
    <2>2. QED
      BY <2>1, <1>3, RoundedValue
  <1>5. TypeOK'
    BY <1>1, <1>2, <1>3, <1>4 DEF IInv, TypeOK, Width
  <1>6. Fresh'
    BY <1>3 DEF Fresh
  <1>7. Evens'
    BY <1>1, <1>2, <1>3, <1>4 DEF IInv, Evens, IsEven
  <1>8. /\ low # NoWidth => low \in Nat /\ low >= 1 /\ low \in failed
        /\ high # NoWidth => high \in Nat /\ high >= 1
        /\ low # NoWidth /\ high # NoWidth => low < current /\ current < high
        /\ low = NoWidth /\ high # NoWidth => current = Rounded(high \div 2)
        /\ low # NoWidth /\ high = NoWidth => current = Rounded(low * 2)
        /\ Unidirectional => IsEven(low)
    BY <1>1 DEF IInv, Bounds, Evens, Width
  <1>9. low # NoWidth => low < current
    BY <1>1, <1>8, RoundedValue, SMT
  <1>10. low # NoWidth => low \in failed'
    BY <1>2, <1>8, <1>9
  <1>11. Bounds'
    <2>1. SUFFICES ASSUME final' = NoWidth PROVE Bounds'
      BY DEF Bounds
    <2>2. low # NoWidth => low + Multiplier < current
      BY <2>1, <1>1, <1>3, <1>8, <1>9, MultiplierValue, SMT DEF Close
    <2>3. low # NoWidth => low < current' /\ current' < high'
      BY <2>2, <1>1, <1>3, <1>8, MiddleBetween DEF IsEven
    <2>4. low = NoWidth => current' = Rounded(high' \div 2) /\ current' >= 0
      BY <1>1, <1>3, RoundedValue, SMT
    <2>5. current' >= 0
      BY <2>3, <2>4, <1>1, <1>4, <1>8, SMT
    <2>6. high' # NoWidth => high' >= 1 /\ saved'.width = high' /\ saved'.legal
      BY <1>1, <1>2, <1>3
    <2>7. low' # NoWidth => low' >= 1 /\ low' \in failed'
      BY <1>3, <1>8, <1>10
    <2>8. high' # NoWidth
      BY <1>1, <1>3, SMT
    <2>9. low' # NoWidth => low' < current' /\ current' < high' /\ low' + Multiplier < high'
      BY <2>2, <2>3, <1>3
    <2>10. low' = NoWidth => current' = Rounded(high' \div 2)
      BY <2>4, <1>3
    <2>11. QED
      BY <2>5, <2>6, <2>7, <2>8, <2>9, <2>10, <1>3 DEF Bounds, Rounded
  <1>12. FinalSaved'
    BY <1>1, <1>2, <1>3 DEF FinalSaved
  <1>13. Narrowest'
    <2>1. SUFFICES ASSUME Fs <= 3, final' # NoWidth, Admissible(final' - Multiplier)
                   PROVE  final' - Multiplier \in failed'
      BY <1>3 DEF Narrowest, Admissible
    <2>2. final' = current /\ (current = high \/ Close(current, low))
      BY <2>1, <1>1, <1>3 DEF CannotGoLower
    <2>3. current - Multiplier >= 1
      BY <2>1, <2>2 DEF Admissible
    <2>4. low # NoWidth
      BY <2>2, <2>3, <1>1, <1>8, MultiplierValue, RoundedValue, SMT DEF Close
    <2>5. current - low <= Multiplier
      BY <2>2, <2>4, <1>1, <1>8, SMT DEF Close
    <2>6. low = current - Multiplier
      BY <2>4, <2>5, <1>1, <1>8, <1>9, MultiplierValue, SMT DEF IsEven
    <2>7. QED
      BY <2>2, <2>4, <2>6, <1>10
  <1>14. QED
    BY <1>5, <1>6, <1>7, <1>11, <1>12, <1>13 DEF IInv

\* A width that cannot.
LEMMA FailIInv == ASSUME IInv, Fail PROVE IInv'
  <1>1. /\ pc = "search" /\ final = NoWidth /\ current \in Nat /\ current >= 1
        /\ low \in Width /\ high \in Width
        /\ Unidirectional => current % 2 = 0
    BY AttemptingValue DEF Fail
  <1>2. /\ placement' \in Nat /\ failed' \subseteq Nat
        /\ routing' \in Routing /\ routing'.width = current
        /\ failed' = failed \cup {current}
    BY <1>1, AttemptValue DEF Fail, IInv
  <1>3. /\ low' = current /\ high' = high /\ pc' = "search" /\ saved' = saved
        /\ final' = IF high # NoWidth /\ Close(high, current) THEN high ELSE final
        /\ current' = Rounded(IF high # NoWidth THEN (high + current) \div 2 ELSE current * 2)
        /\ UNCHANGED << opts, prevSuccess, prev2Success, placeFile >>
        /\ success' = FALSE /\ attempts' \in {0, 1}
        /\ Unidirectional' = Unidirectional /\ Multiplier' = Multiplier
    <2>1. Fail => [Next]_vars
      BY DEF Next, Step
    <2>2. attempts' \in {0, 1}
      BY SMT DEF Fail, Counted, IInv, TypeOK
    <2>3. QED
      BY <1>1, <2>1, <2>2, SameOptions DEF Fail, Attempt
  <1>4. /\ current' \in Int
        /\ Unidirectional => current' % 2 = 0
    <2>1. (IF high # NoWidth THEN (high + current) \div 2 ELSE current * 2) \in Int
      BY <1>1, SMT DEF Width
    <2>2. QED
      BY <2>1, <1>3, RoundedValue
  <1>5. TypeOK'
    BY <1>1, <1>2, <1>3, <1>4 DEF IInv, TypeOK, Width
  <1>6. Fresh'
    BY <1>3 DEF Fresh
  <1>7. Evens'
    BY <1>1, <1>2, <1>3, <1>4 DEF IInv, Evens, IsEven
  <1>8. /\ high # NoWidth => /\ high \in Nat /\ high >= 1
                            /\ saved.width = high /\ saved.legal
        /\ low # NoWidth /\ high # NoWidth => low < current /\ current < high
        /\ low = NoWidth /\ high # NoWidth => current = Rounded(high \div 2)
        /\ Unidirectional => IsEven(high)
    BY <1>1 DEF IInv, Bounds, Evens, Width
  <1>9. high # NoWidth => current < high \/ (Unidirectional /\ current = 2 /\ high = 2)
    BY <1>1, <1>8, RoundedValue, SMT DEF IsEven
  <1>10. Bounds'
    <2>1. SUFFICES ASSUME final' = NoWidth PROVE Bounds'
      BY DEF Bounds
    <2>2. high # NoWidth => current + Multiplier < high
      BY <2>1, <1>1, <1>3, <1>8, MultiplierValue, SMT DEF Close
    <2>3. high # NoWidth => current < current' /\ current' < high
      BY <2>2, <1>1, <1>3, <1>8, MiddleBetween DEF IsEven
    <2>4. high = NoWidth => current' = Rounded(low' * 2) /\ current' >= 0
      BY <1>1, <1>3, RoundedValue, SMT
    <2>5. current' >= 0
      BY <2>3, <2>4, <1>1, <1>4, <1>8, SMT
    <2>6. high' # NoWidth => high' >= 1 /\ saved'.width = high' /\ saved'.legal
      BY <1>3, <1>8
    <2>7. low' # NoWidth /\ low' >= 1 /\ low' \in failed'
      BY <1>1, <1>2, <1>3, SMT
    <2>8. high' # NoWidth => low' < current' /\ current' < high' /\ low' + Multiplier < high'
      BY <2>2, <2>3, <1>3
    <2>9. high' = NoWidth => current' = Rounded(low' * 2)
      BY <2>4, <1>3
    <2>10. QED
      BY <2>5, <2>6, <2>7, <2>8, <2>9, <1>3 DEF Bounds, Rounded
  <1>11. FinalSaved'
    BY <1>1, <1>3, <1>8 DEF FinalSaved
  <1>12. Narrowest'
    <2>1. SUFFICES ASSUME Fs <= 3, final' # NoWidth, Admissible(final' - Multiplier)
                   PROVE  final' - Multiplier \in failed'
      BY <1>3 DEF Narrowest, Admissible
    <2>2. final' = high /\ high # NoWidth /\ high - current <= Multiplier
      BY <2>1, <1>1, <1>3 DEF Close
    <2>3. high - Multiplier >= 1
      BY <2>1, <2>2 DEF Admissible
    <2>4. current = high - Multiplier
      BY <2>2, <2>3, <1>1, <1>8, <1>9, MultiplierValue, SMT DEF IsEven
    <2>5. QED
      BY <2>2, <2>4, <1>2
  <1>13. QED
    BY <1>5, <1>6, <1>7, <1>10, <1>11, <1>12 DEF IInv

\* A width too small for Fs ends the search.
LEMMA StopIInv == ASSUME IInv, StopBelowFs PROVE IInv'
  <1>1. /\ pc = "search" /\ final = NoWidth /\ final' = high /\ pc' = "searched"
        /\ UNCHANGED << opts, current, low, high, history, placement, placeFile,
                        routing, saved, failed >>
        /\ current \in Int /\ low \in Width /\ high \in Width /\ Fs \in Nat
        /\ current * 3 < Fs
        /\ Unidirectional' = Unidirectional /\ Multiplier' = Multiplier
    <2>1. StopBelowFs => [Next]_vars
      BY DEF Next, Step
    <2>2. QED
      BY <2>1, SameOptions, WidthAssumption DEF StopBelowFs, BelowFs, IInv, TypeOK
  <1>2. TypeOK' /\ Fresh' /\ Bounds'
    BY <1>1 DEF IInv, TypeOK, Fresh, Bounds, Width, history
  <1>3. Evens' /\ FinalSaved'
    BY <1>1 DEF IInv, Evens, IsEven, Bounds, FinalSaved
  <1>4. Narrowest'
    <2>1. SUFFICES ASSUME Fs <= 3, final' # NoWidth, Admissible(final' - Multiplier)
                   PROVE  FALSE
      BY <1>1 DEF Narrowest, Admissible
    <2>2. /\ current >= 0 /\ high \in Nat /\ high >= 1
          /\ low # NoWidth => low >= 1 /\ low < current
          /\ low = NoWidth => current = Rounded(high \div 2)
          /\ Unidirectional => high % 2 = 0
      BY <2>1, <1>1, SMT DEF IInv, Bounds, Evens, IsEven, Width
    <2>3. current = 0 /\ low = NoWidth
      BY <2>1, <2>2, <1>1, SMT DEF Width
    <2>4. high - Multiplier >= 1
      BY <2>1, <1>1 DEF Admissible
    <2>5. QED
      BY <2>2, <2>3, <2>4, MultiplierValue, RoundedValue, SMT
  <1>5. QED
    BY <1>2, <1>3, <1>4 DEF IInv

\* A narrower width tried after the search.
LEMMA VerifyIInv ==
  ASSUME IInv, NEW routed \in BOOLEAN, VerifyAttempt(routed) PROVE IInv'
  <1>1. /\ pc = "verify" /\ pc' = "verify" /\ current \in Int /\ current >= 1
        /\ UNCHANGED << opts, low, high >>
        /\ current' = current - Multiplier
        /\ prevSuccess' = routed /\ prev2Success' = prevSuccess
        /\ success' = routed /\ attempts' = attempts
        /\ Unidirectional' = Unidirectional /\ Multiplier' = Multiplier
    <2>1. VerifyAttempt(routed) => [Next]_vars
      BY DEF Next, Step
    <2>2. QED
      BY <2>1, SameOptions DEF VerifyAttempt, VerifyMore, Attempt, IInv, TypeOK
  <1>2. /\ placement' \in Nat /\ failed' \subseteq Nat
        /\ routing' \in Routing /\ routing'.width = current /\ routing'.legal = routed
    BY <1>1, AttemptValue DEF VerifyAttempt, IInv
  <1>3. IF routed
        THEN /\ final' = current /\ saved' = routing'
             /\ placeFile' \in {placement', placeFile}
        ELSE UNCHANGED << final, saved, placeFile >>
    BY DEF VerifyAttempt
  <1>4. current' \in Int /\ (Unidirectional => current % 2 = 0 /\ current' % 2 = 0)
    BY <1>1, MultiplierValue, SMT DEF IInv, Evens
  <1>5. TypeOK'
    BY <1>1, <1>2, <1>3, <1>4 DEF IInv, TypeOK, Width
  <1>6. Fresh' /\ Bounds' /\ Narrowest'
    BY <1>1 DEF Fresh, Bounds, Narrowest
  <1>7. Evens'
    BY <1>1, <1>2, <1>3, <1>4 DEF IInv, Evens, IsEven
  <1>8. FinalSaved'
    BY <1>1, <1>2, <1>3 DEF IInv, FinalSaved
  <1>9. QED
    BY <1>5, <1>6, <1>7, <1>8 DEF IInv

\* A placement made.
LEMMA PlaceIInv == ASSUME IInv, Place PROVE IInv'
  <1>1. /\ pc = "place" /\ placement' = 1 /\ placeFile' = 1
        /\ UNCHANGED << opts, bounds, history, routing, saved, failed >>
        /\ pc' \in {"fixed", "search", "thrown"}
        /\ pc' = "fixed" => FixedWidth' # NoWidth
        /\ Unidirectional' = Unidirectional
    <2>1. Place => [Next]_vars
      BY DEF Next, Step
    <2>2. QED
      BY <2>1, SameOptions DEF Place
  <1>2. TypeOK'
    BY <1>1 DEF IInv, TypeOK, bounds, history, Ended
  <1>3. Fresh' /\ FinalSaved' /\ Narrowest' /\ Evens'
    BY <1>1 DEF IInv, Fresh, FinalSaved, Narrowest, Evens, IsEven, bounds
  <1>4. Bounds'
    BY <1>1, StartValue DEF IInv, Fresh, Bounds, bounds
  <1>5. QED
    BY <1>2, <1>3, <1>4 DEF IInv

\* A routing at the width the user has fixed.
LEMMA FixedIInv == ASSUME IInv, RouteFixed PROVE IInv'
  <1>1. /\ pc = "fixed" /\ pc' \in {"thrown", "checking", "unroutable"}
        /\ UNCHANGED << opts, bounds, history, placement, placeFile, saved >>
        /\ Unidirectional' = Unidirectional
    <2>1. RouteFixed => [Next]_vars
      BY DEF Next, Step
    <2>2. QED
      BY <2>1, SameOptions DEF RouteFixed
  <1>2. \/ UNCHANGED << routing, failed >>
        \/ /\ ~(Unidirectional /\ FixedWidth % 2 # 0)
           /\ \E routed \in BOOLEAN :
                /\ routing' = [width |-> FixedWidth, placement |-> placement, legal |-> routed]
                /\ failed' = IF routed THEN failed ELSE failed \cup {FixedWidth}
                /\ pc' # "thrown"
    BY DEF RouteFixed
  <1>3. FixedWidth \in Nat /\ placement \in Nat
    BY <1>1, OptionTypes DEF IInv, TypeOK, Fresh
  <1>4. routing' \in Routing /\ failed' \subseteq Nat
    <2>1. routing \in Routing /\ failed \subseteq Nat
      BY DEF IInv, TypeOK
    <2>2. \A routed \in BOOLEAN :
            [width |-> FixedWidth, placement |-> placement, legal |-> routed] \in Routing
      BY <1>3 DEF Routing, Width
    <2>3. QED
      BY <1>2, <1>3, <2>1, <2>2
  <1>5. Unidirectional => IsEven(routing'.width)
    BY <1>2, <1>3 DEF IInv, Evens, IsEven
  <1>6. TypeOK'
    BY <1>1, <1>4 DEF IInv, TypeOK, bounds, history, Ended
  <1>7. Evens'
    BY <1>1, <1>5 DEF IInv, Evens, IsEven, bounds
  <1>8. Fresh' /\ Bounds' /\ FinalSaved' /\ Narrowest'
    BY <1>1 DEF Fresh, Bounds, FinalSaved, Narrowest
  <1>9. QED
    BY <1>6, <1>7, <1>8 DEF IInv

\* The steps that try no width.
LEMMA OtherIInv ==
  ASSUME IInv, GiveUp \/ Found \/ Searched \/ Verified \/ Restore \/ Check \/ UNCHANGED vars
  PROVE  IInv'
  <1>0. Unidirectional' = Unidirectional /\ Multiplier' = Multiplier /\ FixedWidth' = FixedWidth
    BY SameOptions DEF Next, Step
  <1>1. CASE GiveUp
    BY <1>0, <1>1 DEF GiveUp, IInv, TypeOK, Fresh, Evens, Rounded, Admissible, IsEven, Bounds, FinalSaved,
       Narrowest, bounds, history, Ended
  <1>2. CASE Found
    BY <1>0, <1>2 DEF Found, IInv, TypeOK, Fresh, Evens, Rounded, Admissible, IsEven, Bounds, FinalSaved,
       Narrowest, bounds, history
  <1>3. CASE Searched
    BY <1>0, <1>3, SMT DEF Searched, IInv, TypeOK, Fresh, Evens, Rounded, Admissible, IsEven, Bounds, FinalSaved,
       Narrowest, bounds, history, Width
  <1>4. CASE Verified
    BY <1>0, <1>4 DEF Verified, IInv, TypeOK, Fresh, Evens, Rounded, Admissible, IsEven, Bounds, FinalSaved,
       Narrowest, bounds, history
  <1>5. CASE Restore
    BY <1>0, <1>5 DEF Restore, IInv, TypeOK, Fresh, Evens, Rounded, Admissible, IsEven, Bounds, FinalSaved,
       Narrowest, bounds, history, Ended
  <1>6. CASE Check
    BY <1>0, <1>6 DEF Check, IInv, TypeOK, Fresh, Evens, Rounded, Admissible, IsEven, Bounds, FinalSaved,
       Narrowest, bounds, history, Ended
  <1>7. CASE UNCHANGED vars
    BY <1>0, <1>7 DEF vars, IInv, TypeOK, Fresh, Evens, Rounded, Admissible, IsEven, Bounds, FinalSaved,
       Narrowest, bounds, history
  <1>8. QED
    BY <1>1, <1>2, <1>3, <1>4, <1>5, <1>6, <1>7

\* Every step keeps it.
LEMMA NextIInv == IInv /\ [Next]_vars => IInv'
  BY PlaceIInv, FixedIInv, SucceedIInv, FailIInv, StopIInv, VerifyIInv, OtherIInv
     DEF Next, Step, Stopped

\* It is an invariant.
LEMMA AlwaysIInv == Spec => []IInv
  BY InitIInv, NextIInv, PTL DEF Spec

-----------------------------------------------------------------------------
(* The verification *)

\* Before the verification its two flags say that all is well.
FlagsFresh ==
  pc \in {"place", "fixed", "search", "searched"} => prevSuccess /\ prev2Success

\* The verification counts down from the final width: whatever it has passed
\* has failed, and how far it is below says how often it has failed in a row.
CountedDown ==
  /\ pc = "verify" /\ final = NoWidth => current < 1
  /\ Fs <= 3 /\ pc = "verify" /\ final # NoWidth =>
       /\ current <= final - Multiplier
       /\ ~prevSuccess => current <= final - 2 * Multiplier
       /\ ~prevSuccess /\ ~prev2Success => current < final - 2 * Multiplier
       /\ \A w \in Nat : current < w /\ w < final /\ Admissible(w) => w \in failed
  /\ Fs <= 3 => TwoNarrowerFail

VInv == FlagsFresh /\ CountedDown

\* The invariant of the verification, which needs the one of the bounds: how the last two
\* attempts ended is what the flags say.
LEMMA InitVInv == Init => VInv
  BY DEF Init, VInv, FlagsFresh, CountedDown, TwoNarrowerFail

\* An attempt at a narrower width.
LEMMA VerifyVInv ==
  ASSUME IInv, VInv, NEW routed \in BOOLEAN, VerifyAttempt(routed)
  PROVE  VInv'
  <1>1. /\ pc = "verify" /\ pc' = "verify" /\ current \in Int /\ current >= 1
        /\ current' = current - Multiplier /\ final \in Width
        /\ prevSuccess' = routed /\ prev2Success' = prevSuccess
        /\ prevSuccess \in BOOLEAN /\ prev2Success \in BOOLEAN
        /\ prevSuccess \/ prev2Success
        /\ Multiplier \in {1, 2} /\ Multiplier' = Multiplier
    <2>1. VerifyAttempt(routed) => [Next]_vars
      BY DEF Next, Step
    <2>2. QED
      BY <2>1, SameOptions, MultiplierValue DEF VerifyAttempt, VerifyMore, IInv, TypeOK
  <1>2. /\ routed => failed' = { w \in failed : w < current } /\ final' = current
        /\ ~routed => failed' = failed \cup {current} /\ final' = final
    BY <1>1, AttemptValue DEF VerifyAttempt, IInv
  <1>3. FlagsFresh' /\ TwoNarrowerFail' /\ final # NoWidth /\ final' # NoWidth
    BY <1>1, <1>2 DEF VInv, FlagsFresh, TwoNarrowerFail, CountedDown
  <1>4. SUFFICES ASSUME Fs <= 3
                 PROVE  /\ current' <= final' - Multiplier
                        /\ ~routed => current' <= final' - 2 * Multiplier
                        /\ ~routed /\ ~prevSuccess => current' < final' - 2 * Multiplier
                        /\ \A w \in Nat : current' < w /\ w < final' /\ Admissible(w) => w \in failed'
    BY <1>1, <1>3 DEF VInv, CountedDown, Admissible
  <1>5. /\ current <= final - Multiplier
        /\ ~prevSuccess => current <= final - 2 * Multiplier
        /\ \A w \in Nat : current < w /\ w < final /\ Admissible(w) => w \in failed
    BY <1>1, <1>3, <1>4 DEF VInv, CountedDown
  <1>6. CASE routed
    <2>1. ASSUME NEW w \in Nat, current' < w, w < current, Admissible(w)
          PROVE  FALSE
      <3>1. Multiplier = 2 /\ Unidirectional /\ w = current - 1
        BY <1>1, <2>1, MultiplierValue
      <3>2. w % 2 = 0 /\ current % 2 = 0
        BY <3>1, <2>1, <1>1 DEF Admissible, IInv, Evens
      <3>3. QED
        BY <3>1, <3>2, <1>1, SMT
    <2>2. QED
      BY <1>1, <1>2, <1>6, <2>1
  <1>7. CASE ~routed
    <2>1. ASSUME NEW w \in Nat, current' < w, w < final, Admissible(w)
          PROVE  w \in failed'
      <3>1. CASE current < w
        BY <3>1, <2>1, <1>5, <1>2, <1>7
      <3>2. CASE w = current
        BY <3>2, <1>2, <1>7
      <3>3. CASE w < current
        <4>1. Multiplier = 2 /\ Unidirectional /\ w = current - 1
          BY <1>1, <2>1, <3>3, MultiplierValue
        <4>2. w % 2 = 0 /\ current % 2 = 0
          BY <4>1, <2>1, <1>1 DEF Admissible, IInv, Evens
        <4>3. QED
          BY <4>1, <4>2, <1>1, SMT
      <3>4. QED
        BY <1>1, <3>1, <3>2, <3>3
    <2>2. /\ current' <= final - 2 * Multiplier
          /\ ~prevSuccess => current' < final - 2 * Multiplier
          /\ current' <= final - Multiplier
      BY <1>1, <1>5, SMT DEF Width
    <2>3. QED
      BY <1>2, <1>7, <2>1, <2>2
  <1>8. QED
    BY <1>6, <1>7

\* The start of the verification.
LEMMA SearchedVInv ==
  ASSUME IInv, VInv, Searched
  PROVE  VInv'
  <1>1. /\ pc = "searched" /\ prevSuccess /\ prev2Success
        /\ UNCHANGED << prevSuccess, prev2Success, final, failed >>
        /\ final \in Width /\ failed \subseteq Nat /\ Multiplier \in {1, 2}
        /\ Verify => current' = final - 2 /\ pc' = "verify"
        /\ ~Verify => pc' = "restore"
        /\ Multiplier' = Multiplier /\ Verify' = Verify
    <2>1. Searched => [Next]_vars
      BY DEF Next, Step
    <2>2. QED
      BY <2>1, SameOptions, MultiplierValue DEF Searched, VInv, FlagsFresh, history, IInv, TypeOK
  <1>2. TwoNarrowerFail'
    BY <1>1 DEF TwoNarrowerFail
  <1>3. CASE ~Verify
    BY <1>1, <1>2, <1>3 DEF VInv, FlagsFresh, CountedDown
  <1>4. CASE Verify /\ final = NoWidth
    BY <1>1, <1>2, <1>4, SMT DEF VInv, FlagsFresh, CountedDown
  <1>5. CASE Verify /\ final # NoWidth
    <2>1. ASSUME Fs <= 3, NEW w \in Nat, final - 2 < w, w < final, Admissible(w)
          PROVE  w \in failed
      <3>1. w = final - 1 /\ final \in Nat
        BY <2>1, <1>1, <1>5 DEF Width
      <3>2. ~Unidirectional
        <4>1. SUFFICES ASSUME Unidirectional PROVE FALSE
          OBVIOUS
        <4>2. w % 2 = 0 /\ final % 2 = 0
          BY <4>1, <2>1, <1>5, MultiplierValue DEF Admissible, IInv, Evens, IsEven
        <4>3. QED
          BY <3>1, <4>2, SMT
      <3>3. w = final - Multiplier
        BY <3>1, <3>2, MultiplierValue
      <3>4. QED
        BY <3>3, <2>1, <1>1, <1>5 DEF IInv, Narrowest
    <2>2. final - 2 <= final - Multiplier
      BY <1>1, <1>5, SMT DEF Width
    <2>3. QED
      BY <1>1, <1>2, <1>5, <2>1, <2>2 DEF VInv, FlagsFresh, CountedDown, Admissible
  <1>6. QED
    BY <1>3, <1>4, <1>5

\* Two failures in a row, or no width left to try: both leave the two widths
\* below the final one among those that failed.
LEMMA VerifiedVInv ==
  ASSUME IInv, VInv, Verified
  PROVE  VInv'
  <1>1. /\ pc = "verify" /\ pc' = "restore" /\ ~VerifyMore
        /\ UNCHANGED << prevSuccess, prev2Success, final, failed, current >>
        /\ current \in Int /\ final \in Width /\ Multiplier \in {1, 2}
        /\ Multiplier' = Multiplier /\ Verify' = Verify
    <2>1. Verified => [Next]_vars
      BY DEF Next, Step
    <2>2. QED
      BY <2>1, SameOptions, MultiplierValue DEF Verified, history, bounds, IInv, TypeOK
  <1>2. ASSUME Fs <= 3, final # NoWidth,
               NEW w \in {final - Multiplier, final - 2 * Multiplier}, Admissible(w)
        PROVE  w \in failed
    <2>1. /\ ~prevSuccess /\ ~prev2Success => current < final - 2 * Multiplier
          /\ \A v \in Nat : current < v /\ v < final /\ Admissible(v) => v \in failed
      BY <1>1, <1>2 DEF VInv, CountedDown
    <2>2. w >= 1 /\ w < final /\ w \in Nat /\ w >= final - 2 * Multiplier
      BY <1>1, <1>2, SMT DEF Admissible, Width
    <2>3. current < w
      <3>1. CASE current < 1
        BY <3>1, <2>2, <1>1
      <3>2. CASE ~prevSuccess /\ ~prev2Success
        BY <3>2, <2>1, <2>2, <1>1, SMT DEF Width
      <3>3. QED
        BY <3>1, <3>2, <1>1 DEF VerifyMore
    <2>4. QED
      BY <2>1, <2>2, <2>3, <1>2
  <1>3. QED
    BY <1>1, <1>2 DEF VInv, FlagsFresh, CountedDown, TwoNarrowerFail, Admissible

\* Every step keeps it.
LEMMA NextVInv == IInv /\ VInv /\ [Next]_vars => VInv'
  <1>1. SUFFICES ASSUME IInv, VInv, [Next]_vars PROVE VInv'
    OBVIOUS
  <1>2. ASSUME /\ pc' = pc \/ pc' \notin {"verify", "restore"}
               /\ UNCHANGED << prevSuccess, prev2Success >>
               /\ pc' \notin {"place", "fixed", "search", "searched"} \/
                    pc \in {"place", "fixed", "search", "searched"}
               /\ pc \in {"verify", "restore"} => UNCHANGED << current, final, failed >>
        PROVE  VInv'
    <2>1. FlagsFresh'
      BY <1>1, <1>2 DEF VInv, FlagsFresh
    <2>2. CASE pc' \notin {"verify", "restore"}
      BY <2>1, <2>2 DEF VInv, CountedDown, TwoNarrowerFail
    <2>3. CASE pc' = pc /\ pc \in {"verify", "restore"}
      <3>1. CountedDown
        BY <1>1 DEF VInv
      <3>2. UNCHANGED << pc, current, final, failed, prevSuccess, prev2Success >>
        BY <1>2, <2>3
      <3>3. CountedDown'
        BY <3>1, <3>2, SameOptions, <1>1 DEF CountedDown, TwoNarrowerFail, Admissible
      <3>4. QED
        BY <2>1, <3>3 DEF VInv
    <2>4. QED
      BY <1>2, <2>2, <2>3
  <1>3. CASE UNCHANGED vars
    BY <1>2, <1>3 DEF vars, bounds, history
  <1>4. CASE Restore \/ Check
    BY <1>2, <1>4 DEF Restore, Check, history, bounds
  <1>5. CASE Place \/ RouteFixed \/ GiveUp \/ StopBelowFs \/ Succeed \/ Fail \/ Found
    <2>1. /\ pc \in {"place", "fixed", "search"}
          /\ UNCHANGED << prevSuccess, prev2Success >>
          /\ pc' \notin {"verify", "restore"}
      BY <1>5 DEF Place, RouteFixed, GiveUp, StopBelowFs, Succeed, Fail, Found,
         Attempting, history
    <2>2. QED
      BY <1>2, <2>1
  <1>6. QED
    BY <1>1, <1>3, <1>4, <1>5, VerifyVInv, SearchedVInv, VerifiedVInv DEF Next, Step, Stopped

\* It is an invariant.
LEMMA AlwaysVInv == Spec => []VInv
  BY InitVInv, NextVInv, AlwaysIInv, PTL DEF Spec

-----------------------------------------------------------------------------
(* The placement and the place file *)

\* Which placement the routing that is kept was made for: the one that stands,
\* or, when the blocks are placed anew for each attempt, the one of the last
\* attempt only if that has succeeded.
Stamped ==
  IF PlaceAlways
  THEN /\ 2 <= saved.placement /\ saved.placement <= placement
       /\ saved.placement = placement <=> success
  ELSE saved.placement = 1 /\ placement = 1

\* The place file is that of the beginning until the verification has found a
\* narrower width than the search.
Written ==
  IF PlaceAlways /\ final < high
  THEN placeFile = saved.placement
  ELSE placeFile = 1

PlaceInv ==
  /\ pc \in {"place", "fixed"} => ~saved.legal
  /\ pc = "fixed" => FixedWidth # NoWidth
  /\ pc \in {"search", "searched", "verify", "restore"} =>
       /\ placement >= 1
       /\ ~PlaceAlways => placement = 1 /\ placeFile = 1
       /\ saved.legal => Stamped
       /\ final # NoWidth => final <= high /\ Written
  /\ pc \in {"search", "searched"} => placeFile = 1 /\ (final # NoWidth => final = high)
  /\ pc = "verify" /\ final # NoWidth => current < final
  /\ BestIsRestored

\* It holds at the start.
LEMMA InitPlaceInv == Init => PlaceInv
  BY DEF Init, PlaceInv, BestIsRestored, NoRouting

\* What an attempt does to the placement.
LEMMA AttemptPlacement ==
  ASSUME IInv, PlaceInv, NEW routed \in BOOLEAN, Attempt(routed), opts' = opts,
         pc \in {"search", "verify"}
  PROVE  /\ placement' >= 1 /\ placement' \in Nat
         /\ routing'.placement = placement' /\ routing'.legal = routed /\ success' = routed
         /\ PlaceAlways' = PlaceAlways
         /\ PlaceAlways => placement' = placement + 1 /\ placement >= 1 /\ placement' >= 2
         /\ ~PlaceAlways => placement' = 1 /\ placement = 1
  <1>1. placement \in Nat /\ placement >= 1
    BY DEF IInv, TypeOK, PlaceInv
  <1>2. routing' = [width |-> current, placement |-> placement', legal |-> routed] /\ success' = routed
    BY DEF Attempt
  <1>3. PlaceAlways' = PlaceAlways
    BY DEF PlaceAlways
  <1>4. /\ placement' = IF PlaceAlways THEN placement + 1 ELSE placement
        /\ ~PlaceAlways => placement = 1
    BY DEF Attempt, PlaceInv
  <1>5. QED
    BY <1>1, <1>2, <1>3, <1>4

\* A width that can be routed, a width that cannot.
LEMMA SearchPlaceInv == ASSUME IInv, PlaceInv, Succeed \/ Fail PROVE PlaceInv'
  <1>1. PICK routed \in BOOLEAN :
          /\ Attempt(routed)
          /\ routed => /\ high' = current /\ saved' = routing'
                       /\ final' = IF CannotGoLower \/ Close(current, low) THEN current ELSE final
          /\ ~routed => /\ UNCHANGED << high, saved >>
                        /\ final' = IF high # NoWidth /\ Close(high, current) THEN high ELSE final
    BY DEF Succeed, Fail
  <1>2. /\ pc = "search" /\ pc' = "search" /\ final = NoWidth /\ opts' = opts /\ placeFile' = placeFile
    BY DEF Succeed, Fail, Attempting
  <1>3. /\ placement' >= 1 /\ placement' \in Nat
        /\ routing'.placement = placement' /\ routing'.legal = routed /\ success' = routed
        /\ PlaceAlways' = PlaceAlways
        /\ PlaceAlways => placement' = placement + 1 /\ placement >= 1 /\ placement' >= 2
        /\ ~PlaceAlways => placement' = 1 /\ placement = 1
    BY <1>1, <1>2, AttemptPlacement
  <1>4. placeFile = 1
    BY <1>2 DEF PlaceInv
  <1>5. /\ placement \in Nat /\ saved \in Routing /\ saved.placement \in Nat /\ saved.legal \in BOOLEAN
        /\ high \in Width /\ current \in Int
    BY DEF IInv, TypeOK, Routing
  <1>6. saved'.legal => Stamped'
    <2>1. CASE routed
      BY <2>1, <1>1, <1>3 DEF Stamped
    <2>2. CASE ~routed
      <3>1. saved.legal => Stamped
        BY <1>2 DEF PlaceInv
      <3>2. QED
        BY <2>2, <3>1, <1>1, <1>3, <1>5 DEF Stamped
    <2>3. QED
      BY <2>1, <2>2
  <1>7. final' # NoWidth => final' = high'
    BY <1>1, <1>2
  <1>8. high' \in Int
    BY <1>1, <1>5 DEF Width
  <1>9. final' # NoWidth => final' <= high' /\ Written'
    BY <1>2, <1>4, <1>7, <1>8 DEF Written
  <1>10. BestIsRestored'
    BY <1>2 DEF BestIsRestored
  <1>11. QED
    BY <1>2, <1>3, <1>4, <1>6, <1>7, <1>9, <1>10 DEF PlaceInv

\* A narrower width tried after the search.
LEMMA VerifyPlaceInv ==
  ASSUME IInv, PlaceInv, VInv, NEW routed \in BOOLEAN, VerifyAttempt(routed)
  PROVE  PlaceInv'
  <1>1. /\ pc = "verify" /\ pc' = "verify" /\ opts' = opts /\ high' = high
        /\ current' = current - Multiplier /\ Attempt(routed) /\ current >= 1
        /\ Multiplier \in {1, 2}
        /\ IF routed
           THEN /\ final' = current
                /\ saved' = routing'
                /\ placeFile' = IF PlaceAlways THEN placement' ELSE placeFile
           ELSE UNCHANGED << final, saved, placeFile >>
    BY MultiplierValue DEF VerifyAttempt, VerifyMore
  <1>2. /\ placement' >= 1 /\ placement' \in Nat
        /\ routing'.placement = placement' /\ routing'.legal = routed /\ success' = routed
        /\ PlaceAlways' = PlaceAlways
        /\ PlaceAlways => placement' = placement + 1 /\ placement >= 1 /\ placement' >= 2
        /\ ~PlaceAlways => placement' = 1 /\ placement = 1
    BY <1>1, AttemptPlacement
  <1>3. /\ placement \in Nat /\ saved.placement \in Nat /\ saved.legal \in BOOLEAN
        /\ high \in Int /\ final \in Int /\ current \in Int
    BY DEF IInv, TypeOK, Routing, Width
  <1>4. final # NoWidth
    BY <1>1, <1>3 DEF VInv, CountedDown
  <1>5. /\ final <= high /\ Written /\ current < final /\ saved.legal /\ Stamped
        /\ ~PlaceAlways => placeFile = 1
    BY <1>1, <1>4 DEF PlaceInv, IInv, FinalSaved
  <1>6. Stamped'
    BY <1>1, <1>2, <1>3, <1>5 DEF Stamped
  <1>7. final' <= high' /\ current' < final'
    BY <1>1, <1>3, <1>5
  <1>8. Written' /\ (~PlaceAlways => placeFile' = 1)
    BY <1>1, <1>2, <1>3, <1>5 DEF Written
  <1>9. BestIsRestored'
    BY <1>1 DEF BestIsRestored
  <1>10. QED
    BY <1>1, <1>2, <1>6, <1>7, <1>8, <1>9 DEF PlaceInv

\* The best routing is put back, over the placement and beside the file there are.
LEMMA RestorePlaceInv == ASSUME IInv, PlaceInv, Restore PROVE PlaceInv'
  <1>1. /\ pc = "restore" /\ routing' = saved /\ pc' = IF final = NoWidth THEN "crashed" ELSE "checking"
        /\ UNCHANGED << opts, final, high, success, placement, placeFile, saved >>
        /\ FixedWidth' = FixedWidth /\ PlaceAlways' = PlaceAlways
    BY DEF Restore, bounds, history, FixedWidth, PlaceAlways
  <1>2. ASSUME final # NoWidth
        PROVE  /\ saved.legal /\ saved.width = final
               /\ placement = saved.placement <=> (PlaceAlways => success)
               /\ placeFile = saved.placement <=> (PlaceAlways => final < high)
    <2>1. /\ saved.legal /\ saved.width = final /\ Stamped /\ Written /\ final <= high
          /\ ~PlaceAlways => placeFile = 1
      BY <1>1, <1>2 DEF IInv, FinalSaved, PlaceInv
    <2>2. saved.placement \in Nat /\ placement \in Nat /\ final \in Int /\ high \in Int
      BY DEF IInv, TypeOK, Routing, Width
    <2>3. CASE PlaceAlways
      BY <2>1, <2>2, <2>3 DEF Stamped, Written
    <2>4. CASE ~PlaceAlways
      BY <2>1, <2>2, <2>4 DEF Stamped, Written
    <2>5. QED
      BY <2>1, <2>3, <2>4
  <1>3. BestIsRestored'
    BY <1>1, <1>2 DEF BestIsRestored
  <1>4. QED
    BY <1>1, <1>3 DEF PlaceInv

\* The steps that touch neither the placement nor what has been kept.
LEMMA OtherPlaceInv ==
  ASSUME IInv, PlaceInv, VInv, [Next]_vars,
         Place \/ RouteFixed \/ GiveUp \/ StopBelowFs \/ Found \/ Searched \/ Verified \/ Check
           \/ UNCHANGED vars
  PROVE  PlaceInv'
  <1>1. /\ FixedWidth' = FixedWidth /\ PlaceAlways' = PlaceAlways
    BY SameOptions
  <1>2. CASE Place
    <2>1. /\ pc = "place" /\ placement' = 1 /\ placeFile' = 1 /\ UNCHANGED << bounds, saved >>
          /\ pc' \in {"fixed", "search", "thrown"} /\ (pc' = "fixed" => FixedWidth # NoWidth)
      BY <1>2 DEF Place
    <2>2. ~saved.legal /\ final = NoWidth
      BY <2>1 DEF PlaceInv, IInv, Fresh
    <2>3. QED
      BY <1>1, <2>1, <2>2 DEF PlaceInv, BestIsRestored, bounds
  <1>3. CASE RouteFixed
    <2>1. /\ pc = "fixed" /\ pc' \in {"thrown", "checking", "unroutable"}
      BY <1>3 DEF RouteFixed
    <2>2. FixedWidth # NoWidth
      BY <2>1 DEF PlaceInv
    <2>3. QED
      BY <1>1, <2>1, <2>2 DEF PlaceInv, BestIsRestored
  <1>4. CASE GiveUp
    BY <1>4 DEF GiveUp, PlaceInv, BestIsRestored
  <1>5. CASE StopBelowFs
    <2>1. /\ pc = "search" /\ pc' = "searched" /\ final' = high /\ high \in Int
          /\ UNCHANGED << high, success, placement, placeFile, saved >>
      BY <1>5 DEF StopBelowFs, history, IInv, TypeOK, Width
    <2>2. QED
      BY <1>1, <2>1 DEF PlaceInv, Stamped, Written, BestIsRestored
  <1>6. CASE Found
    <2>1. /\ pc = "search" /\ pc' = "searched"
          /\ UNCHANGED << final, high, success, placement, placeFile, saved >>
      BY <1>6 DEF Found, history, bounds
    <2>2. QED
      BY <1>1, <2>1 DEF PlaceInv, Stamped, Written, BestIsRestored
  <1>7. CASE Searched
    <2>1. /\ pc = "searched" /\ pc' \in {"verify", "restore"} /\ final \in Int
          /\ pc' = "verify" => current' = final - 2
          /\ UNCHANGED << final, high, success, placement, placeFile, saved >>
      BY <1>7 DEF Searched, history, IInv, TypeOK, Width
    <2>2. pc' = "verify" => current' < final'
      BY <2>1
    <2>3. QED
      BY <1>1, <2>1, <2>2 DEF PlaceInv, Stamped, Written, BestIsRestored
  <1>8. CASE Verified
    <2>1. /\ pc = "verify" /\ pc' = "restore"
          /\ UNCHANGED << final, high, success, placement, placeFile, saved >>
      BY <1>8 DEF Verified, history, bounds
    <2>2. QED
      BY <1>1, <2>1 DEF PlaceInv, Stamped, Written, BestIsRestored
  <1>9. CASE Check
    <2>1. /\ pc = "checking" /\ pc' \in {"done", "thrown"}
          /\ UNCHANGED << final, high, success, placement, placeFile, routing >>
      BY <1>9 DEF Check, history, bounds
    <2>2. QED
      BY <1>1, <2>1 DEF PlaceInv, BestIsRestored
  <1>10. CASE UNCHANGED vars
    <2>1. UNCHANGED << pc, current, final, high, success, placement, placeFile, routing, saved >>
      BY <1>10 DEF vars, bounds, history
    <2>2. QED
      BY <1>1, <2>1 DEF PlaceInv, Stamped, Written, BestIsRestored
  <1>11. QED
    BY <1>2, <1>3, <1>4, <1>5, <1>6, <1>7, <1>8, <1>9, <1>10

\* Every step keeps it.
LEMMA NextPlaceInv == IInv /\ VInv /\ PlaceInv /\ [Next]_vars => PlaceInv'
  BY SearchPlaceInv, VerifyPlaceInv, RestorePlaceInv, OtherPlaceInv DEF Next, Step, Stopped

\* It is an invariant.
LEMMA AlwaysPlaceInv == Spec => []PlaceInv
  BY InitPlaceInv, NextPlaceInv, AlwaysIInv, AlwaysVInv, PTL DEF Spec

-----------------------------------------------------------------------------
(* Theorems *)

\* Every width that is routed, kept or given back is a natural number.
THEOREM Typed == Spec => []TypeOK
  BY AlwaysIInv, PTL DEF IInv

\* The search keeps its answer between its bounds, whatever the router does
\* (the loop of binary_search_place_and_route).
THEOREM SearchBracket == Spec => []Bracket
  <1>1. IInv => Bracket
    <2>1. SUFFICES ASSUME IInv, pc = "search", final = NoWidth PROVE Bracket
      BY DEF Bracket
    <2>2. current \in Int /\ low \in Width /\ high \in Width
      BY <2>1 DEF IInv, TypeOK
    <2>3. low = NoWidth /\ high # NoWidth => current <= high
      BY <2>1, <2>2, RoundedValue, SMT DEF IInv, Bounds, Width, Evens, IsEven
    <2>4. low # NoWidth /\ high = NoWidth => low < current
      BY <2>1, <2>2, RoundedValue, SMT DEF IInv, Bounds, Width
    <2>5. QED
      BY <2>1, <2>3, <2>4 DEF IInv, Bounds, Bracket
  <1>2. QED
    BY <1>1, AlwaysIInv, PTL

\* No odd width is ever routed on a device with unidirectional wires.
THEOREM WidthsEven == Spec => []EvenWidths
  <1>1. IInv => EvenWidths
    BY DEF IInv, Evens, IsEven, EvenWidths
  <1>2. QED
    BY <1>1, AlwaysIInv, PTL

\* What is checked and written out after the search is a legal routing of the
\* final width; the blocks and the place file go with it except in the cases
\* that the property names.
THEOREM BestRestored == Spec => []BestIsRestored
  <1>1. PlaceInv => BestIsRestored
    BY DEF PlaceInv
  <1>2. QED
    BY <1>1, AlwaysPlaceInv, PTL

\* Every attempt that leaves the search undecided gets it further, for wires of
\* both directions and of one: halving and rounding never repeat a pair of bounds.
THEOREM AttemptsNarrow == Spec => EveryAttemptNarrows
  <1>1. IInv /\ [Next]_vars => [Narrows]_vars
    <2>1. SUFFICES ASSUME IInv, Next, vars' # vars,
                          pc = "search", pc' = "search", final' = NoWidth
                   PROVE  Narrows
      BY DEF Narrows
    <2>2. Succeed \/ Fail
      BY <2>1 DEF Next, Step, Stopped, Place, RouteFixed, GiveUp, StopBelowFs, Found, Searched,
         VerifyAttempt, Verified, Restore, Check
    <2>3. /\ final = NoWidth /\ current \in Nat /\ current >= 1
          /\ low \in Width /\ high \in Width
      BY <2>2, <2>1, AttemptingValue DEF Succeed, Fail
    <2>4. /\ low # NoWidth => low >= 1
          /\ low # NoWidth /\ high # NoWidth => low < current /\ current < high
          /\ low = NoWidth /\ high # NoWidth => high >= 1 /\ current = Rounded(high \div 2)
          /\ low # NoWidth /\ high = NoWidth => current = Rounded(low * 2)
      BY <2>1, <2>3 DEF IInv, Bounds
    <2>5. CASE Succeed
      <3>1. high' = current /\ low' = low /\ current # high
        BY <2>1, <2>3, <2>5 DEF Succeed, CannotGoLower
      <3>2. CASE low = NoWidth /\ high # NoWidth
        <4>1. current <= high
          <5>1. high \div 2 \in Int /\ 2 * (high \div 2) <= high
            BY <2>3, <3>2, SMT DEF Width
          <5>2. current <= high \div 2 + 1
            BY <5>1, <2>3, <2>4, <3>2, RoundedValue
          <5>3. Unidirectional => high % 2 = 0
            BY <2>1, <3>2 DEF IInv, Evens, IsEven
          <5>4. CASE high = 1
            BY <5>1, <5>3, <5>4, <2>3, <2>4, <3>2, RoundedValue, SMT
          <5>5. QED
            BY <5>1, <5>2, <5>4, <2>3, <2>4, <3>2, SMT DEF Width
        <4>2. QED
          BY <4>1, <3>1, <3>2, <2>3, SMT DEF Narrows, Width
      <3>3. CASE high = NoWidth \/ low # NoWidth
        BY <3>1, <3>3, <2>3, <2>4, SMT DEF Narrows, Width
      <3>4. QED
        BY <3>2, <3>3
    <2>6. CASE Fail
      <3>1. high' = high /\ low' = current
        BY <2>6 DEF Fail
      <3>2. high = NoWidth => low < current
        BY <2>3, <2>4, RoundedValue, SMT DEF Width
      <3>3. QED
        BY <3>1, <3>2, <2>3, <2>4, SMT DEF Narrows, Width
    <2>7. QED
      BY <2>2, <2>5, <2>6
  <1>2. QED
    BY <1>1, AlwaysIInv, PTL DEF Spec, EveryAttemptNarrows

\* With at most three connections per wire in a switch block, the width next
\* below the one that is found has been tried and does not route.  (With more,
\* it need not have been tried.)
THEOREM NarrowerFails == ASSUME Fs <= 3 PROVE Spec => []NextNarrowerFails
  <1>1. IInv => NextNarrowerFails
    BY DEF IInv, Narrowest, NextNarrowerFails
  <1>2. QED
    BY <1>1, AlwaysIInv, PTL

\* "The router keeps trying smaller channel widths until two in a row fail":
\* with at most three connections per wire in a switch block, the two widths
\* below the one that is given back have failed.
THEOREM TwoFailBelow == ASSUME Fs <= 3 PROVE Spec => []TwoNarrowerFail
  <1>1. VInv => TwoNarrowerFail
    BY DEF VInv, CountedDown
  <1>2. QED
    BY <1>1, AlwaysVInv, PTL
=============================================================================
