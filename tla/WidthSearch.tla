---------------------------- MODULE WidthSearch -----------------------------
(***************************************************************************)
(* The flow after packing (place_and_route, base/place_and_route.c): the   *)
(* blocks are placed, then routed with a given channel width or with the   *)
(* smallest one a binary search can find, and the routing that was best is *)
(* brought back for the checker and for the output files.                  *)
(*                                                                         *)
(* The router is a coin: "a circuit that will not route in 19 channels     *)
(* will route in 18, due to router flukiness".  Placements are told apart  *)
(* by number, routings by the width and the placement they were made for.  *)
(***************************************************************************)
EXTENDS Integers

CONSTANTS
  MaxPins,    \* pins of the largest block type
  Fs,         \* connections of a wire at a switch block
  WidthLimit, \* 1000: a wider channel is given up
  Options     \* what the architecture and the command line may choose

NoWidth == -1

\* fixed_channel_width (NoWidth: find the smallest), directionality of the
\* channel wires, whether place_freq is PLACE_ALWAYS, and verify_binary_search.
Option ==
  [fixedWidth : Nat \cup {NoWidth}, unidirectional : BOOLEAN,
   placeAlways : BOOLEAN, verify : BOOLEAN]

ASSUME WidthAssumption ==
  /\ MaxPins \in Nat \ {0}
  /\ Fs \in Nat \ {0}
  /\ WidthLimit \in Nat
  /\ Options \subseteq Option

VARIABLES
  opts,                          \* the options of this run of the program
  current, low, high, final,     \* as in binary_search_place_and_route
  attempts,   \* attempt_count, odd or even: a width that is tried again is a step
  success, prevSuccess, prev2Success,
  placement,  \* number of the placement the blocks are in
  placeFile,  \* placement that was written to the place file
  routing,    \* trace_head: width, placement, and whether it is legal
  saved,      \* best_routing
  failed,     \* (history) widths below the last success whose last attempt failed
  pc

bounds  == << current, low, high, final >>
history == << attempts, success, prevSuccess, prev2Success >>
vars == << opts, bounds, history, placement, placeFile, routing, saved, failed, pc >>

FixedWidth     == opts.fixedWidth
Unidirectional == opts.unidirectional
PlaceAlways    == opts.placeAlways
Verify         == opts.verify

\* udsd_multiplier
Multiplier == IF Unidirectional THEN 2 ELSE 1

NoRouting == [width |-> NoWidth, placement |-> 0, legal |-> FALSE]

Start == MaxPins + (MaxPins % 2)

\* Channel widths are even when wires come in pairs of one direction each.
Rounded(w) == w + (w % Multiplier)

Init ==
  /\ opts \in Options
  /\ current = Start /\ low = NoWidth /\ high = NoWidth /\ final = NoWidth
  /\ attempts = 0 /\ success = FALSE /\ prevSuccess = TRUE /\ prev2Success = TRUE
  /\ placement = 0 /\ placeFile = 0
  /\ routing = NoRouting /\ saved = NoRouting
  /\ failed = {}
  /\ pc = "place"

\* Whatever place_freq is, there is a placement before the first routing, made
\* by try_place and written out, or read in.  Fs must be a multiple of three if
\* wires are bidirectional.
Place ==
  /\ pc = "place"
  /\ placement' = 1 /\ placeFile' = 1
  /\ pc' = IF FixedWidth # NoWidth THEN "fixed"
           ELSE IF ~Unidirectional /\ Fs % 3 # 0 THEN "thrown" ELSE "search"
  /\ UNCHANGED << opts, bounds, history, routing, saved, failed >>

\* With a given width there is one attempt.
RouteFixed ==
  /\ pc = "fixed"
  /\ IF Unidirectional /\ FixedWidth % 2 # 0
     THEN /\ pc' = "thrown"
          /\ UNCHANGED << routing, failed >>
     ELSE \E routed \in BOOLEAN :
            /\ routing' = [width |-> FixedWidth, placement |-> placement, legal |-> routed]
            /\ failed' = IF routed THEN failed ELSE failed \cup {FixedWidth}
            /\ pc' = IF routed THEN "checking" ELSE "unroutable"
  /\ UNCHANGED << opts, bounds, history, placement, placeFile, saved >>

-----------------------------------------------------------------------------
(* binary_search_place_and_route *)

\* try_route at the current width, after a new placement if so requested.
\* (Fc_clipped is never set: build_rr_graph keeps its own.)
Attempt(routed) ==
  /\ placement' = IF PlaceAlways THEN placement + 1 ELSE placement
  /\ routing' = [width |-> current, placement |-> placement', legal |-> routed]
  /\ success' = routed
  /\ failed' = IF routed THEN { w \in failed : w < current } ELSE failed \cup {current}

TooWide == current > WidthLimit

GiveUp ==
  /\ pc = "search" /\ final = NoWidth
  /\ TooWide
  /\ pc' = "thrown"
  /\ UNCHANGED << opts, bounds, history, placement, placeFile, routing, saved, failed >>

\* The switch blocks need more wires than a channel of this width has.
BelowFs == current * 3 < Fs

StopBelowFs ==
  /\ pc = "search" /\ final = NoWidth
  /\ ~TooWide /\ BelowFs
  /\ final' = high
  /\ pc' = "searched"
  /\ UNCHANGED << opts, current, low, high, history, placement, placeFile, routing, saved, failed >>

Attempting == pc = "search" /\ final = NoWidth /\ ~TooWide /\ ~BelowFs

\* (mutant) the bounds have to meet
CloseMeeting(h, l) == h - l < Multiplier

\* (mutant) one width between the bounds is left out
CloseTwice(h, l) == h - l <= 2 * Multiplier

Close(h, l) == h - l <= Multiplier

\* (mutant) the width is not compared with the upper bound
NeverLowest == FALSE

\* Halving and rounding have led to the upper bound again.
CannotGoLower == current = high

Counted == (attempts + 1) % 2

Succeed ==
  /\ Attempting
  /\ Attempt(TRUE)
  /\ attempts' = Counted
  /\ high' = current
  /\ final' = IF CannotGoLower \/ Close(current, low) THEN current ELSE final
  /\ current' = Rounded(IF low # NoWidth THEN (current + low) \div 2 ELSE current \div 2)
  /\ saved' = routing'
  /\ UNCHANGED << opts, low, prevSuccess, prev2Success, placeFile, pc >>

Fail ==
  /\ Attempting
  /\ Attempt(FALSE)
  /\ attempts' = Counted
  /\ low' = current
  /\ final' = IF high # NoWidth /\ Close(high, current) THEN high ELSE final
  /\ current' = Rounded(IF high # NoWidth THEN (high + current) \div 2 ELSE current * 2)
  /\ UNCHANGED << opts, high, prevSuccess, prev2Success, placeFile, saved, pc >>

Found ==
  /\ pc = "search" /\ final # NoWidth
  /\ pc' = "searched"
  /\ UNCHANGED << opts, bounds, history, placement, placeFile, routing, saved, failed >>

-----------------------------------------------------------------------------
(* Verification: smaller widths, until two in a row fail *)

Searched ==
  /\ pc = "searched"
  /\ IF Verify
     THEN current' = final - 2 /\ pc' = "verify"
     ELSE pc' = "restore" /\ UNCHANGED current
  /\ UNCHANGED << opts, low, high, final, history, placement, placeFile, routing, saved, failed >>

\* (mutant) one failure is enough
VerifyMoreOnce == prevSuccess /\ current >= 1

VerifyMore == (prev2Success \/ prevSuccess) /\ current >= 1

\* (mutant) a narrower routing is not kept
VerifyAttemptForget(routed) ==
  /\ pc = "verify" /\ VerifyMore
  /\ Attempt(routed)
  /\ IF routed
     THEN /\ final' = current
          /\ placeFile' = IF PlaceAlways THEN placement' ELSE placeFile
     ELSE UNCHANGED << final, placeFile >>
  /\ prev2Success' = prevSuccess
  /\ prevSuccess' = routed
  /\ current' = current - Multiplier
  /\ UNCHANGED << opts, low, high, attempts, saved, pc >>

VerifyAttempt(routed) ==
  /\ pc = "verify" /\ VerifyMore
  /\ Attempt(routed)
  /\ IF routed
     THEN /\ final' = current
          /\ saved' = routing'
          /\ placeFile' = IF PlaceAlways THEN placement' ELSE placeFile
     ELSE UNCHANGED << final, saved, placeFile >>
  /\ prev2Success' = prevSuccess
  /\ prevSuccess' = routed
  /\ current' = current - Multiplier
  /\ UNCHANGED << opts, low, high, attempts, pc >>

Verified ==
  /\ pc = "verify" /\ ~VerifyMore
  /\ pc' = "restore"
  /\ UNCHANGED << opts, bounds, history, placement, placeFile, routing, saved, failed >>

\* The graph is built again for the final width and the best routing put back
\* in; the placement is left as it is.
Restore ==
  /\ pc = "restore"
  /\ routing' = saved
  /\ pc' = IF final = NoWidth THEN "crashed" ELSE "checking"
  /\ UNCHANGED << opts, bounds, history, placement, placeFile, saved, failed >>

\* check_route: the SOURCEs must be where the blocks are now.
Check ==
  /\ pc = "checking"
  /\ pc' = IF routing.legal /\ routing.placement = placement THEN "done" ELSE "thrown"
  /\ UNCHANGED << opts, bounds, history, placement, placeFile, routing, saved, failed >>

Ended == {"done", "unroutable", "thrown", "crashed"}

Stopped == pc \in Ended /\ UNCHANGED vars

Step ==
  \/ Place \/ RouteFixed
  \/ GiveUp \/ StopBelowFs \/ Succeed \/ Fail \/ Found
  \/ Searched \/ VerifyAttempt(TRUE) \/ VerifyAttempt(FALSE) \/ Verified
  \/ Restore \/ Check

Next == Step \/ Stopped

Spec == Init /\ [][Next]_vars /\ WF_vars(Step)
-----------------------------------------------------------------------------
(* Properties *)

Width == Nat \cup {NoWidth}
Routing == [width : Width, placement : Nat, legal : BOOLEAN]

\* The widths that are routed, kept and given back are natural numbers, although
\* the next width to try may have been counted down below that.
TypeOK ==
  /\ opts \in Options
  /\ current \in Int
  /\ {low, high, final} \subseteq Width
  /\ attempts \in {0, 1}
  /\ {success, prevSuccess, prev2Success} \subseteq BOOLEAN
  /\ {placement, placeFile} \subseteq Nat
  /\ {routing, saved} \subseteq Routing
  /\ failed \subseteq Nat
  /\ pc \in {"place", "fixed", "search", "searched", "verify", "restore", "checking"}
            \cup Ended

\* While the search goes on it has the answer between its bounds: the width at
\* the upper bound is that of the routing that is kept, the one at the lower
\* bound did not route when it was last tried, and the next width to try is
\* strictly between them, or the upper bound again while nothing has failed.
Bracket ==
  pc = "search" /\ final = NoWidth =>
    /\ high # NoWidth => saved.width = high /\ saved.legal
    /\ low # NoWidth => low \in failed
    /\ low # NoWidth /\ high # NoWidth => low < current /\ current < high
    /\ low = NoWidth /\ high # NoWidth => current <= high
    /\ low # NoWidth /\ high = NoWidth => low < current

\* "Channel width must be even": every width tried with unidirectional wires is
\* (the check for odd widths looks only at the first).
EvenWidths ==
  Unidirectional /\ routing.width # NoWidth => routing.width % 2 = 0

\* What is there when the search is over, to be checked and written out.  The
\* routing is a legal one of the final width.  It fits the blocks where they
\* are, unless they have been placed again for a later attempt that failed, and
\* it fits the place file, unless the blocks were placed for each attempt and
\* only the verification wrote them out ("Restore the best placement (if
\* necessary)": neither saving nor reading it back is compiled in).
BestIsRestored ==
  pc \in {"checking", "done"} /\ FixedWidth = NoWidth =>
    /\ routing.legal /\ routing.width = final
    /\ placement = routing.placement <=> (PlaceAlways => success)
    /\ placeFile = routing.placement <=> (PlaceAlways => final < high)

Admissible(w) == w >= 1 /\ w * 3 >= Fs /\ w % Multiplier = 0

\* "a binary search to find the minimum number of tracks per channel": when it
\* ends, the next smaller width has been tried and does not route.
NextNarrowerFails ==
  pc = "searched" /\ final # NoWidth /\ Admissible(final - Multiplier) =>
    final - Multiplier \in failed

\* "the router keeps trying smaller channel widths until two in a row fail".
TwoNarrowerFail ==
  Verify /\ pc = "restore" /\ final # NoWidth =>
    \A w \in {final - Multiplier, final - 2 * Multiplier} :
      Admissible(w) => w \in failed

\* Every attempt that leaves the search undecided gets it further: it doubles the
\* width, gives it its first bound of a kind, lowers the upper bound while there
\* is no lower one, or brings the two closer together.
Narrows ==
  pc = "search" /\ pc' = "search" /\ final' = NoWidth =>
    \/ high' = NoWidth /\ low < low'
    \/ high = NoWidth /\ high' # NoWidth
    \/ low = NoWidth /\ low' # NoWidth
    \/ low = NoWidth /\ low' = NoWidth /\ high' < high
    \/ low # NoWidth /\ high # NoWidth /\ high' - low' < high - low

EveryAttemptNarrows == [][Narrows]_vars

\* The flow ends: with a checked routing, or with a verdict.
Ends == <>(pc \in Ended)
=============================================================================
