--------------------------- MODULE TraceReference ---------------------------
(***************************************************************************)
(* What TraceAnalysis should find in a trace, said of the trace alone: by  *)
(* counting and matching its events, without spans, stacks or a pass.      *)
(***************************************************************************)
EXTENDS TraceAnalysis

Positions(S, from, to) == {j \in DOMAIN trace : from <= j /\ j <= to /\ trace[j] \in S}
Count(S, from, to) == Cardinality(Positions(S, from, to))

Calls == {[kind |-> "call"]}
Returns == {[kind |-> "return"]}
Starts(n) == {[kind |-> "start", name |-> n]}
Ends(n) == {[kind |-> "end", name |-> n]}
Charges(n) == [kind : {"charge"}, name : {n}, milli : Amounts]

Openings == Calls \cup UNION {Starts(n) : n \in SpanNames}

(* Span k > 1 is the one that the (k-1)-th opening event opened.           *)
OpenedAt(k) ==
  CHOOSE j \in Positions(Openings, 1, Len(trace)) : Count(Openings, 1, j) = k - 1

(* The first event at which the opens and closes since `o` cancel out.     *)
MatchIn(opens, closes, o) ==
  {j \in Positions(closes, o, Len(trace)) : Count(opens, o, j) = Count(closes, o, j)}

(* Positions at which an opening is matched; the first is where it closes. *)
Matched(o) ==
  IF trace[o] \in Calls THEN MatchIn(Calls, Returns, o)
  ELSE MatchIn(Starts(trace[o].name), Ends(trace[o].name), o)

SumOf(charges) == MapThenSumSet(LAMBDA j : trace[j].milli, charges)
GasWithin(n, from, to) == SumOf(Positions(Charges(n), from, to))

(* Calls open just after position j, and the charges made directly by the  *)
(* call opened at `o` (0 for the root): no call inside it was open.        *)
CallsOpenAt(j) ==
  {o \in Positions(Calls, 1, j) : \A c \in MatchIn(Calls, Returns, o) : c > j}
ChargedBy(n, o) ==
  {j \in Positions(Charges(n), 1, Len(trace)) : Max(CallsOpenAt(j) \cup {0}) = o}

(* When the trace has ended, or broken off, for lack of a match.           *)
Unmatched(opens, closes) ==
  \E j \in DOMAIN trace : Count(closes, 1, j) > Count(opens, 1, j)

-----------------------------------------------------------------------------
(* Properties.                                                             *)

(* The total of a closed span is, charge name by charge name and in sum,   *)
(* the gas between the event that opened it and the one that matches it:   *)
(* parents include children and nothing is counted twice (analysis.rs      *)
(* :53-63), and overlapping named spans each get all of it (:42-45,74-80). *)
TotalsExact ==
  /\ status = "done" =>
       /\ \A n \in GasNames :
            spans[1].total.by_name[n] = GasWithin(n, 1, Len(trace))
       /\ spans[1].total.sum =
            SumOf(UNION {Positions(Charges(n), 1, Len(trace)) : n \in GasNames})
  /\ \A k \in 2..Len(spans) :
       LET o == OpenedAt(k)
           closed == Matched(o)
       IN closed # {} =>
            /\ \A n \in GasNames :
                 spans[k].total.by_name[n] = GasWithin(n, o, Min(closed))
            /\ spans[k].total.sum =
                 SumOf(UNION {Positions(Charges(n), o, Min(closed)) : n \in GasNames})

(* The gas a call span calls its own is what was charged while that call   *)
(* was the innermost one (analysis.rs:38-41), whatever other calls and     *)
(* named spans were open around it.                                        *)
SelfExact ==
  \A k \in DOMAIN spans :
    LET o == IF k = 1 THEN 0 ELSE OpenedAt(k)
    IN (k = 1 \/ trace[o] \in Calls) =>
         \A n \in GasNames : spans[k].self.by_name[n] = SumOf(ChargedBy(n, o))

(* The analysis panics on exactly the traces with a return or a span end   *)
(* that nothing opened, or a call that does not return (analysis.rs:55-62, *)
(* 78, 87-88); a named span left open is no error.                         *)
PanicsOnMalformed ==
  LET broken == \/ Unmatched(Calls, Returns)
                \/ \E n \in SpanNames : Unmatched(Starts(n), Ends(n))
      unreturned == Count(Calls, 1, Len(trace)) # Count(Returns, 1, Len(trace))
  IN /\ status = "reading" => ~broken
     /\ status = "done" => ~broken /\ ~unreturned
     /\ status = "panicked" => broken \/ unreturned

(* "Sort by descending value, which will leave sum first" (analysis.rs     *)
(* :168): rounding the sum and each charge for display separately (:164-   *)
(* 167) never shows a charge larger than the sum.                          *)
SumListedFirst ==
  \A k \in DOMAIN spans, n \in GasNames :
    /\ GasUnits(spans[k].self.by_name[n]) <= GasUnits(spans[k].self.sum)
    /\ GasUnits(spans[k].total.by_name[n]) <= GasUnits(spans[k].total.sum)

=============================================================================
