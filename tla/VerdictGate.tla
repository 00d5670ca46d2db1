----------------------------- MODULE VerdictGate -----------------------------
(***************************************************************************)
(* What the SFilter driver promises a file operation that needs a verdict: *)
(* operations are shown to the judge one at a time and in the order in     *)
(* which they asked, an operation is shown at most once and judged at most *)
(* once, and it only goes on with a status that its own judgement fixes.   *)
(* A judge may disappear with the operation it was shown; then that        *)
(* operation keeps waiting.  The gate promises no progress.                *)
(***************************************************************************)
EXTENDS Sequences

CONSTANTS Ops

VARIABLES
  asked,      (* the operations that have asked for a verdict             *)
  queue,      (* the operations not shown yet, oldest first               *)
  shown,      (* the operation the judge looks at, a set of at most one   *)
  judged,     (* the judgement of each operation                          *)
  status,     (* the status each operation went on with                   *)
  broken      (* whether an operation's result has been spoilt            *)

gateVars == <<asked, queue, shown, judged, status, broken>>

GateInit ==
  /\ asked = {}
  /\ queue = <<>>
  /\ shown = {}
  /\ judged = [o \in Ops |-> "none"]
  /\ status = [o \in Ops |-> "none"]
  /\ ~broken

Ask(o) ==
  /\ o \notin asked
  /\ asked' = asked \union {o}
  /\ queue' = Append(queue, o)
  /\ UNCHANGED <<shown, judged, status>>

Show ==
  /\ shown = {}
  /\ queue # <<>>
  /\ shown' = {Head(queue)}
  /\ queue' = Tail(queue)
  /\ UNCHANGED <<asked, judged, status>>

Judge(o, judgement) ==
  /\ o \in shown
  /\ judged[o] = "none"
  /\ judged' = [judged EXCEPT ![o] = judgement]
  /\ shown' = {}
  /\ UNCHANGED <<asked, queue, status>>

Forget ==
  /\ shown # {}
  /\ shown' = {}
  /\ UNCHANGED <<asked, queue, judged, status>>

(* The driver reads "permit" as an order to refuse. *)
GoOn(o) ==
  /\ judged[o] # "none"
  /\ status[o] = "none"
  /\ status' = [status EXCEPT ![o] =
                  IF judged[o] = "permit" THEN "ACCESS_DENIED" ELSE "SUCCESS"]
  /\ UNCHANGED <<asked, queue, shown, judged>>

GateNext ==
  \/ \E o \in Ops : Ask(o) \/ GoOn(o) \/ \E j \in {"permit", "refuse"} : Judge(o, j)
  \/ Show
  \/ Forget

GateSpec == GateInit /\ [][broken' \/ (GateNext /\ ~broken')]_gateVars
=============================================================================
