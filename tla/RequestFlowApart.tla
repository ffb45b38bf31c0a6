--------------------------- MODULE RequestFlowApart ---------------------------
(***************************************************************************)
(* RequestFlow with a history variable that tells whether calls have       *)
(* overlapped where they could disturb each other. The functions read and  *)
(* write in separate statements and hold nothing in between; what they     *)
(* promise together holds until then.                                      *)
(***************************************************************************)
EXTENDS RequestFlow

VARIABLE disturbed  \* history: calls have overlapped where they could disturb each other

Watched == disturbed' = (disturbed \/ ~Apart' \/ ~StandsStill)

SpecWatched ==
  /\ Init /\ disturbed = FALSE
  /\ [][Next /\ Watched]_<<vars, disturbed>>

\* A decision is final as long as no two calls have been on one request.
DecidedOnce == [][~disturbed' => KeepsDecisions]_vars

\* A request comes into being only within reach, as long as the cards and the
\* trust graph have stood still during every create.
CreatedWithinReach == [][~disturbed' => CreatesWithinReach]_vars

-------------------------------------------------------------------------------
(* The inductive invariant behind both, next to FlowInv.                   *)

\* What a create has found still stands.
CreateStands(s) ==
  /\ call[s].pc \in {"create_blocks", "create_direct", "create_mutual"} => shared[call[s].card] = call[s].level
  /\ call[s].pc \in {"create_direct", "create_mutual"} => Unblocked(call[s].by, call[s].card)
  /\ Inserting(s) => WithinReach(call[s].req)

\* The request a decision is about is still to be decided, unless it is gone.
DecisionStands(s) ==
  Writes(s) /\ call[s].event \in Decisions =>
    requests[call[s].req].status \in {"pending", "deleted"}

WatchInv == ~disturbed => Apart /\ \A s \in Sessions : CreateStands(s) /\ DecisionStands(s)
===============================================================================
