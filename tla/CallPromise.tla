------------------------------ MODULE CallPromise ------------------------------
(***************************************************************************)
(* What enqueueCommandInLane promises a caller, whatever lanes, limits,    *)
(* clears and resets there are: a call waits, runs once and is answered    *)
(* once, or it is turned away and never runs.  One step of the queue may   *)
(* move several calls: a completion starts others, a clear turns away a    *)
(* whole lane.                                                             *)
(***************************************************************************)
CONSTANT Calls

VARIABLE life

Lives == {"idle", "waiting", "running", "answered", "rejected"}

\* A call may be started in the step that enqueues it.
Moves == {<<"idle", "waiting">>, <<"idle", "running">>, <<"idle", "rejected">>,
          <<"waiting", "running">>, <<"waiting", "rejected">>,
          <<"running", "answered">>}

Init == life = [c \in Calls |-> "idle"]

Next ==
  /\ life' \in [Calls -> Lives]
  /\ \A c \in Calls : life'[c] # life[c] => <<life[c], life'[c]>> \in Moves

Spec == Init /\ [][Next]_life
=============================================================================
