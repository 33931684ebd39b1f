------------------------------ MODULE Scenario ------------------------------
(***************************************************************************)
(* What a running scenario promises, of its one run from its creation to   *)
(* its end, its failure or the first request to stop.  Control follows the *)
(* text: IF and LOOP branch on the values known, WAIT UNTIL passes when its *)
(* condition has held since it was reached, and an action is requested     *)
(* once each time it is reached and branches on the answer to that request. *)
(***************************************************************************)
CONSTANTS Root, FINISH,
          TypeOf(_),     \* a node's statement
          NextOf(_, _),  \* the node after a node, for a direction
          Holds(_, _)    \* a node's condition, for the values known

VARIABLES run,   \* [phase, at, met, answer]; phase is "absent", "new", "running" or "over"
          value  \* the values known

vars == <<run, value>>

Running == run.phase = "running"

Not(phase) == [phase |-> phase, at |-> Root, met |-> FALSE, answer |-> "unasked"]

Waits(n, v) == TypeOf(n) = "WAIT" /\ Holds(n, v)

Arrived(n) == [phase |-> "running", at |-> n, met |-> Waits(n, value), answer |-> "unasked"]

Init == run = Not("absent")

Create == run.phase = "absent" /\ run' = Not("new") /\ UNCHANGED value

Begin == run.phase = "new" /\ run' = Arrived(Root) /\ UNCHANGED value

Move(dir) == run' = Arrived(NextOf(run.at, dir)) /\ UNCHANGED value

At(type) == Running /\ TypeOf(run.at) = type

Branch == (At("IF") \/ At("LOOP")) /\ Move(Holds(run.at, value))

Pass == At("WAIT") /\ run.met /\ Move(TRUE)

Ask == At("ACTION") /\ run.answer = "unasked" /\ run' = [run EXCEPT !.answer = "asked"] /\ UNCHANGED value

Answered == /\ At("ACTION") /\ run.answer = "asked"
            /\ \E answer \in {"done", "failed"} : run' = [run EXCEPT !.answer = answer]
            /\ UNCHANGED value

Act == At("ACTION") /\ run.answer \in {"done", "failed"} /\ Move(run.answer = "done")

\* A value becomes known, and what waits for it takes notice.
Receive == /\ value' # value
           /\ run' = IF Running THEN [run EXCEPT !.met = @ \/ Waits(run.at, value')] ELSE run

\* A request that cannot be sent, or a sleep that is interrupted, ends the scenario.
GiveUp == ((At("ACTION") /\ run.answer = "unasked") \/ At("LOOP")) /\ run' = Not("over") /\ UNCHANGED value

Finish == At("FINISH") /\ run' = Not("over") /\ UNCHANGED value

\* Somebody stops or deletes it.
Stop == run' = Not("over") /\ UNCHANGED value

Next == Create \/ Begin \/ Branch \/ Pass \/ Ask \/ Answered \/ Act \/ Receive \/ GiveUp \/ Finish \/ Stop

\* A WAIT whose condition holds and goes on holding is passed.
PassNow == Pass /\ Holds(run.at, value)

Fairness == /\ WF_vars(Begin) /\ WF_vars(Branch) /\ WF_vars(PassNow)
            /\ WF_vars(Ask \/ GiveUp) /\ WF_vars(Act) /\ WF_vars(Finish)

Spec == Init /\ [][Next]_vars /\ Fairness
=============================================================================
