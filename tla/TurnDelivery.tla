---------------------------- MODULE TurnDelivery ----------------------------
(***************************************************************************)
(* What the Cursor hooks promise of a conversation's turns: a prompt opens *)
(* a turn whose root span is held back until the turn closes, one turn is  *)
(* open at a time, a closed one is sent, and none is sent twice.  Only a   *)
(* lossy environment (hooks that die, files that fail, prompts that        *)
(* overlap) makes a turn disappear unsent.                                 *)
(***************************************************************************)
CONSTANT Turns

VARIABLES
  lossy,   (* a turn may be lost; never changes *)
  status   (* per turn, how far it has come     *)

vars == <<lossy, status>>

StatusType == {"none", "open", "closing", "sent", "lost"}

Init ==
  /\ lossy \in BOOLEAN
  /\ status = [t \in Turns |-> "none"]

OpenTurns == {t \in Turns : status[t] = "open"}

(* The prompt's hook stores the turn; only a lossy one replaces another.   *)
Open(t) ==
  /\ status[t] = "none"
  /\ OpenTurns # {} => lossy
  /\ status' = [u \in Turns |->
                  IF u = t THEN "open" ELSE IF u \in OpenTurns THEN "lost" ELSE status[u]]

(* One hook takes the turn to send it; it is nobody else's from then on.   *)
Close(t) ==
  /\ status[t] = "open" \/ (status[t] = "none" /\ lossy)
  /\ status' = [status EXCEPT ![t] = "closing"]

Send(t) ==
  /\ status[t] = "closing"
  /\ status' = [status EXCEPT ![t] = "sent"]

(* Any turns that are not sent yet disappear together.                     *)
Lose ==
  /\ lossy
  /\ status' \in [Turns -> StatusType]
  /\ \A t \in Turns :
       \/ status'[t] = status[t]
       \/ status[t] \in {"none", "open", "closing"} /\ status'[t] = "lost"

Next ==
  /\ Lose \/ \E t \in Turns : Open(t) \/ Close(t) \/ Send(t)
  /\ UNCHANGED lossy

Spec == Init /\ [][Next]_vars
=============================================================================
