------------------------------ MODULE Channel ------------------------------
(* What the link from a client to the firmware's command queue promises,     *)
(* whatever the two boards and the connection go through: the commands of    *)
(* the clients, numbered in the order in which they are sent, arrive in that *)
(* order and none of them twice; what a disturbance does is confined to the  *)
(* commands it strikes, and to two frames at most that nobody sent and that  *)
(* the receiver takes for commands.                                          *)
EXTENDS Integers, Sequences, FiniteSets

VARIABLES fate,   \* what became of each command sent so far
          credit  \* frames nobody sent that disturbances may still make up

Fates == {"sent", "struck", "queued", "refused", "twice"}

\* The commands with a fate of this set.
With(F) == {s \in DOMAIN fate : fate[s] \in F}

Arrived == {"queued", "refused"}

CInit == fate = <<>> /\ credit = 0

\* A client sends a command, or a part of one before it leaves, or one that
\* does not fit the receiver.
Send == \/ \E f \in {"sent", "struck"} : fate' = Append(fate, f) /\ UNCHANGED credit
        \/ fate' = Append(fate, "struck") /\ credit' = credit + 1

\* The receiver decodes a command: the queue takes it or is full. Nothing
\* sent earlier may still be on its way, nothing sent later may have arrived.
Arrive == \E s \in With({"sent", "struck"}) :
            /\ \A t \in With({"sent"}) : t >= s
            /\ \A t \in With(Arrived) : t < s
            /\ \E f \in Arrived : fate' = [fate EXCEPT ![s] = f]
            /\ UNCHANGED credit

\* A disturbance strikes commands on their way.
Disturb == /\ \E S \in SUBSET With({"sent"}) :
                fate' = [s \in DOMAIN fate |-> IF s \in S THEN "struck" ELSE fate[s]]
           /\ credit' \in credit .. credit + 2

\* The remains of a struck command are taken for another command.
Misread == /\ credit > 0
           /\ credit' = credit - 1
           /\ UNCHANGED fate

CNext == Send \/ Arrive \/ Disturb \/ Misread

CSpec == CInit /\ [][CNext]_<<fate, credit>>
=============================================================================
