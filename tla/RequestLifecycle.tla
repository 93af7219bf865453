-------------------------- MODULE RequestLifecycle --------------------------
(***************************************************************************)
(* What the QMI transport promises about a request the user sends (spec   *)
(* sections 4.3, 5 and 8, property 1), with no queues, transaction ids or *)
(* modem in it.  A request is queued when submitted; the writer either    *)
(* hands the modem the whole request, writes it short, or loses it on a   *)
(* write error; only a request the modem received whole is answered; a    *)
(* request not yet ended can be cancelled, one or several at once         *)
(* (cancel_all).  When the device is destroyed, every request it still   *)
(* holds is destroyed with it (section 5, property 1).  An answered,      *)
(* cancelled, lost or destroyed request stays so.  The answer to a        *)
(* request the modem received is not withheld forever.                    *)
(***************************************************************************)
CONSTANT Reqs

VARIABLE life   \* Reqs -> the stage of each request

Stages == {"unsent", "queued", "delivered", "torn", "answered", "cancelled",
           "lost", "destroyed"}

\* A request the transport still holds.
Open == {"queued", "delivered", "torn"}

Init == life = [i \in Reqs |-> "unsent"]

Submit(i) ==
    /\ life[i] = "unsent"
    /\ life' = [life EXCEPT ![i] = "queued"]

\* The writer takes the request: whole, short, or failing.
Write(i) ==
    /\ life[i] = "queued"
    /\ \E s \in {"delivered", "torn", "lost"} : life' = [life EXCEPT ![i] = s]

Answer(i) ==
    /\ life[i] = "delivered"
    /\ life' = [life EXCEPT ![i] = "answered"]

\* The requests the transport still holds.
Held == {i \in Reqs : life[i] \in Open}

Cancel(S) ==
    /\ S # {}
    /\ life' = [i \in Reqs |-> IF i \in S THEN "cancelled" ELSE life[i]]

\* The device goes away with everything it holds.
Destroy ==
    life' = [i \in Reqs |-> IF i \in Held THEN "destroyed" ELSE life[i]]

Next ==
    \/ \E i \in Reqs : Submit(i) \/ Write(i) \/ Answer(i)
    \/ \E S \in SUBSET Held : Cancel(S)
    \/ Destroy

\* With finitely many requests, fairness to answering as a whole is fairness
\* to each request: an answer stays due until given.
Spec == Init /\ [][Next]_life /\ WF_life(\E i \in Reqs : Answer(i))

TypeOK == life \in [Reqs -> Stages]

=============================================================================
