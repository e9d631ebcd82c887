------------------------------ MODULE Outreach ------------------------------
(***************************************************************************)
(* What the funnel promises a person, whatever campaigns, ticks, operators *)
(* and crashes are behind it: at most one invite at a time and none after  *)
(* it was withdrawn, messages only over an accepted invite, and, once the  *)
(* person has written, at most the one message already on its way.         *)
(***************************************************************************)
CONSTANTS Persons, Contents  \* people, and the messages a sequence can deliver

VARIABLES
    link,   \* the invite between us and a person
    wrote,  \* people who have written to us
    got,    \* the messages that have reached each person
    after   \* people reached by a message after they wrote

view == <<link, wrote, got, after>>

Begin ==
    /\ link = [p \in Persons |-> "none"]
    /\ wrote = {} /\ after = {}
    /\ got = [p \in Persons |-> {}]

Move(p, from, to) ==
    /\ link[p] = from /\ link' = [link EXCEPT ![p] = to]
    /\ UNCHANGED <<wrote, got, after>>

Invite(p) == Move(p, "none", "pending")
Accept(p) == Move(p, "pending", "connected")
Withdraw(p) == Move(p, "pending", "withdrawn")

Write(p) ==
    /\ link[p] = "connected" /\ wrote' = wrote \cup {p}
    /\ UNCHANGED <<link, got, after>>

Deliver(p, content) ==
    /\ link[p] = "connected" /\ p \notin after
    /\ got' = [got EXCEPT ![p] = @ \cup {content}]
    /\ after' = IF p \in wrote THEN after \cup {p} ELSE after
    /\ UNCHANGED <<link, wrote>>

Contact ==
    \E p \in Persons : \/ Invite(p) \/ Accept(p) \/ Withdraw(p) \/ Write(p)
                       \/ \E content \in Contents : Deliver(p, content)

Promise == Begin /\ [][Contact]_view
=============================================================================
