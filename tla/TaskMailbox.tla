----------------------------- MODULE TaskMailbox -----------------------------
(***************************************************************************)
(* What an EdTask promises the threads that talk to it, with no word about *)
(* how: a mailbox that is open or closed, messages taken one at a time in  *)
(* the order they were accepted, and callers (threads in sendMsg) that are *)
(* let go when their own message has been processed, or dropped because    *)
(* the mailbox closed.                                                     *)
(***************************************************************************)
EXTENDS Sequences

CONSTANTS Threads, NoThread, MsgIds

VARIABLES
    open,      \* whether the mailbox accepts messages
    inbox,     \* accepted, not yet taken
    serving,   \* the message being processed, at most one
    caller     \* how far the call of each thread is

vars == <<open, inbox, serving, caller>>

Message == [msgid : MsgIds, from : Threads \cup {NoThread}]
Init ==
    /\ open = FALSE /\ inbox = <<>> /\ serving = <<>>
    /\ caller = [t \in Threads |-> "out"]

\* A closed mailbox is empty before it opens again.
Open ==
    /\ ~open /\ inbox = <<>>
    /\ open' = TRUE
    /\ UNCHANGED <<inbox, serving, caller>>

Accept(m) ==
    /\ open
    /\ inbox' = Append(inbox, m)
    /\ UNCHANGED <<open, serving>>

Post(id) ==
    /\ Accept([msgid |-> id, from |-> NoThread])
    /\ UNCHANGED caller

Call(t, id) ==
    /\ caller[t] = "out"
    /\ Accept([msgid |-> id, from |-> t])
    /\ caller' = [caller EXCEPT ![t] = "in"]

Take ==
    /\ open /\ inbox # <<>> /\ serving = <<>>
    /\ serving' = <<Head(inbox)>> /\ inbox' = Tail(inbox)
    /\ UNCHANGED <<open, caller>>

\* The caller of message m, if it has one, gets to know what became of it.
Release(m, outcome) ==
    caller' = IF m.from = NoThread THEN caller
              ELSE [caller EXCEPT ![m.from] = outcome]

Finish ==
    /\ serving # <<>>
    /\ Release(serving[1], "served")
    /\ serving' = <<>>
    /\ UNCHANGED <<open, inbox>>

Close ==
    /\ open /\ serving = <<>>
    /\ open' = FALSE
    /\ UNCHANGED <<inbox, serving, caller>>

Drop ==
    /\ ~open /\ inbox # <<>>
    /\ Release(Head(inbox), "dropped")
    /\ inbox' = Tail(inbox)
    /\ UNCHANGED <<open, serving>>

Return(t) ==
    /\ caller[t] \in {"served", "dropped"}
    /\ caller' = [caller EXCEPT ![t] = "out"]
    /\ UNCHANGED <<open, inbox, serving>>

Next ==
    \/ Open \/ Take \/ Finish \/ Close \/ Drop
    \/ \E id \in MsgIds : Post(id) \/ \E t \in Threads : Call(t, id)
    \/ \E t \in Threads : Return(t)

Spec == Init /\ [][Next]_vars
=============================================================================
