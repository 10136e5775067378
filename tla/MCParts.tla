------------------------------ MODULE MCParts ------------------------------
(***************************************************************************)
(* The parts of the library that do not share state, for model checking in *)
(* one run: a behaviour is one of the part it starts with, and the others  *)
(* stay as they are initially.                                             *)
(***************************************************************************)
EXTENDS EdSocketChannel, EdTimerPool, EdLocalEvent, EdBuffredFileReader,
        EdByteBuffer, EdRingQue, EdObjList, EdTaskMsgQue, TLC

VARIABLE part

allVars ==
    <<part, vars, poolVars, evtVars, readerVars, bbVars, ringVars, listVars, viewVars>>

Parts == {"channel", "pool", "event", "reader", "bytebuffer", "ring", "list", "view"}

\* Each queue belongs to a task of its own, and the first may wait for the second.
MCQueTask == [q \in Ques |-> IF q = "que1" THEN "view1" ELSE "view2"]
MCCanSend == {<<"view1", "view2">>}

PartsInit ==
    /\ part \in Parts
    /\ Init /\ PoolInit /\ EvtInit /\ ReaderInit /\ BBInit /\ RingInit /\ ListInit /\ ViewInit

PartsNext ==
    /\ UNCHANGED part
    /\ IF part = "channel" THEN Next ELSE UNCHANGED vars
    /\ IF part = "pool" THEN PoolNext ELSE UNCHANGED poolVars
    /\ IF part = "event" THEN EvtNext ELSE UNCHANGED evtVars
    /\ IF part = "reader" THEN ReaderNext ELSE UNCHANGED readerVars
    /\ IF part = "bytebuffer" THEN BBNext ELSE UNCHANGED bbVars
    /\ IF part = "ring" THEN RingNext ELSE UNCHANGED ringVars
    /\ IF part = "list" THEN ListNext ELSE UNCHANGED listVars
    /\ IF part = "view" THEN ViewNext ELSE UNCHANGED viewVars

PartsSpec ==
    /\ PartsInit /\ [][PartsNext]_allVars
    /\ Fairness /\ ViewFairness
=============================================================================
