------------------------------ MODULE EdObjList ------------------------------
(***************************************************************************)
(* The intrusive list (src/ednio/EdObjList.h) that holds the task's        *)
(* messages, timers and objects to free, and the blocks of the file        *)
(* reader.  A node records the list it is in, and the seed of that list,   *)
(* by which remove and insert recognise nodes of other lists.              *)
(*                                                                         *)
(* insert is called only before another node: it does not move mptail.     *)
(* After clear the seed of the list is 0, the one of a node in no list;    *)
(* from then on the program names only nodes of that list.  pop_back does  *)
(* not compile and has no user.                                            *)
(***************************************************************************)
EXTENDS Naturals, Sequences, FiniteSets, SequencesExt

CONSTANTS Lists, Nodes, Nil

ASSUME ListsAssumption == IsFiniteSet(Lists) /\ Nil \notin Lists
ASSUME NodesAssumption == IsFiniteSet(Nodes) /\ Nil \notin Nodes

VARIABLES
    mphead, mptail, mSize, mSeed,    \* per list; a seed is a list, or Nil for 0
    hdr,                             \* per node: [prev, next, seed, list]
    listRef                          \* per list: the sequence it stands for

listVars == <<mphead, mptail, mSize, mSeed, hdr, listRef>>

\* allocObj: a header of zeros.
NewHdr == [prev |-> Nil, next |-> Nil, seed |-> Nil, list |-> Nil]

ListInit ==
    /\ mphead = [l \in Lists |-> Nil] /\ mptail = [l \in Lists |-> Nil]
    /\ mSize = [l \in Lists |-> 0] /\ mSeed = [l \in Lists |-> l]
    /\ hdr = [n \in Nodes |-> NewHdr]
    /\ listRef = [l \in Lists |-> <<>>]

Unlisted(n) == hdr[n].seed = Nil /\ hdr[n].list = Nil

\* push_back ignores a node that is in a list.
PushBack(l, n) ==
    /\ Unlisted(n)
    /\ LET h == [prev |-> mptail[l], next |-> Nil, seed |-> mSeed[l], list |-> l] IN
           IF mptail[l] = Nil
           THEN /\ mphead' = [mphead EXCEPT ![l] = n]
                /\ hdr' = [hdr EXCEPT ![n] = h]
           ELSE /\ hdr' = [hdr EXCEPT ![n] = h, ![mptail[l]].next = n]
                /\ UNCHANGED mphead
    /\ mptail' = [mptail EXCEPT ![l] = n]
    /\ mSize' = [mSize EXCEPT ![l] = @ + 1]
    /\ listRef' = [listRef EXCEPT ![l] = Append(@, n)]
    /\ UNCHANGED mSeed

\* insert after p, a node of the list; it ignores nodes of other lists and an n
\* that is in a list.
InsertAfter(l, p, n) ==
    /\ hdr[p].seed = mSeed[l] /\ (mSeed[l] = Nil => hdr[p].list = l)
    /\ hdr[p].next # Nil /\ Unlisted(n)
    /\ hdr' = [hdr EXCEPT ![n] = [prev |-> p, next |-> hdr[p].next, seed |-> mSeed[l], list |-> l],
                          ![p].next = n,
                          ![hdr[p].next].prev = n]
    /\ mSize' = [mSize EXCEPT ![l] = @ + 1]
    /\ listRef' = [listRef EXCEPT ![l] = InsertAt(@, 1 + CHOOSE i \in DOMAIN @ : @[i] = p, n)]
    /\ UNCHANGED <<mphead, mptail, mSeed>>

\* Mutation of Unlinked: the node after the removed one keeps its prev.
Unlinked_KeepsPrev(n) ==
    [m \in Nodes |->
        IF m = n THEN [hdr[n] EXCEPT !.seed = Nil, !.list = Nil]
        ELSE IF m = hdr[n].prev THEN [hdr[m] EXCEPT !.next = hdr[n].next]
        ELSE hdr[m]]

\* The headers after n has been taken out of the chain.
Unlinked(n) ==
    [m \in Nodes |->
        IF m = n THEN [hdr[n] EXCEPT !.seed = Nil, !.list = Nil]
        ELSE IF m = hdr[n].prev THEN [hdr[m] EXCEPT !.next = hdr[n].next]
        ELSE IF m = hdr[n].next THEN [hdr[m] EXCEPT !.prev = hdr[n].prev]
        ELSE hdr[m]]

\* Mutation of HasSeed: remove takes any node.
HasSeed_Any(l, n) == TRUE

HasSeed(l, n) == hdr[n].seed = mSeed[l]

\* remove, and pop_front, which removes the head; nodes with another seed are
\* ignored.
ListRemove(l, n) ==
    /\ HasSeed(l, n) /\ (mSeed[l] = Nil => hdr[n].list = l)
    /\ mphead' = IF hdr[n].prev = Nil THEN [mphead EXCEPT ![l] = hdr[n].next] ELSE mphead
    /\ mptail' = IF hdr[n].next = Nil THEN [mptail EXCEPT ![l] = hdr[n].prev] ELSE mptail
    /\ hdr' = Unlinked(n)
    /\ mSize' = [mSize EXCEPT ![l] = @ - 1]
    /\ listRef' = [listRef EXCEPT ![l] = RemoveFirst(@, n)]
    /\ UNCHANGED mSeed

\* clear, after which the program frees the nodes, and allocates them anew.
ListClear(l) ==
    /\ mphead' = [mphead EXCEPT ![l] = Nil] /\ mptail' = [mptail EXCEPT ![l] = Nil]
    /\ mSize' = [mSize EXCEPT ![l] = 0] /\ mSeed' = [mSeed EXCEPT ![l] = Nil]
    /\ hdr' = [n \in Nodes |-> IF hdr[n].list = l THEN NewHdr ELSE hdr[n]]
    /\ listRef' = [listRef EXCEPT ![l] = <<>>]

ListNext ==
    \E l \in Lists :
        \/ ListClear(l)
        \/ \E n \in Nodes : PushBack(l, n) \/ ListRemove(l, n) \/ \E p \in Nodes : InsertAfter(l, p, n)

ListSpec == ListInit /\ [][ListNext]_listVars

-----------------------------------------------------------------------------
(***************************************************************************)
(* Properties.                                                             *)
(***************************************************************************)

\* Each list is, by its head, tail, size and the links of its nodes in both
\* directions, the sequence it stands for, and a node is in one list at most,
\* also when remove is called with a node of another list or of none.
ListIsSequence ==
    \A l \in Lists :
        LET s == listRef[l]
            At(i) == IF i \in DOMAIN s THEN s[i] ELSE Nil
        IN  /\ mSize[l] = Len(s) /\ mphead[l] = At(1) /\ mptail[l] = At(Len(s))
            /\ \A i \in DOMAIN s :
                   hdr[s[i]] = [prev |-> At(i - 1), next |-> At(i + 1), seed |-> mSeed[l], list |-> l]
            /\ \A k \in Lists \ {l} : ToSet(s) \cap ToSet(listRef[k]) = {}
=============================================================================
