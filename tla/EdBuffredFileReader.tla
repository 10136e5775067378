------------------------- MODULE EdBuffredFileReader -------------------------
(***************************************************************************)
(* Reading a file in blocks ahead of the program (src/ednio/               *)
(* EdBuffredFileReader.cpp).  getData hands out the first block loaded,    *)
(* loading one itself if there is none, and schedules a load by raising    *)
(* mJobEvent; its listener loads one block per turn of the event loop      *)
(* until mQSize blocks are loaded.  A failed read is taken for the end of  *)
(* the file.  mEof is never reset: after the first end of file, nothing is *)
(* loaded ahead any more, also of the next file.                           *)
(***************************************************************************)
EXTENDS Naturals, Sequences

CONSTANTS
    Blocks,       \* blocks in the file
    QSize,        \* mQSize
    MaxOpens      \* bound on the files opened one after the other

ASSUME BlocksAssumption == Blocks \in Nat
ASSUME QSizeAssumption == QSize \in Nat
ASSUME MaxOpensAssumption == MaxOpens \in Nat

VARIABLES
    opens, fileOpen,
    filePos,        \* blocks read of the file
    mBufList,       \* blocks loaded, named by their number in the file
    mEof,
    jobRaised,      \* mJobEvent was raised (how often does not matter)
    got,            \* blocks given to the program
    lastGot,        \* what getData returned last: a block, or 0 for none
    readFailed

readerVars ==
    <<opens, fileOpen, filePos, mBufList, mEof, jobRaised, got, lastGot, readFailed>>

ReaderInit ==
    /\ opens = 0 /\ fileOpen = FALSE /\ filePos = 0 /\ mBufList = <<>>
    /\ mEof = FALSE /\ jobRaised = FALSE /\ got = 0 /\ lastGot = 0 /\ readFailed = FALSE

\* open; without the file it returns -1 and changes nothing.
ReaderOpen ==
    /\ ~fileOpen /\ opens < MaxOpens
    /\ opens' = opens + 1 /\ fileOpen' = TRUE
    /\ filePos' = 0 /\ jobRaised' = FALSE
    /\ got' = 0 /\ lastGot' = 0 /\ readFailed' = FALSE
    /\ UNCHANGED <<mBufList, mEof>>

\* close: the event, the file, and the blocks that are loaded.
ReaderClose ==
    /\ fileOpen
    /\ fileOpen' = FALSE /\ mBufList' = <<>> /\ jobRaised' = FALSE
    /\ got' = 0 /\ filePos' = 0
    /\ UNCHANGED <<opens, mEof, lastGot, readFailed>>

\* loadData, as the list and the end-of-file flag it leaves: a block more, or
\* the flag set.
Loaded(ok) == IF ok THEN Append(mBufList, filePos + 1) ELSE mBufList

\* The read returns a block; at the end of the file it returns none, and it may
\* fail before.
ReadGives(ok) ==
    /\ ok => filePos < Blocks
    /\ filePos' = IF ok THEN filePos + 1 ELSE filePos
    /\ readFailed' = (readFailed \/ (~ok /\ filePos < Blocks))
    /\ mEof' = (mEof \/ ~ok)

\* Mutation of MoreWanted: no load is scheduled unless the list is empty.
MoreWanted_Empty(n) == n = 0

\* Whether the listener schedules itself again with n blocks loaded.
MoreWanted(n) == n < QSize

\* The listener of mJobEvent.
OnJob(ok) ==
    /\ fileOpen /\ jobRaised
    /\ ReadGives(ok)
    /\ mBufList' = Loaded(ok)
    /\ jobRaised' = (ok /\ MoreWanted(Len(mBufList')))
    /\ UNCHANGED <<opens, fileOpen, got, lastGot>>

\* getData with n blocks left in the list: whether a load is scheduled.
Reschedule(n, eof) == jobRaised' = (jobRaised \/ (n <= QSize /\ ~eof))

\* getData when a block is loaded.
GetLoaded ==
    /\ fileOpen /\ mBufList # <<>>
    /\ lastGot' = Head(mBufList) /\ got' = got + 1 /\ mBufList' = Tail(mBufList)
    /\ Reschedule(Len(mBufList'), mEof)
    /\ UNCHANGED <<opens, fileOpen, filePos, mEof, readFailed>>

\* getData when none is: it loads one, or returns none.
GetNow(ok) ==
    /\ fileOpen /\ mBufList = <<>>
    /\ ReadGives(ok)
    /\ lastGot' = (IF ok THEN Head(Loaded(ok)) ELSE 0)
    /\ got' = (IF ok THEN got + 1 ELSE got)
    /\ Reschedule(0, mEof')
    /\ UNCHANGED <<opens, fileOpen, mBufList>>

\* The bound of the model.
ReaderDone == ~fileOpen /\ opens = MaxOpens /\ UNCHANGED readerVars

ReaderNext ==
    \/ ReaderOpen \/ ReaderClose \/ GetLoaded \/ ReaderDone
    \/ \E ok \in BOOLEAN : OnJob(ok) \/ GetNow(ok)

ReaderSpec == ReaderInit /\ [][ReaderNext]_readerVars

-----------------------------------------------------------------------------
(***************************************************************************)
(* Properties.                                                             *)
(***************************************************************************)

\* The program gets the blocks of the file in order, however loads of the event
\* loop and of getData alternate, and is told "no more" only at the end of the
\* file or after a failed read; until then the reader has loaded its share or
\* has a load scheduled, and never keeps more than its share.
ReadsAhead ==
    fileOpen =>
        /\ lastGot \in {0, got}
        /\ lastGot = 0 /\ got > 0 => filePos = Blocks \/ readFailed
        /\ filePos = got + Len(mBufList)
        /\ \A i \in DOMAIN mBufList : mBufList[i] = got + i
        /\ got > 0 /\ ~mEof => jobRaised \/ Len(mBufList) >= QSize
        /\ Len(mBufList) <= IF QSize = 0 THEN 1 ELSE QSize
=============================================================================
