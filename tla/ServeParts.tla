------------------------------ MODULE ServeParts ------------------------------
(* The card desk of `line serve`, and the wake loops of the viceroy's generations *)
(* with the testament they share, as the runs and the proofs take them; and what  *)
(* each promises.                                                                 *)

CONSTANTS
    Handlers, Delegations, MaxWords, CommentCap,   \* CardsDesk
    DeskFaults,                                    \* bound: calls that fail or whose answer is lost
    Gens, MaxMessages, MaxWorld,                   \* ViceroyLoop
    ViceroyFaults                                  \* bound: calls that fail and crashes

VARIABLES
    deskCards, ledger, todo, capCount, deskPast,   \* CardsDesk
    inboxLen, world, testament, loop, viPast       \* ViceroyLoop

CD == INSTANCE CardsDesk WITH cards <- deskCards, MaxFaults <- DeskFaults
VL == INSTANCE ViceroyLoop WITH MaxFaults <- ViceroyFaults

\* The desk keeps the king's word: a card is on the line only on his word for it
\* or for its epic, only a close whose answer was lost or a revocation that failed
\* leaves a closed epic's approval in the ledger, a question leaves its card only once
\* an answer is on it, and the verdict on an acceptance request is shown only with its
\* reason.
DeskKeepsWord == CD!DeskKeepsWord

\* Notes in the testament are lost only while two generations write it.
NotesKept == VL!NotesKept
================================================================================
