------------------------------- MODULE Channel -------------------------------
(* The king's channel: how line/station/channel.go and channel_gateway.go     *)
(* bring the messages of the Discord channel into the inbox file, obey the    *)
(* king's commands and hand the inbox to the waiting viceroy.                 *)
(*                                                                            *)
(* Messages are numbered by their snowflakes. feed is the goroutine that      *)
(* holds feedMu (the poller, a gateway backfill or a gateway event) with the  *)
(* messages it has still to deliver and the step of the delivery it is at, so *)
(* that a failed write, a crash or a waiting reader falls between any two     *)
(* steps of deliver.                                                          *)
EXTENDS Integers, Sequences, FiniteSets, SequencesExt

CONSTANTS
    Author,     \* the author of each message that will be posted
    Page,       \* messages one REST fetch returns at most
    Gateway,    \* TRUE: the constitution asks for the gateway transport
    MaxFaults   \* bound: failed writes, lost connections and restarts

VARIABLES
    posted,     \* Discord: the newest message
    socket,     \* Discord: events sent on the connection and not yet read
    feed,       \* the holder of feedMu
    cursor,     \* last in memory and in the last_id file, and the first baseline
    inbox,      \* the inbox file
    obeyed,     \* the king's commands applied, in order
    gatewayUp,  \* the gateway: "no", "ready" (its session carries events), "yes" (backfilled)
    reader,     \* the viceroy's long poll (Since)
    faults

chVars == <<posted, socket, feed, cursor, inbox, obeyed, gatewayUp, reader, faults>>

Messages == DOMAIN Author
Unset == -1
Free == [who |-> "none", todo |-> <<>>, step |-> "none"]
Fault == faults.n < MaxFaults

------------------------------------------------------------------------------
(* Fetching. *)

\* One page of the messages after the cursor, oldest first.
FetchPage == LET newest == IF cursor.last + Page < posted THEN cursor.last + Page ELSE posted
             IN [i \in 1..(newest - cursor.last) |-> cursor.last + i]

\* Poll: with no saved cursor only the newest message is recorded.
Polled(who) ==
    IF cursor.last = Unset
    THEN /\ cursor' = [last |-> posted, file |-> posted, base |-> posted]
         /\ feed' = Free
         /\ gatewayUp' = IF who = "backfill" THEN "yes" ELSE gatewayUp
    ELSE /\ feed' = IF FetchPage = <<>> THEN Free ELSE [who |-> who, todo |-> FetchPage, step |-> "append"]
         /\ gatewayUp' = IF who = "backfill" /\ FetchPage = <<>> THEN "yes" ELSE gatewayUp
         /\ UNCHANGED cursor

\* Mutant: with the gateway asked for nobody polls.
PollWithoutGateway ==
    /\ feed = Free /\ ~Gateway
    /\ Polled("poll")
    /\ UNCHANGED <<posted, socket, inbox, obeyed, reader, faults>>

\* Run: the poller idles while the gateway is up.
Poll ==
    /\ feed = Free /\ gatewayUp # "yes"
    /\ Polled("poll")
    /\ UNCHANGED <<posted, socket, inbox, obeyed, reader, faults>>

\* READY or RESUMED: from here on events are sent.
GatewayReady ==
    /\ Gateway /\ gatewayUp = "no"
    /\ gatewayUp' = "ready" /\ socket' = <<>>
    /\ UNCHANGED <<posted, feed, cursor, inbox, obeyed, reader, faults>>

\* Backfill over REST, then the gateway delivers. What is posted between the two
\* is fetched and comes as an event as well.
GatewayBackfill ==
    /\ gatewayUp = "ready" /\ feed = Free
    /\ faults' = [faults EXCEPT !.partial = @ \/ (cursor.last # Unset /\ posted > cursor.last + Page)]
    /\ Polled("backfill")
    /\ UNCHANGED <<posted, socket, inbox, obeyed, reader>>

\* MESSAGE_CREATE is delivered once the session is ready.
GatewayMessage ==
    /\ gatewayUp = "yes" /\ feed = Free /\ socket # <<>>
    /\ socket' = Tail(socket)
    /\ feed' = [who |-> "event", todo |-> <<Head(socket)>>, step |-> "append"]
    /\ UNCHANGED <<posted, cursor, inbox, obeyed, gatewayUp, reader, faults>>

\* The connection ends; what it still carried is left to the next backfill.
GatewayDown ==
    /\ gatewayUp # "no" /\ feed.who \notin {"event", "backfill"} /\ Fault
    /\ gatewayUp' = "no" /\ socket' = <<>>
    /\ faults' = [faults EXCEPT !.n = @ + 1]
    /\ UNCHANGED <<posted, feed, cursor, inbox, obeyed, reader>>

------------------------------------------------------------------------------
(* deliver, one message: append, wake the readers, command, save the cursor. *)

At(step) == feed.step = step /\ feed.todo # <<>>
Msg == Head(feed.todo)

\* What is left once the head of the batch is delivered or skipped.
Delivered ==
    /\ feed' = IF Len(feed.todo) = 1 THEN Free ELSE [feed EXCEPT !.todo = Tail(@), !.step = "append"]
    /\ gatewayUp' = IF feed.who = "backfill" /\ Len(feed.todo) = 1 THEN "yes" ELSE gatewayUp

\* A failed write ends the fetch, and the connection it backfills; an event is
\* logged and dropped.
Broken ==
    /\ Fault
    /\ feed' = Free
    /\ faults' = [faults EXCEPT !.n = @ + 1, !.dropped = @ \/ feed.who = "event"]
    /\ gatewayUp' = IF feed.who = "backfill" THEN "no" ELSE gatewayUp

\* Mutant: a message is delivered whatever the cursor says.
AppendUnchecked ==
    /\ At("append")
    /\ \/ Author[Msg] = "bot" /\ feed' = [feed EXCEPT !.step = "save"] /\ UNCHANGED <<inbox, gatewayUp, faults>>
       \/ /\ Author[Msg] # "bot" /\ inbox' = Append(inbox, Msg)
          /\ feed' = [feed EXCEPT !.step = "wake"] /\ UNCHANGED <<gatewayUp, faults>>
    /\ UNCHANGED <<posted, socket, cursor, obeyed, reader>>

DeliverAppend ==
    /\ At("append")
    /\ \/ Msg <= cursor.last /\ Delivered /\ UNCHANGED <<inbox, faults>>
       \/ /\ Msg > cursor.last /\ Author[Msg] = "bot"
          /\ feed' = [feed EXCEPT !.step = "save"] /\ UNCHANGED <<inbox, gatewayUp, faults>>
       \/ /\ Msg > cursor.last /\ Author[Msg] # "bot"
          /\ inbox' = Append(inbox, Msg)
          /\ feed' = [feed EXCEPT !.step = "wake"] /\ UNCHANGED <<gatewayUp, faults>>
       \/ Msg > cursor.last /\ Author[Msg] # "bot" /\ Broken /\ UNCHANGED inbox
    /\ UNCHANGED <<posted, socket, cursor, obeyed, reader>>

\* Mutant: the cursor is saved before the command is obeyed.
WakeAndSave ==
    /\ At("wake")
    /\ reader' = [reader EXCEPT !.woken = TRUE]
    /\ feed' = [feed EXCEPT !.step = IF Author[Msg] = "king" THEN "command" ELSE "save"]
    /\ cursor' = [cursor EXCEPT !.last = Msg, !.file = Msg]
    /\ UNCHANGED <<posted, socket, inbox, obeyed, gatewayUp, faults>>

\* Mutant: only what the poller fetches wakes the readers.
WakeOnPoll ==
    /\ At("wake")
    /\ reader' = [reader EXCEPT !.woken = @ \/ feed.who # "event"]
    /\ feed' = [feed EXCEPT !.step = IF Author[Msg] = "king" THEN "command" ELSE "save"]
    /\ UNCHANGED <<posted, socket, cursor, inbox, obeyed, gatewayUp, faults>>

DeliverWake ==
    /\ At("wake")
    /\ reader' = [reader EXCEPT !.woken = TRUE]
    /\ feed' = [feed EXCEPT !.step = IF Author[Msg] = "king" THEN "command" ELSE "save"]
    /\ UNCHANGED <<posted, socket, cursor, inbox, obeyed, gatewayUp, faults>>

DeliverCommand ==
    /\ At("command")
    /\ obeyed' = Append(obeyed, Msg)
    /\ feed' = [feed EXCEPT !.step = "save"]
    /\ UNCHANGED <<posted, socket, cursor, inbox, gatewayUp, reader, faults>>

DeliverSave ==
    /\ At("save")
    /\ \/ cursor' = [cursor EXCEPT !.last = Msg, !.file = Msg] /\ Delivered /\ UNCHANGED faults
       \/ Broken /\ UNCHANGED cursor
    /\ UNCHANGED <<posted, socket, inbox, obeyed, reader>>

------------------------------------------------------------------------------
(* Since: the wake channel is taken before the inbox is read. *)

After(i) == SelectSeq(inbox, LAMBDA m : m > i)

SinceTake ==
    /\ reader.at = "idle"
    /\ reader' = [reader EXCEPT !.at = "taken", !.woken = FALSE]
    /\ UNCHANGED <<posted, socket, feed, cursor, inbox, obeyed, gatewayUp, faults>>

SinceRead ==
    /\ reader.at = "taken"
    /\ reader' = IF After(reader.after) = <<>> THEN [reader EXCEPT !.at = "waiting"]
                 ELSE [reader EXCEPT !.at = "idle", !.after = Last(After(@)), !.woken = FALSE]
    /\ UNCHANGED <<posted, socket, feed, cursor, inbox, obeyed, gatewayUp, faults>>

SinceWoken ==
    /\ reader.at = "waiting" /\ reader.woken
    /\ reader' = [reader EXCEPT !.at = "taken", !.woken = FALSE]
    /\ UNCHANGED <<posted, socket, feed, cursor, inbox, obeyed, gatewayUp, faults>>

------------------------------------------------------------------------------

PostMessage ==
    /\ posted + 1 \in Messages
    /\ posted' = posted + 1
    /\ socket' = IF gatewayUp # "no" THEN Append(socket, posted + 1) ELSE socket
    /\ UNCHANGED <<feed, cursor, inbox, obeyed, gatewayUp, reader, faults>>

\* serve restarts: the cursor comes from its file, the viceroy polls anew.
Restart ==
    /\ Fault
    /\ faults' = [faults EXCEPT !.n = @ + 1]
    /\ feed' = Free /\ gatewayUp' = "no" /\ socket' = <<>>
    /\ cursor' = [cursor EXCEPT !.last = cursor.file]
    /\ reader' = [reader EXCEPT !.at = "idle", !.woken = FALSE]
    /\ UNCHANGED <<posted, inbox, obeyed>>

Init ==
    /\ posted = 0 /\ socket = <<>> /\ feed = Free
    /\ cursor = [last |-> Unset, file |-> Unset, base |-> Unset]
    /\ inbox = <<>> /\ obeyed = <<>>
    /\ gatewayUp = "no"
    /\ reader = [at |-> "idle", after |-> 0, woken |-> FALSE]
    /\ faults = [n |-> 0, dropped |-> FALSE, partial |-> FALSE]

Feeding == Poll \/ GatewayMessage \/ DeliverAppend \/ DeliverWake \/ DeliverCommand \/ DeliverSave
Reading == SinceTake \/ SinceRead \/ SinceWoken
Next == Feeding \/ Reading \/ GatewayReady \/ GatewayBackfill \/ GatewayDown \/ PostMessage \/ Restart

------------------------------------------------------------------------------

Behind == {m \in Messages : cursor.base # Unset /\ cursor.base < m /\ m <= cursor.last /\ Author[m] # "bot"}
Lossless == ~faults.dropped /\ ~faults.partial

\* The cursor never passes a message that is not in the inbox or a king's command
\* that was not applied, whatever fails in between, unless a gateway event was
\* dropped or a backfill left more than one page.
NothingSkipped ==
    Lossless => \A m \in Behind : /\ m \in ToSet(inbox)
                                  /\ Author[m] = "king" => m \in ToSet(obeyed)

\* The inbox is in the order of the messages, so a reader that remembers the
\* last one it saw never passes one by; a message delivered again repeats in place.
InboxOrdered == \A i \in 1..(Len(inbox) - 1) : inbox[i] <= inbox[i + 1]

\* A reader that waits while there is news has been woken or is about to be.
NoLostWakeup ==
    reader.at = "waiting" /\ After(reader.after) # <<>> => reader.woken \/ feed.step = "wake"

\* Every message after the baseline reaches the reader.
EveryMessageRead ==
    \A m \in Messages : (cursor.base # Unset /\ cursor.base < m /\ m <= posted /\ Author[m] # "bot")
                            ~> (reader.after >= m /\ m \in ToSet(inbox)) \/ ~Lossless
==============================================================================
