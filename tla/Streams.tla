------------------------------ MODULE Streams ------------------------------
(***************************************************************************)
(* agentsh: one output stream, written in chunks by a command, tailed by a *)
(* follower while it grows, committed with a sparse line index, and read   *)
(* back by range, by pattern and as a preview.                             *)
(*   agentsh/internal/storage/blob.go, index.go    the writer, the index   *)
(*   agentsh/internal/output/output.go, grep.go    the readers             *)
(*   agentsh/internal/daemon/server.go             followServiceLogs       *)
(* A byte is "n" (newline), "m" (one the pattern matches) or "a".          *)
(***************************************************************************)
EXTENDS Naturals, Sequences, SequencesExt

CONSTANTS Chunks,           \* what one Write may carry
          MaxBytes,         \* length of the stream
          StrideLines,      \* BlobStore.CheckpointLines
          StrideBytes,      \* BlobStore.CheckpointBytes
          HeadLines, TailLines, \* PreviewHeadLines, PreviewTailLines
          MaxMatches        \* GrepMaxMatches

VARIABLES data,             \* the bytes written
          w,                \* BlobWriter
          idx,              \* the stored index: "open", "none" or its entries
          follow            \* followServiceLogs: the cursor and what it returned


\* The reference: the lines of a stream, a last one without newline included.
LinesOf(d) ==
  LET Add(acc, b) == IF b = "n" THEN [done |-> Append(acc.done, acc.cur), cur |-> <<>>]
                     ELSE [acc EXCEPT !.cur = Append(@, b)]
      split == FoldLeft(Add, [done |-> <<>>, cur |-> <<>>], d)
  IN IF split.cur = <<>> THEN split.done ELSE Append(split.done, split.cur)

Entry(line, offset) == [line |-> line, offset |-> offset]

NewWriter == [bytes |-> 0, lines |-> 0, lineStart |-> 0, entries |-> <<>>,
              lastLine |-> 0, lastByte |-> 0]

Init ==
  /\ data = <<>> /\ w = NewWriter
  /\ idx = [kind |-> "open", entries |-> <<>>, lines |-> 0]
  /\ follow = [cursor |-> 0, shown |-> <<>>]

\* maybeCheckpoint, after the newline that ends line v.lines.
MaybeCheckpoint(v) ==
  LET first == IF v.entries = <<>>
               THEN [v EXCEPT !.entries = <<Entry(1, 0)>>, !.lastLine = 1, !.lastByte = 0]
               ELSE v
      current == v.lines + 1
  IN IF \/ current - first.lastLine >= StrideLines
        \/ v.lineStart - first.lastByte >= StrideBytes
     THEN [first EXCEPT !.entries = Append(@, Entry(current, v.lineStart)),
                        !.lastLine = current, !.lastByte = v.lineStart]
     ELSE first

\* Mutant: the start of a line is counted from the start of its chunk.
WriteRelative(v, chunk) ==
  LET Byte(u, k) == IF chunk[k] # "n" THEN u
                    ELSE MaybeCheckpoint([u EXCEPT !.lines = @ + 1, !.lineStart = k])
      scanned == FoldLeft(Byte, v, [k \in 1..Len(chunk) |-> k])
  IN [scanned EXCEPT !.bytes = v.bytes + Len(chunk)]

\* BlobWriter.Write: the newlines of the chunk, one after the other; the byte
\* count moves once, at the end.
WriteChunk(v, chunk) ==
  LET Byte(u, k) == IF chunk[k] # "n" THEN u
                    ELSE MaybeCheckpoint([u EXCEPT !.lines = @ + 1,
                                                   !.lineStart = v.bytes + k])
      scanned == FoldLeft(Byte, v, [k \in 1..Len(chunk) |-> k])
  IN [scanned EXCEPT !.bytes = v.bytes + Len(chunk)]

Write(chunk) ==
  /\ idx.kind = "open" /\ Len(data) + Len(chunk) <= MaxBytes
  /\ data' = data \o chunk
  /\ w' = WriteChunk(w, chunk)
  /\ UNCHANGED <<idx, follow>>

\* totalLines.
TotalLines(v) ==
  CASE v.bytes = 0 -> 0
    [] v.lineStart < v.bytes -> v.lines + 1
    [] OTHER -> v.lines

\* Commit: the index is stored beside the blob, or that fails and is ignored.
Commit ==
  /\ idx.kind = "open"
  /\ idx' \in {[kind |-> "stored", entries |-> w.entries, lines |-> TotalLines(w)],
               [kind |-> "none", entries |-> <<>>, lines |-> 0]}
  /\ UNCHANGED <<data, w, follow>>

\* BuildLineIndex: one pass over the blob.
BuildLineIndex(d) ==
  LET Add(v, l) ==
        LET size == Len(l) + (IF v.offset + Len(l) < Len(d) THEN 1 ELSE 0)
            line == v.line + 1
            offset == v.offset + size
        IN IF line - v.lastLine >= StrideLines \/ offset - v.lastOffset >= StrideBytes
           THEN [v EXCEPT !.line = line, !.offset = offset, !.lastLine = line,
                          !.lastOffset = offset, !.entries = Append(@, Entry(line, offset))]
           ELSE [v EXCEPT !.line = line, !.offset = offset]
      start == [line |-> 1, offset |-> 0, lastLine |-> 1, lastOffset |-> 0,
                entries |-> <<Entry(1, 0)>>]
  IN IF d = <<>> THEN <<>> ELSE FoldLeft(Add, start, LinesOf(d)).entries

\* readOutput, Rebuild: a range is asked for and there is no index.
Rebuild ==
  /\ idx.kind = "none"
  /\ idx' = [kind |-> "rebuilt", entries |-> BuildLineIndex(data),
             lines |-> Len(LinesOf(data))]
  /\ UNCHANGED <<data, w, follow>>

\* Mutant: the cursor stays before an unfinished line.
FollowUnfinished ==
  LET all == LinesOf(data)
  IN /\ idx.kind = "open" /\ Len(all) > follow.cursor
     /\ follow' = [cursor |-> w.lines,
                   shown |-> follow.shown \o SubSeq(all, follow.cursor + 1, Len(all))]
     /\ UNCHANGED <<data, w, idx>>

\* One poll of followServiceLogs over the running stream: what lies past the
\* cursor is returned and the cursor moves to the last line, finished or not.
FollowPoll ==
  LET all == LinesOf(data)
  IN /\ idx.kind = "open" /\ Len(all) > follow.cursor
     /\ follow' = [cursor |-> Len(all),
                   shown |-> follow.shown \o SubSeq(all, follow.cursor + 1, Len(all))]
     /\ UNCHANGED <<data, w, idx>>

Next == (\E c \in Chunks : Write(c)) \/ Commit \/ Rebuild \/ FollowPoll

-----------------------------------------------------------------------------
\* LineIndex.Lookup.
Lookup(entries, line) ==
  LET before == {k \in 1..Len(entries) : entries[k].line <= line}
  IN IF before = {} THEN Entry(1, 0)
     ELSE entries[CHOOSE k \in before : \A j \in before : j <= k]

\* readLineRange: seek to the entry, skip to the start, read to the end.
ReadLineRange(d, start, end, entry) ==
  LET rest == LinesOf(SubSeq(d, entry.offset + 1, Len(d)))
      skip == start - entry.line
  IN SubSeq(rest, skip + 1, skip + (end - start + 1))

\* Mutant: the oldest line is overwritten and stays the oldest.
RingPushInPlace(ring, limit, x) ==
  CASE limit = 0 -> ring
    [] Len(ring.slots) < limit -> [ring EXCEPT !.slots = Append(@, x)]
    [] OTHER -> [slots |-> [ring.slots EXCEPT ![ring.start + 1] = x], start |-> ring.start]

\* lineRing.push and each: the last limit of the lines pushed.
RingPush(ring, limit, x) ==
  CASE limit = 0 -> ring
    [] Len(ring.slots) < limit -> [ring EXCEPT !.slots = Append(@, x)]
    [] OTHER -> [slots |-> [ring.slots EXCEPT ![ring.start + 1] = x],
                 start |-> (ring.start + 1) % limit]

RingEach(ring) == LET n == Len(ring.slots) IN
  [k \in 1..n |-> ring.slots[((ring.start + k - 1) % n) + 1]]

EmptyRing == [slots |-> <<>>, start |-> 0]

\* Preview: the numbers of the lines shown.
Preview(lines) ==
  LET Add(v, k) == IF k <= HeadLines THEN [v EXCEPT !.head = Append(@, k)]
                   ELSE [v EXCEPT !.ring = RingPush(@, TailLines, k)]
      read == FoldLeft(Add, [head |-> <<>>, ring |-> EmptyRing],
                       [k \in 1..Len(lines) |-> k])
  IN read.head \o RingEach(read.ring)

Matches(line) == \E k \in 1..Len(line) : line[k] = "m"

\* Mutant: the lines kept as context before a match are not forgotten with it.
GrepKeepsWindow(lines, context) ==
  LET Add(g, k) ==
        LET m == Matches(lines[k])
            t == IF m THEN g.total + 1 ELSE g.total
            limited == MaxMatches > 0 /\ g.shown >= MaxMatches
        IN CASE m /\ ~limited ->
                  [g EXCEPT !.out = (g.out \o RingEach(g.before)) \o <<k>>,
                            !.until = k + context, !.total = t, !.shown = g.shown + 1]
             [] ~(m /\ ~limited) /\ k <= g.until -> [g EXCEPT !.out = Append(@, k), !.total = t]
             [] OTHER -> [g EXCEPT !.total = t, !.before = RingPush(@, context, k)]
  IN FoldLeft(Add, [out |-> <<>>, before |-> EmptyRing, until |-> 0, total |-> 0, shown |-> 0],
              [k \in 1..Len(lines) |-> k])

\* streamGrep.add over the lines: what it writes, how many matched, how many of
\* them it shows.
StreamGrep(lines, context) ==
  LET Add(g, k) ==
        LET m == Matches(lines[k])
            t == IF m THEN g.total + 1 ELSE g.total
            limited == MaxMatches > 0 /\ g.shown >= MaxMatches
        IN CASE m /\ ~limited ->
                  [out |-> (g.out \o RingEach(g.before)) \o <<k>>, before |-> EmptyRing,
                   until |-> k + context, total |-> t, shown |-> g.shown + 1]
             [] ~(m /\ ~limited) /\ k <= g.until ->
                  [g EXCEPT !.out = Append(@, k), !.total = t]
             [] OTHER ->
                  [g EXCEPT !.total = t,
                            !.before = IF limited THEN @ ELSE RingPush(@, context, k)]
  IN FoldLeft(Add, [out |-> <<>>, before |-> EmptyRing, until |-> 0, total |-> 0, shown |-> 0],
              [k \in 1..Len(lines) |-> k])

\* grepLines, the definition on a whole slice: the first MaxMatches matches and
\* the lines within context of one of them.
GrepLines(lines, context) ==
  LET all == SelectSeq([k \in 1..Len(lines) |-> k], LAMBDA k : Matches(lines[k]))
      shown == IF MaxMatches > 0 /\ Len(all) > MaxMatches
               THEN SubSeq(all, 1, MaxMatches) ELSE all
      included == {k \in 1..Len(lines) :
                     \E m \in ToSet(shown) : k <= m + context /\ m <= k + context}
  IN [out |-> SetToSortSeq(included, <), total |-> Len(all), shown |-> Len(shown)]

(***************************************************************************)
(* Properties.                                                             *)
(***************************************************************************)

\* A range read through the index, the writer's or a rebuilt one, is the range
\* of the stream: whatever chunks the bytes came in, and with a last line that
\* has no newline.
RangeReadIsExact ==
  idx.kind \in {"stored", "rebuilt"} =>
    LET lines == LinesOf(data) IN
    /\ idx.lines = Len(lines)
    /\ \A s \in 1..Len(lines) : \A e \in s..Len(lines) :
         ReadLineRange(data, s, e, Lookup(idx.entries, s)) = SubSeq(lines, s, e)

\* A pattern search in one pass with a bounded window (streamGrep) selects and
\* counts what the search of the whole slice (grepLines) does.
GrepAgrees ==
  \A c \in 0..2 : LET lines == LinesOf(data)
                      g == StreamGrep(lines, c)
                      r == GrepLines(lines, c)
                  IN g.out = r.out /\ g.total = r.total /\ g.shown = r.shown

\* A preview shows the first and the last lines, in order and none of them twice.
PreviewIsHeadAndTail ==
  LET n == Len(LinesOf(data))
  IN Preview(LinesOf(data)) = SetToSortSeq({k \in 1..n : k <= HeadLines \/ k + TailLines > n}, <)

\* What a follower has got are the first lines of the stream, none of them twice or
\* left out, in order; one it read before its newline came is cut where it was then,
\* and its rest is not returned later.
FollowInOrder ==
  /\ follow.cursor = Len(follow.shown)
  /\ \A k \in 1..Len(follow.shown) : IsPrefix(follow.shown[k], LinesOf(data)[k])
=============================================================================
