---------------------------- MODULE FrameSorter ----------------------------
(***************************************************************************)
(* The frame sorter of a stream: STREAM frames arrive in any order, overlap *)
(* and repeat; Pop returns the data in order, every byte once.             *)
(*                                                                         *)
(* A byte is its position in the stream.  The state is a record: the queue, *)
(* a function from offsets to sequences of bytes; readPos; and the list of *)
(* gaps.  The callbacks that release buffers are left out.                 *)
(***************************************************************************)
EXTENDS Integers, Sequences, FiniteSets, FiniteSetsExt

CONSTANTS
    MaxByteCount,             \* larger than any offset
    MaxStreamFrameSorterGaps

Bytes(from, to) == [i \in 1 .. (to - from) |-> from + i - 1]

newFrameSorter ==
    [queue |-> <<>>, readPos |-> 0, gaps |-> <<[Start |-> 0, End |-> MaxByteCount]>>]

\* findStartGap: the first gap that ends at or after offset.
findStartGap(gaps, offset) == Min({i \in DOMAIN gaps : offset <= gaps[i].End})

\* findEndGap: the gap that contains offset, or the last one before it.
findEndGap(gaps, offset) ==
    LET i == Min({k \in DOMAIN gaps : offset < gaps[k].End})
    IN  IF offset >= gaps[i].Start THEN i ELSE i - 1

\* The queued entries that follow each other from pos on.
consecutive(queue, pos) ==
    LET run[n \in 0 .. Cardinality(DOMAIN queue)] ==
            IF n = 0 THEN [at |-> pos, keys |-> {}]
            ELSE LET r == run[n - 1]
                 IN  IF r.at \notin DOMAIN queue THEN r
                     ELSE [at |-> r.at + Len(queue[r.at]), keys |-> r.keys \cup {r.at}]
    IN  run[Cardinality(DOMAIN queue)].keys

(* The loop over queued entries at the start of the new frame: shorter     *)
(* ones are replaced, and a longer one cuts the frame.                     *)
replaced(queue, start, end) ==
    LET step[n \in 0 .. (Cardinality(DOMAIN queue) + 1)] ==
            IF n = 0 THEN [at |-> start, keys |-> {}, done |-> FALSE, cut |-> FALSE]
            ELSE LET r == step[n - 1]
                     len == IF r.at \in DOMAIN queue THEN Len(queue[r.at]) ELSE 0
                 IN  IF r.done \/ r.at \notin DOMAIN queue THEN [r EXCEPT !.done = TRUE]
                     ELSE IF end - r.at > len \/ (r.keys # {} /\ end - r.at = len)
                          THEN [r EXCEPT !.at = @ + len, !.keys = @ \cup {r.at}]
                     ELSE [r EXCEPT !.done = TRUE, !.cut = TRUE]
    IN  step[Cardinality(DOMAIN queue) + 1]

\* Mutant: the entries between two gaps that the frame covers stay queued.
coveredEntriesKept(s, i, j) == {}

\* The entries that a frame from gap i to gap j covers: deleteConsecutive after
\* every gap but the last.
coveredEntries(s, i, j) ==
    IF i = j THEN {} ELSE UNION {consecutive(s.queue, s.gaps[k].End) : k \in i .. (j - 1)}

\* What is left of gap k when a frame [start, end) is inserted between gaps i and j.
gapsAfter(s, i, j, start, end, replacedAny) ==
    LET gap(k) == s.gaps[k]
        before == IF start <= gap(i).Start
                  THEN (IF end >= gap(i).End THEN <<>> ELSE <<[gap(i) EXCEPT !.Start = end]>>)
                  ELSE IF ~replacedAny THEN <<[gap(i) EXCEPT !.End = start]>> ELSE <<gap(i)>>
        after == IF end = gap(j).End THEN <<>>
                 ELSE IF i # j THEN <<[gap(j) EXCEPT !.Start = end]>>
                 ELSE IF start > gap(i).Start /\ ~replacedAny THEN <<[gap(i) EXCEPT !.Start = end]>>
                 ELSE <<>>
    IN  SubSeq(s.gaps, 1, i - 1) \o before \o after \o SubSeq(s.gaps, j + 1, Len(s.gaps))

(* push: insert the bytes of [offset, offset+length).  The frame is cut to *)
(* start at the first gap it meets and to end at the last one; what lies   *)
(* between is replaced by its data.                                        *)
push(s, offset, length) ==
    LET end0 == offset + length
        i == findStartGap(s.gaps, offset)
        j == findEndGap(s.gaps, end0)
        startsInGap == offset >= s.gaps[i].Start
        endsInGap == end0 < s.gaps[j].End
        r == replaced(s.queue, offset, end0)
        any == r.keys # {}
        start == IF ~startsInGap /\ ~any THEN s.gaps[i].Start ELSE offset
        end1 == IF r.cut THEN r.at ELSE end0
        end == IF ~endsInGap /\ start # s.gaps[j].End /\ end1 > s.gaps[j].End
               THEN s.gaps[j].End ELSE end1
        keys == r.keys \cup coveredEntries(s, i, j)
        gaps == gapsAfter(s, i, j, start, end, any)
    IN  IF \/ length = 0
           \/ end0 <= s.gaps[1].Start
           \/ end0 <= s.gaps[i].Start
           \/ r.cut /\ ~any
        THEN [s |-> s, err |-> FALSE]
        ELSE [s |-> [s EXCEPT !.gaps = gaps,
                              !.queue = [p \in (DOMAIN s.queue \ keys) \cup {start} |->
                                             IF p = start THEN Bytes(start, end) ELSE s.queue[p]]],
              err |-> Len(gaps) > MaxStreamFrameSorterGaps]

\* Pop: the entry at readPos, if there is one.
Pop(s) ==
    IF s.readPos \notin DOMAIN s.queue THEN [s |-> s, offset |-> s.readPos, data |-> <<>>]
    ELSE [s |-> [s EXCEPT !.queue = [p \in DOMAIN s.queue \ {s.readPos} |-> s.queue[p]],
                          !.readPos = @ + Len(s.queue[s.readPos])],
          offset |-> s.readPos,
          data |-> s.queue[s.readPos]]
=============================================================================
