------------------------------ MODULE Segments ------------------------------
(***************************************************************************)
(* How a long text is divided: into nodes that fit the embedding model's   *)
(* window (divide and choose_cut of cpersona/nodes.py), into blocks no     *)
(* longer than MAX_BLOCK_CHARS (segment of cpersona/blocks.py), and how    *)
(* much of a record is shown around a block (context_range).               *)
(*                                                                         *)
(* A text is a sequence of character classes: "a" a letter, " " a space,   *)
(* "nl" a newline, "." a sentence end, "," weak punctuation, "(" and ")"   *)
(* brackets, "F" a code fence mark, "Q" a word that qualifies what went    *)
(* before. Offsets count characters, as in the code: 0 is before the       *)
(* first. The tokenizer is external: Measure(s) is its report on s.        *)
(***************************************************************************)
EXTENDS Integers, Sequences, FiniteSets, SequencesExt

CONSTANTS
    Chars,        \* the character classes a text is made of
    MaxText,      \* bound: characters in a text
    MaxSizes,     \* values of max_chars tried
    Windows,      \* values of the model's window, in tokens, tried
    Measure(_, _) \* the token report on a text: [truncated, end]

ASSUME SegmentsConstants == MaxText \in Nat /\ MaxSizes \subseteq Nat \ {0} /\ Windows \subseteq Nat \ {0}

\* The client refuses a report that is out of range (_validate_token_info, embedding_client.py:360).
ASSUME MeasureAssumption ==
    \A w \in Windows, n \in 0..MaxText : \A s \in [1..n -> Chars] : Measure(s, w).end \in 0..n

VARIABLE piece   \* the text being divided and its divisions
segmentsVars == <<piece>>

Slice(text, a, b) == SubSeq(text, a + 1, b)
IsSpace(c)        == c \in {" ", "nl"}
BlankText(s)      == \A i \in DOMAIN s : IsSpace(s[i])
Greatest(S)       == CHOOSE p \in S : \A q \in S : q <= p
Ascending(S)      == SetToSortSeq(S, LAMBDA p, q : p < q)

----------------------------------------------------------------------------
(* Boundaries                                                              *)

AfterNewline(t)   == {p \in 1..Len(t) : t[p] = "nl"}
\* Two newlines with nothing between them end a paragraph; matches do not overlap.
AfterParagraph(t) ==
    {p \in AfterNewline(t) :
        Cardinality({q \in AfterNewline(t) : q <= p /\ \A k \in q..p : IsSpace(t[k])}) % 2 = 0}
AfterSentence(t)  == {p \in 1..Len(t) : t[p] = "." /\ (p = Len(t) \/ IsSpace(t[p + 1]))}
AfterSpace(t)     == {p \in 1..Len(t) : IsSpace(t[p])}
AfterPunctuation(t) == {p \in 1..Len(t) : t[p] = ","}

\* choose_cut: the last boundary within the window, of the strongest class that has one
\* in the window's second half; else the window's end.
ChooseCut(text, windowEnd) ==
    LET end == IF windowEnd < Len(text) THEN windowEnd ELSE Len(text)
        classes == <<AfterParagraph(text), AfterNewline(text), AfterSentence(text), AfterSpace(text)>>
        within(k) == {p \in classes[k] : p <= end}
        good == {k \in DOMAIN classes : within(k) # {} /\ Greatest(within(k)) * 2 >= end}
    IN  IF good = {} THEN end ELSE Greatest(within(CHOOSE k \in good : \A j \in good : k <= j))

----------------------------------------------------------------------------
(* divide                                                                  *)

TokensUnknown == <<-1>>

\* Mutant of CutWithin: a slice is taken to fit because it ends inside the window.
CutWithinUnmeasured(rest, limit, w) == IF limit < 1 THEN 0 ELSE ChooseCut(rest, limit)

\* The inner loop: shrink the limit until the slice itself is measured to fit; 0 when
\* the window closes before the first character.
CutWithin(rest, limit, w) ==
    LET try[l \in 0..Len(rest)] ==
            IF l < 1 THEN 0
            ELSE LET cut == ChooseCut(rest, l)
                     info == Measure(Slice(rest, 0, cut), w)
                 IN  IF ~info.truncated THEN cut
                     ELSE try[IF info.end < cut - 1 THEN info.end ELSE cut - 1]
    IN  try[limit]

\* The ends of the spans, or TokensUnknown. The probe that measures only twice the last
\* reach of a long rest is left out: it changes what is asked, not what is answered.
Divide(text, w) ==
    LET from[pos \in 0..Len(text)] ==
            IF pos >= Len(text) THEN <<>>
            ELSE LET rest == Slice(text, pos, Len(text))
                     info == Measure(rest, w)
                     cut == CutWithin(rest, info.end, w)
                 IN  IF ~info.truncated THEN <<Len(text)>>
                     ELSE IF cut = 0 THEN TokensUnknown
                     ELSE LET tail == from[pos + cut]
                          IN  IF tail = TokensUnknown THEN TokensUnknown ELSE <<pos + cut>> \o tail
    IN  from[0]

----------------------------------------------------------------------------
(* segment                                                                 *)

\* _fence_ranges: from an opening mark to the end of the closing mark's line; a fence
\* never closed runs to the end.
Marks(t) == Ascending({p \in 0..(Len(t) - 1) : /\ t[p + 1] = "F"
                          /\ \E q \in 0..p : (q = 0 \/ t[q] = "nl") /\ \A k \in (q + 1)..p : t[k] = " "})
FenceRanges(t) ==
    LET m == Marks(t)
        lineEnd(p) == LET ends == {q \in (p + 1)..Len(t) : t[q] = "nl"}
                      IN  IF ends = {} THEN Len(t) ELSE CHOOSE q \in ends : \A r \in ends : q <= r
    IN  {<<m[i], IF i < Len(m) THEN lineEnd(m[i + 1]) ELSE Len(t)>> : i \in {j \in DOMAIN m : j % 2 = 1}}

\* _bracket_depth counts matched pairs only (one kind of bracket here).
Matched(t) ==
    LET close[i \in 0..Len(t)] ==
            IF i = 0 THEN [open |-> <<>>, pairs |-> {}]
            ELSE LET s == close[i - 1]
                 IN  CASE t[i] = "(" -> [s EXCEPT !.open = Append(@, i)]
                       [] t[i] = ")" /\ s.open # <<>> ->
                             [open |-> SubSeq(s.open, 1, Len(s.open) - 1),
                              pairs |-> s.pairs \cup {<<s.open[Len(s.open)], i>>}]
                       [] OTHER -> s
    IN  close[Len(t)].pairs
InBrackets(t, p) == \E m \in Matched(t) : m[1] <= p /\ p < m[2]

StructuralCuts(t) ==
    {p \in AfterNewline(t) \cup AfterSentence(t) :
        /\ p < Len(t)
        /\ ~\E f \in FenceRanges(t) : f[1] < p /\ p < f[2]
        /\ ~InBrackets(t, p)}

\* _last_weak_cut: the last weak boundary in the second half of the piece, or 0.
LastWeakCut(t, start, limit) ==
    LET floor == start + (limit - start) \div 2
        within(S) == {p \in S : start < p /\ p <= limit}
        good(S) == within(S) # {} /\ Greatest(within(S)) >= floor
    IN  IF good(AfterPunctuation(t)) THEN Greatest(within(AfterPunctuation(t)))
        ELSE IF good(AfterSpace(t)) THEN Greatest(within(AfterSpace(t))) ELSE 0

Span(a, b, forced) == [start |-> a, end |-> b, forced |-> forced]

ForceSplit(t, start, end, size) ==
    LET from[pos \in start..end] ==
            IF end - pos <= size
            THEN IF pos < end THEN <<Span(pos, end, FALSE)>> ELSE <<>>
            ELSE LET weak == LastWeakCut(t, pos, pos + size)
                     cut == IF weak > pos THEN weak ELSE pos + size
                 IN  <<Span(pos, cut, TRUE)>> \o from[cut]
    IN  from[start]

\* _fold_blank: a blank piece joins the piece after it, the last one the piece before
\* it, unless a node ends between them or the two are too long together.
FoldBlank(t, spans, nodeCuts, size) ==
    LET blank(s) == BlankText(Slice(t, s.start, s.end))
        joinable(a, b) == b.start \notin nodeCuts /\ b.end - a.start <= size
        joined(a, b) == Span(a.start, b.end, b.forced)
        forward(out, s) == IF out # <<>> /\ blank(Last(out)) /\ joinable(Last(out), s)
                           THEN Append(Front(out), joined(Last(out), s)) ELSE Append(out, s)
        out == FoldLeft(forward, <<>>, spans)
        before == Front(out)
    IN  IF Len(out) > 1 /\ blank(Last(out)) /\ joinable(Last(before), Last(out))
        THEN Append(Front(before), joined(Last(before), Last(out))) ELSE out

Segment(t, nodeEnds, size) ==
    LET nodeCuts == {p \in nodeEnds : 0 < p /\ p < Len(t)}
        bounds == <<0>> \o Ascending(StructuralCuts(t) \cup nodeCuts) \o <<Len(t)>>
        split(out, i) == out \o (IF bounds[i + 1] - bounds[i] > size
                                 THEN ForceSplit(t, bounds[i], bounds[i + 1], size)
                                 ELSE <<Span(bounds[i], bounds[i + 1], FALSE)>>)
    IN  IF t = <<>> THEN <<>>
        ELSE FoldBlank(t, FoldLeft(split, <<>>, [i \in 1..(Len(bounds) - 1) |-> i]), nodeCuts, size)

----------------------------------------------------------------------------
(* context_range                                                           *)

Spaceless(s) == SelectSeq(s, LAMBDA c : ~IsSpace(c))
EndsASentence(s)        == Spaceless(s) # <<>> /\ Last(Spaceless(s)) = "."
StartsWithQualifier(s)  == Spaceless(s) # <<>> /\ Head(Spaceless(s)) = "Q"

\* _following: the blocks after, blank ones included, up to the first that says something.
Following(t, spans, k) ==
    LET said == {j \in k..Len(spans) : ~BlankText(Slice(t, spans[j].start, spans[j].end))}
        last == IF said = {} THEN Len(spans) ELSE CHOOSE j \in said : \A i \in said : j <= i
    IN  Slice(t, spans[k].start, spans[last].end)

\* From the block, grow over the block before while it leaves a sentence open or the
\* range opens with a qualifier, then over the block after, until the limit.
ContextRange(t, spans, index, limit) ==
    LET text(a, b) == Slice(t, spans[a].start, spans[b].end)
        wantsBefore(a, b) == a > 1 /\ (~EndsASentence(text(a - 1, a - 1)) \/ StartsWithQualifier(text(a, b)))
        wantsAfter(a, b) == b < Len(spans) /\ (~EndsASentence(text(a, b)) \/ StartsWithQualifier(Following(t, spans, b + 1)))
        grow[a \in 1..index, b \in index..Len(spans)] ==
            LET done(ok) == [start |-> spans[a].start, end |-> spans[b].end, complete |-> ok]
            IN  IF wantsBefore(a, b)
                THEN IF spans[b].end - spans[a - 1].start > limit THEN done(FALSE) ELSE grow[a - 1, b]
                ELSE IF wantsAfter(a, b)
                THEN IF spans[b + 1].end - spans[a].start > limit THEN done(FALSE) ELSE grow[a, b + 1]
                ELSE done(TRUE)
    IN  grow[index, index]

----------------------------------------------------------------------------
(* A run: one text is divided into nodes, then into blocks                 *)

NoPiece == [pc |-> "none", text |-> <<>>, size |-> 1, window |-> 1, nodes |-> <<>>, spans |-> <<>>]

PickText ==
    /\ piece = NoPiece
    /\ \E n \in 1..MaxText, size \in MaxSizes, w \in Windows : \E text \in [1..n -> Chars] :
          piece' = [NoPiece EXCEPT !.pc = "nodes", !.text = text, !.size = size, !.window = w]

BuildNodes ==
    /\ piece.pc = "nodes"
    /\ piece' = [piece EXCEPT !.nodes = Divide(piece.text, piece.window), !.pc = "blocks"]

\* A text that is one span has no nodes; a failed division leaves none either.
NodeEnds == IF Len(piece.nodes) > 1 THEN {piece.nodes[i] : i \in DOMAIN piece.nodes} ELSE {}

BuildBlocks ==
    /\ piece.pc = "blocks"
    /\ piece' = [piece EXCEPT !.spans = Segment(piece.text, NodeEnds, piece.size), !.pc = "done"]

SegmentsInit == piece = NoPiece
SegmentsNext == PickText \/ BuildNodes \/ BuildBlocks
SegmentsSpec == SegmentsInit /\ [][SegmentsNext]_segmentsVars

----------------------------------------------------------------------------
(* Properties                                                              *)

\* The nodes tile the text and each of them, as it is sent to the model, is measured to
\* fit the window: whatever the tokenizer makes of a slice, none is cut off unseen.
NodesFit ==
    piece.pc \in {"blocks", "done"} /\ piece.nodes # TokensUnknown =>
        /\ piece.nodes # <<>> /\ Last(piece.nodes) = Len(piece.text)
        /\ \A i \in DOMAIN piece.nodes :
              LET start == IF i = 1 THEN 0 ELSE piece.nodes[i - 1]
              IN  start < piece.nodes[i] /\ ~Measure(Slice(piece.text, start, piece.nodes[i]), piece.window).truncated

\* The blocks tile the text, none is longer than the bound, no block straddles two
\* nodes, and a block ends inside brackets, inside a fence or in mid-sentence only where
\* a node ends or the bound forced it. The range shown around a block holds it, stays
\* within the limit it may grow to, and claims to be complete only when the text before
\* and after it needs nothing more.
BlocksTile ==
    LET s == piece.spans n == Len(piece.spans)
    IN  piece.pc = "done" =>
        /\ n > 0 /\ s[1].start = 0 /\ s[n].end = Len(piece.text)
        /\ \A i \in 1..(n - 1) : s[i].end = s[i + 1].start
        /\ \A i \in 1..n : s[i].start < s[i].end /\ s[i].end - s[i].start <= piece.size
        /\ \A p \in NodeEnds : \E i \in 1..n : s[i].end = p
        /\ \A i \in 1..(n - 1) : s[i].forced \/ s[i].end \in StructuralCuts(piece.text) \cup NodeEnds
        /\ \A i \in 1..n :
              LET c == ContextRange(piece.text, s, i, 2 * piece.size)
                  shown == Slice(piece.text, c.start, c.end)
                  prior == {j \in 1..n : s[j].end = c.start}
              IN  /\ c.start <= s[i].start /\ s[i].end <= c.end
                  /\ c.end - c.start <= 2 * piece.size
                  /\ c.complete =>
                        /\ \A j \in prior : ~StartsWithQualifier(shown) /\ EndsASentence(Slice(piece.text, s[j].start, s[j].end))
                        /\ c.end < Len(piece.text) => EndsASentence(shown)

\* Nodes and blocks both divide the text without a gap, within their bounds, and blocks
\* respect the nodes (nodes.py split_text, blocks.py segment and context_range).
TextIsTiled == NodesFit /\ BlocksTile
=============================================================================
