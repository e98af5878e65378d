--------------------------- MODULE RiskFactorDiff ---------------------------
(***************************************************************************)
(* How two years' Risk Factors sections are cut into chunks and compared   *)
(* (src/riskFactorDiff.ts, src/riskFactors.ts).                            *)
(*                                                                         *)
(* A filing is a sequence of lines [kind, words]: the heading of the       *)
(* section, that of the next item ("next"), an artifact (a page number or  *)
(* a running header) or text.  A word is [id, stop], stop if it ends a     *)
(* sentence.  Lengths are in words, a section's in lines.  An embedding is *)
(* external: all that matters of it is `Similarity`, of any two texts, in  *)
(* percent.                                                                *)
(***************************************************************************)
EXTENDS Orders, SequencesExt

CONSTANTS MinSection,  \* MIN_SECTION_LENGTH
          MinChunk,    \* MIN_CHUNK_CHARS
          MaxChunk,    \* MAX_CHUNK_CHARS
          Vocabulary,  \* the words of the filings
          Texts,       \* of the chunks
          Similarity(_, _)

ASSUME ChunkAssumption == /\ {MinSection, MinChunk, MaxChunk} \subseteq Nat \ {0} /\ MinChunk <= MaxChunk
                          /\ \A w \in Vocabulary : w.stop \in BOOLEAN

UnchangedThreshold == 92
ModifiedThreshold == 60

(* The dot product of unit vectors: no text is more like another than it is
   like itself, and texts that differ beyond what the model reads are as like. *)
ASSUME SimilarityAssumption ==
  \A a, b \in Texts : /\ Similarity(a, b) \in Int /\ Similarity(a, b) <= Similarity(a, a)
                      /\ Similarity(a, a) >= UnchangedThreshold

-----------------------------------------------------------------------------
(* extractRiskFactorsSection: from the first "Item 1A. Risk Factors" whose
   section, up to the next item's heading, is long enough; else nothing. *)
NextItem(filing, heading) == {e \in DOMAIN filing : e > heading /\ filing[e].kind = "next"}

Qualifying(filing) ==
  {h \in DOMAIN filing : /\ filing[h].kind = "heading" /\ NextItem(filing, h) # {}
                        /\ Min(NextItem(filing, h)) - h - 1 >= MinSection}

ExtractRiskFactorsSection(filing) ==
  IF Qualifying(filing) = {} THEN <<>>
  ELSE LET heading == Min(Qualifying(filing))
       IN SubSeq(filing, heading + 1, Min(NextItem(filing, heading)) - 1)

-----------------------------------------------------------------------------
(* chunkRiskFactorText *)

TextLines(section) ==
  Picked(section, {i \in DOMAIN section : section[i].kind # "artifact" /\ section[i].words # <<>>})

(* Short lines are joined to what follows; at the end, to what precedes. *)
Joined(lines) ==
  FoldLeft(LAMBDA acc, l :
             LET buffer == acc.buffer \o l.words IN
             IF Len(buffer) >= MinChunk THEN [merged |-> Append(acc.merged, buffer), buffer |-> <<>>]
             ELSE [acc EXCEPT !.buffer = buffer],
           [merged |-> <<>>, buffer |-> <<>>], lines)

(* Mutant: what is left in the buffer is forgotten. *)
MergedWithoutRest(lines) == Joined(lines).merged
Merged(lines) ==
  LET all == Joined(lines) IN
  CASE all.buffer = <<>> -> all.merged
    [] all.buffer # <<>> /\ all.merged = <<>> -> <<all.buffer>>
    [] OTHER -> [all.merged EXCEPT ![Len(all.merged)] = @ \o all.buffer]

(* The sentences of a chunk, and the words left open after the last. *)
Punctuated(chunk) ==
  FoldLeft(LAMBDA acc, w : IF w.stop THEN [done |-> Append(acc.done, Append(acc.open, w)), open |-> <<>>]
                           ELSE [acc EXCEPT !.open = Append(@, w)],
           [done |-> <<>>, open |-> <<>>], chunk)

(* What the pattern [^.!?]+[.!?]+|\S+$ matches: the sentences, and of the
   words after the last of them only the last word. *)
Sentences(chunk) ==
  LET read == Punctuated(chunk)
  IN IF read.open = <<>> THEN read.done ELSE Append(read.done, <<Last(read.open)>>)

(* Sentences are joined until the next would be too much. *)
Cut(sentences) ==
  FoldLeft(LAMBDA acc, s : IF Len(acc.sub) + Len(s) > MaxChunk /\ acc.sub # <<>>
                           THEN [done |-> Append(acc.done, acc.sub), sub |-> s]
                           ELSE [acc EXCEPT !.sub = @ \o s],
           [done |-> <<>>, sub |-> <<>>], sentences)

Split(chunk) ==
  IF Len(chunk) <= MaxChunk THEN <<chunk>>
  ELSE LET cut == Cut(Sentences(chunk))
       IN IF cut.sub = <<>> THEN cut.done ELSE Append(cut.done, cut.sub)

Concatenated(pieces) == FoldLeft(LAMBDA acc, p : acc \o p, <<>>, pieces)

ChunkRiskFactorText(section) ==
  LET merged == Merged(TextLines(section)) IN Concatenated([k \in DOMAIN merged |-> Split(merged[k])])

-----------------------------------------------------------------------------
(* diffRiskFactorTexts, from the chunks *)

(* The first of the most similar old chunks; 0 if there is none. *)
(* Mutant: the first old chunk that is similar enough. *)
FirstSimilar(new, old) ==
  LET similar == {j \in DOMAIN old : Similarity(new, old[j]) >= ModifiedThreshold}
  IN IF similar = {} THEN 0 ELSE Min(similar)
BestMatch(new, old) ==
  LET best == {j \in DOMAIN old : \A k \in DOMAIN old : Similarity(new, old[k]) <= Similarity(new, old[j])}
  IN IF best = {} THEN 0 ELSE Min(best)

Classified(new, old) ==
  LET best == BestMatch(new, old)
      score == IF best = 0 THEN -1 ELSE Similarity(new, old[best])
  IN IF score < ModifiedThreshold THEN [text |-> new, status |-> "new", match |-> 0]
     ELSE [text |-> new, status |-> IF score >= UnchangedThreshold THEN "unchanged" ELSE "modified", match |-> best]

DiffChunks(old, new) ==
  LET kept == [i \in DOMAIN new |-> Classified(new[i], old)]
      unmatched == Ascending({j \in DOMAIN old : \A i \in DOMAIN kept : kept[i].match # j})
  IN kept \o [k \in DOMAIN unmatched |-> [text |-> old[unmatched[k]], status |-> "removed", match |-> unmatched[k]]]

Statuses == {"unchanged", "modified", "new", "removed"}
Summary(chunks) ==
  [s \in Statuses |-> FoldLeft(LAMBDA n, c : IF c.status = s THEN n + 1 ELSE n, 0, chunks)]

(* RiskChanges: a tab's heading counts the summary, its list the chunks. *)
Tab(diff, kind) == [count |-> diff.summary[kind], 
                    list |-> Picked(diff.chunks, {i \in DOMAIN diff.chunks : diff.chunks[i].status = kind})]

DiffRiskFactorTexts(old, new) ==
  LET chunks == DiffChunks(old, new) IN [chunks |-> chunks, summary |-> Summary(chunks)]

-----------------------------------------------------------------------------

(* The words that only an overlong chunk's pattern passes over: those after
   its last sentence end, but the very last. *)
Unpunctuated(chunk) ==
  IF Len(chunk) <= MaxChunk THEN {}
  ELSE {chunk[i] : i \in {n \in 1..(Len(chunk) - 1) : \A k \in n..Len(chunk) : ~chunk[k].stop}}

(* The section stops at the next item, and there is none only if every
   heading is followed by too little.  Chunking it loses no word, repeats
   none and keeps their order - but for the unpunctuated end of an overlong
   chunk; and no chunk is longer than the maximum unless a single sentence
   is. *)
ChunksKeepTheText(filing) ==
  LET section == ExtractRiskFactorsSection(filing)
      text == Concatenated([i \in DOMAIN TextLines(section) |-> TextLines(section)[i].words])
      passedOver == UNION {Unpunctuated(c) : c \in ToSet(Merged(TextLines(section)))}
      chunks == ChunkRiskFactorText(section)
  IN /\ \A i \in DOMAIN section : section[i].kind # "next"
     /\ Len(section) < MinSection =>
          /\ section = <<>>
          /\ \A h, e \in DOMAIN filing :
               filing[h].kind = "heading" /\ filing[e].kind = "next" /\ e - h > MinSection =>
                 \E n \in (h + 1)..(e - 1) : filing[n].kind = "next"
     /\ Concatenated(chunks) = Picked(text, {i \in DOMAIN text : text[i] \notin passedOver})
     /\ \A c \in ToSet(chunks) : c # <<>> /\ (Len(c) > MaxChunk => \A i \in 1..(Len(c) - 1) : ~c[i].stop)

(* Each new chunk is told once, by the nearest old one: new only if none is
   near, unchanged if any nearly agrees.  Each old chunk is matched or
   removed; one whose text survives is removed only if one that an embedding
   cannot tell from it stood earlier.  The page's tabs count what they list. *)
DiffAccountsForBoth(old, new) ==
  LET diff == DiffRiskFactorTexts(old, new)
      of(s) == {i \in DOMAIN diff.chunks : diff.chunks[i].status = s}
      near(i, threshold) == \E j \in DOMAIN old : Similarity(new[i], old[j]) >= threshold
      removed == {diff.chunks[i].match : i \in of("removed")}
  IN /\ of("removed") = DOMAIN diff.chunks \ DOMAIN new
     /\ \A i \in DOMAIN new :
          /\ diff.chunks[i].text = new[i]
          /\ i \in of("new") <=> ~near(i, ModifiedThreshold)
          /\ i \in of("unchanged") <=> near(i, UnchangedThreshold)
     /\ removed = DOMAIN old \ {diff.chunks[i].match : i \in DOMAIN new}
     /\ \A j \in removed : old[j] \in ToSet(new) =>
          \E k \in 1..(j - 1) : Similarity(old[j], old[k]) = Similarity(old[j], old[j])
     /\ \A s \in Statuses : Tab(diff, s).count = Len(Tab(diff, s).list)
=============================================================================
