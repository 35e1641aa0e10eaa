---------------------------------- MODULE Lore ----------------------------------
(***************************************************************************)
(* What the persona can look up (src/cricket/lore): the dossiers of known  *)
(* characters and who is named in a text (loader.py), the index of the     *)
(* wiki (wiki.py), the search by meaning (vector.py).                      *)
(*                                                                         *)
(* A text, a name or a title is a sequence of words, a word its letters in *)
(* lower case and whether it is capitalized; a punctuation mark is a word. *)
(* Names with hyphens are left out.  The files are external: a dossier is  *)
(* the sequence of its sections, a page what the index says of it.         *)
(***************************************************************************)
EXTENDS Order, SequencesExt, FiniteSetsExt

CONSTANTS
  Tokens,       \* bound: words in lower case, and punctuation marks
  Bare,         \* a token without its apostrophes
  Rank,         \* words in the order of sorted(): those with a capital are first
  Width,        \* characters of a token
  Punctuation, NameStop, NameParticles, WikiStop, PhraseParticles, Openers, \* token sets
  Stems,        \* file names of the dossiers there at the start, as token sequences
  Title,        \* the heading of each
  MaxNames,     \* mentioned(max_names = 4)
  MaxChars,     \* retrieve(max_chars = 4000)
  Pages,        \* the records of index.jsonl, in the order of their titles
  Anchor        \* the bot's name in the logs

Word == [t : Tokens, up : BOOLEAN]
Text == Seq(Word)
Section == [facet : {"pre", "ic", "ooc"}, size : Nat]

\* Without its apostrophes a word is one, and stays as it is.
ASSUME LoreAssumption ==
  /\ Rank \in [Word -> Nat] /\ \A v, w \in Word : Rank[v] = Rank[w] => v = w
  /\ Bare \in [Tokens -> Tokens]
  /\ \A t \in Tokens \ Punctuation : Bare[t] \notin Punctuation /\ Bare[Bare[t]] = Bare[t]
  /\ IsFiniteSet(Stems) /\ Stems \subseteq Seq(Tokens) \ {<<>>}
  /\ Title \in [Stems -> Text \ {<<>>}]
  /\ MaxNames \in Nat \ {0} /\ MaxChars \in Nat

Tok(text) == [i \in DOMAIN text |-> text[i].t]

\* kebab, and _norm: case, apostrophes and punctuation do not count.
Kebab(name) == LET words == At(Tok(name), {i \in DOMAIN name : name[i].t \notin Punctuation})
               IN  [i \in DOMAIN words |-> Bare[words[i]]]

-------------------------------------------------------------------------------
(* Dossiers *)

\* By kebab name, where the shorter of two names comes first; the files are sorted
\* with their suffix, and "-" is before ".": there the longer name comes first.
StemOrder ==
  InOrder(Stems, [s \in Stems |-> [i \in DOMAIN s |-> Rank[[t |-> s[i], up |-> FALSE]]]])
FileOrder ==
  InOrder(Stems, [s \in Stems |-> [i \in DOMAIN s |->
    2 * Rank[[t |-> s[i], up |-> FALSE]] + (IF i = Len(s) THEN 1 ELSE 0)]])

\* _build_gazetteer: whom a single word stands for, particles aside.
NamedBy(t) == {s \in Stems : t \in ToSet(s) /\ Width[t] >= 3 /\ t \notin NameParticles}

\* The words of the name one after the other, as re.search finds them.
Occurs(name, text) ==
  \E i \in 0..(Len(text) - Len(name)) : SubSeq(Tok(text), i + 1, i + Len(name)) = name

\* mentioned: full names of two words or more, in the order of the files, then
\* capitalized words that are one character's alone; the first MaxNames of them.
Mentioned(text) ==
  LET full == At(FileOrder, {i \in DOMAIN FileOrder : Len(FileOrder[i]) >= 2
                                                      /\ Occurs(FileOrder[i], text)})
      lone == At(text, {i \in DOMAIN text :
                /\ text[i].up /\ Width[text[i].t] >= 3 /\ text[i].t \notin NameStop
                /\ Cardinality(NamedBy(text[i].t)) = 1})
      stems == full \o [i \in DOMAIN lone |-> CHOOSE s \in Stems : NamedBy(lone[i].t) = {s}]
      titles == [i \in DOMAIN stems |-> Title[stems[i]]]
  IN  Upto(MaxNames, Firsts(titles, stems))

\* mutant: a dossier without the facet is given whole
FacetOrAll(file, scope) ==
  LET want == {i \in DOMAIN file : file[i].facet = scope}
      pre == {i \in DOMAIN file : file[i].facet = "pre"}
  IN  IF want = {} THEN file ELSE At(file, pre) \o <<file[Min(want)]>>

\* _facet: the preamble and the first section of that facet; the whole file if
\* it has no facets.
Facet(file, scope) ==
  LET pre == At(file, {i \in DOMAIN file : file[i].facet = "pre"})
      want == {i \in DOMAIN file : file[i].facet = scope}
  IN  IF want = {} THEN pre ELSE pre \o <<file[Min(want)]>>

Size(text) == FoldLeft(LAMBDA n, s : n + s.size, 0, text)
SizeOf(block) == FoldLeft(LAMBDA n, d : n + Size(d.text), 0, block)

\* The pieces that fit in MaxChars; the one that is over is cut and the rest left out.
Fitted(pieces) ==
  LET over == {k \in DOMAIN pieces : SizeOf(SubSeq(pieces, 1, k)) > MaxChars}
      cut == Min(over)
  IN  [full |-> over # {},
       block |-> IF over = {} THEN pieces
                 ELSE SubSeq(pieces, 1, IF SizeOf(SubSeq(pieces, 1, cut - 1)) < MaxChars
                                        THEN cut ELSE cut - 1)]

\* retrieve: the dossiers of the cast in the order of their files, that facet of each.
Retrieve(files, cast, scope) ==
  LET known == {Kebab(cast[i]) : i \in DOMAIN cast}
      chosen == At(StemOrder, {k \in DOMAIN StemOrder :
                  StemOrder[k] \in known /\ Facet(files[StemOrder[k]], scope) # <<>>})
  IN  Fitted([k \in DOMAIN chosen |->
               [stem |-> chosen[k], text |-> Facet(files[chosen[k]], scope)]])

\* dossier: whether the file can be read
HasDossier(files, name) == Kebab(name) \in Stems /\ files[Kebab(name)] # <<>>

-------------------------------------------------------------------------------
(* The wiki *)

\* _load: pages of the namespaces of use.
Index == At(Pages, {i \in DOMAIN Pages : Pages[i].ns \in {"Main", "RPlog", "Report"}})

TokensOf(text) == {t \in ToSet(Tok(text)) : t \notin WikiStop \cup Punctuation /\ Width[t] > 1}

\* lead: the summary, or the first paragraph of the page; some have neither.
Blurb(page) == page.summary \/ page.lead

\* lookup: the first page of that title.
Lookup(name) ==
  ToSet(Upto(1, At(Index, {i \in DOMAIN Index : Kebab(Index[i].title) = Kebab(name)})))

\* search: a word of the title counts three times a word of the summary.
Score(query, page) == 3 * Cardinality(TokensOf(query) \cap TokensOf(page.title))
                      + Cardinality(TokensOf(query) \cap TokensOf(page.words))
Ranked(query, hits) == Sorted(hits, [i \in DOMAIN hits |-> 0 - Score(query, hits[i])])
Search(query, limit) ==
  Upto(limit, Ranked(query, At(Index, {i \in DOMAIN Index : Score(query, Index[i]) > 0})))

\* summary_for: the page of that title, or the best of three that shares a word
\* of it with the topic, if it has anything to say.
Close(topic, found) ==
  At(found, {i \in DOMAIN found : TokensOf(topic) \cap TokensOf(found[i].title) # {}})
SummaryFor(topic) ==
  LET page == IF Lookup(topic) # {} THEN Lookup(topic)
              ELSE ToSet(Upto(1, Close(topic, Search(topic, 3))))
  IN  {p \in page : Blurb(p)}

\* _capitalized_phrases: runs of capitalized words, particles inside, longest
\* first.
Length(phrase) == FoldLeft(LAMBDA n, w : n + 1 + Width[w.t], 0, phrase)
Phrases(text) ==
  LET capitals == {i \in DOMAIN text : text[i].up}
      run(i, j) == i <= j /\ \A k \in i..j : text[k].up \/ text[k].t \in PhraseParticles
      end(i) == Max({j \in capitals : run(i, j)})
      begins == {i \in capitals : /\ ~ \E h \in capitals : h < i /\ run(h, i)
                                  /\ ~(end(i) = i /\ text[i].t \in Openers)}
      phrases == At([i \in DOMAIN text |-> IF i \in begins THEN SubSeq(text, i, end(i)) ELSE <<>>],
                    begins)
  IN  Sorted(phrases, [k \in DOMAIN phrases |-> 0 - Length(phrases[k])])

\* topics: the title may be that of the best hit, the blurb that of the best hit
\* that shares a word of its title.
TopicOf(phrase) ==
  [title |-> IF Lookup(phrase) # {} THEN (CHOOSE x \in Lookup(phrase) : TRUE).title
             ELSE IF Search(phrase, 1) # <<>> THEN Search(phrase, 1)[1].title ELSE phrase,
   blurb |-> (CHOOSE x \in SummaryFor(phrase) : TRUE).title]
Told(phrases, covered) == At(phrases, {i \in DOMAIN phrases : Tok(phrases[i]) \notin covered
                                                              /\ SummaryFor(phrases[i]) # {}})
New(found, covered) ==
  LET titles == [i \in DOMAIN found |-> Tok(found[i].title)]
      new == {i \in DOMAIN found : titles[i] \notin covered}
  IN  Firsts(At(found, new), At(titles, new))
Topics(text, covered) ==
  LET hits == Told(Phrases(text), covered)
  IN  Upto(2, New([i \in DOMAIN hits |-> TopicOf(hits[i])], covered))

\* shared_history: for each of the cast the newest log with the bot in it, no log
\* twice; the bot is of the cast too.
SharedHistory(cast) ==
  LET logs(n) == At(Index, {i \in DOMAIN Index : /\ {Tok(n), Anchor} \subseteq Index[i].characters
                                                 /\ Index[i].summary})
      newest(n) == Sorted(logs(n), [k \in DOMAIN logs(n) |-> 0 - logs(n)[k].year])[1]
      with == At(cast, {i \in DOMAIN cast : logs(cast[i]) # <<>>})
      logged == [i \in DOMAIN with |-> [with |-> with[i], title |-> newest(with[i]).title]]
  IN  Upto(4, Firsts(logged, [i \in DOMAIN logged |-> logged[i].title]))
===============================================================================
