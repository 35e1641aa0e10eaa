-------------------------------- MODULE MCPersona --------------------------------
(* A small cast: two dossiers share a first name, the heading of one (Bo) is not *)
(* the name of its file, Vin's has no facets, and Newt has none.                 *)
EXTENDS Persona

Alphabet == <<"ann", "bo", "cricket", "golden", "kee", "lee", "memory", "newt", "of", "ray", "rules",
           "ship", "the", "vin", "zed", ",">>
MCTokens == ToSet(Alphabet)
MCRank == [w \in [t : MCTokens, up : BOOLEAN] |->
             (CHOOSE i \in DOMAIN Alphabet : Alphabet[i] = w.t)
             + (IF w.up THEN 0 ELSE Len(Alphabet))]
MCBare == [t \in MCTokens |-> t]
MCWidth == [t \in MCTokens |->
             IF t = "," THEN 1 ELSE IF t \in {"bo", "of"} THEN 2
             ELSE IF t \in {"cricket", "golden"} THEN 7 ELSE 4]
MCPunctuation == {","}

W(t) == [t |-> t, up |-> TRUE]
w(t) == [t |-> t, up |-> FALSE]

Ann == <<"ann", "lee">>
Ray == <<"ann", "ray">>
Bo == <<"zed">>
Vin == <<"vin">>
MCStems == {Ann, Ray, Bo, Vin}
MCTitle == [s \in MCStems |-> IF s = Ann THEN <<W("ann"), W("lee")>>
                              ELSE IF s = Ray THEN <<W("ann"), W("ray")>>
                              ELSE IF s = Bo THEN <<W("bo"), w(","), W("zed")>>
                              ELSE <<W("vin")>>]

Sec(f, n) == [facet |-> f, size |-> n]
Full == [s \in MCStems |-> IF s = Ann THEN <<Sec("pre", 1), Sec("ic", 1), Sec("ooc", 1)>>
                           ELSE IF s = Ray THEN <<Sec("ooc", 2), Sec("ic", 2)>>
                           ELSE IF s = Bo THEN <<Sec("pre", 1)>>
                           ELSE <<Sec("pre", 3)>>]
\* Ann's is rewritten without an IC facet, Ray's is removed.
Rewritten == [Full EXCEPT ![Ann] = <<Sec("pre", 1), Sec("ooc", 2)>>, ![Ray] = <<>>]
MCDossiers == {Full, Rewritten}

Page(title, ns, characters, summary, lead, words, year) ==
  [title |-> title, ns |-> ns, characters |-> characters, summary |-> summary,
   lead |-> lead, words |-> words, year |-> year]
MCPages == <<
  Page(<<W("cricket")>>, "Main", {}, FALSE, TRUE, <<>>, 0),
  Page(<<W("golden"), W("kee")>>, "RPlog", {<<"vin">>, <<"cricket">>}, TRUE, FALSE,
       <<w("ship"), w("newt"), w("ray")>>, 2),
  Page(<<W("kee")>>, "Talk", {}, TRUE, FALSE, <<>>, 0),
  Page(<<W("newt")>>, "Main", {}, FALSE, TRUE, <<>>, 0),
  Page(<<W("ship"), w("of"), W("ray")>>, "Main", {<<"cricket">>, <<"ann", "lee">>}, TRUE, TRUE,
       <<w("vin")>>, 1)>>
MCAnchor == <<"cricket">>
MCBot == <<"cricket">>

MCProfiles == {[id |-> 1, thinking |-> TRUE], [id |-> 2, thinking |-> FALSE]}

Pose(speaker, text, n) == [speaker |-> speaker, dbref |-> TRUE, text |-> text, length |-> n]
Lee == Pose(<<W("lee")>>, <<W("vin"), w(","), w("newt")>>, 400)
Newt == Pose(<<W("newt")>>, <<w("kee")>>, 200)
Own == Pose(<<W("cricket")>>, <<w("ship")>>, 100)
Narration == [speaker |-> <<>>, dbref |-> FALSE, text |-> <<W("zed")>>, length |-> 100]
Poses == {Lee, Newt, Own, Narration, Pose(<<W("ann")>>, <<w("ann"), w("ray")>>, 100)}
Long == {<<p, q, p, q, p>> : p \in {Newt, Lee}, q \in {Own}}
MCScenes == {[tail |-> t, seed |-> <<>>] :
               t \in {<<>>} \cup {<<p>> : p \in Poses} \cup {<<p, q>> : p, q \in Poses} \cup Long}
            \cup {[tail |-> t, seed |-> <<w("the"), W("zed")>>] : t \in {<<>>, <<Own>>}}

Asked == {<<w("the"), W("golden"), W("ship"), w("of"), w(",")>>,
          <<W("the"), W("ann")>>, <<W("newt"), w(","), W("kee")>>,
          <<W("golden"), W("ship"), W("newt"), W("ray")>>, <<w("vin")>>, <<W("zed")>>}
MCChats == {[mode |-> "chat", context |-> c, speaker |-> s, text |-> x, claimed |-> {}] :
             c \in {<<>>, <<[Lee EXCEPT !.dbref = FALSE]>>},
             s \in {<<W("newt")>>}, x \in Asked}
           \cup {[mode |-> "chat", context |-> <<>>, speaker |-> <<W("vin")>>, text |-> x,
                 claimed |-> {}] : x \in Asked}
MCRecalls == {<<W("vin"), w(","), W("ray")>>}

Say(kind, names) == [kind |-> kind, names |-> names]
MCDistillates == {<<Say("frame", <<>>), Say("note", <<>>)>>,
                  <<Say("note", <<>>), Say("actors", <<<<W("kee")>>, <<W("cricket")>>, <<w("ship")>>>>),
                    Say("note", <<>>)>>}

\* What the model writes is varied where the prompt is not.
Marks == {"w", ".", "open", "close", "*"}
MCLines == {<<"@", "Cricket says,", "open", "w">>,
            <<"w", "<|im_end|>", ".", "user", "open", "w", "close">>}
           \cup UNION {[1..n -> Marks] : n \in 0..4}
MCWrites(t, line) ==
  \/ line \in {<<>>, <<"w">>}
  \/ t.context = <<>> /\ t.speaker # <<W("vin")>> /\ t.text \in {<<>>, <<W("zed")>>}
===============================================================================
